------------------------------ MODULE ProxyCalls ------------------------------
(***************************************************************************)
(* The calls the proxy answers whole: handle_openai_chat (direct and       *)
(* through a backend), handle_openai_responses, handle_compress and        *)
(* handle_passthrough of headroom/proxy/handlers/openai.py, with the       *)
(* compression of Responses items and its cache, _retry_request and the    *)
(* shutdown of headroom/proxy/server.py, on the executor they share.       *)
(*                                                                         *)
(* A loop action runs from one await to the next; what a thread may do in  *)
(* the middle of one splits it.  A conversation is a numbered sequence of  *)
(* items, user texts and tool outputs; a request carries its first few.    *)
(* Of a body only the proxy's own changes are kept, of an upstream's reply *)
(* its status, whether it is JSON and the proxy's tools it calls.  A       *)
(* stream that was opened is ProxyStream's.                                *)
(***************************************************************************)
EXTENDS CompressionExecutor, FiniteSetsExt

CONSTANTS
    Frames,         \* the calls that compress a frame of a WebSocket session
    Lengths,        \* bound: how many items of the conversation a call carries
    ToolOutputs,    \* the items that are tool outputs
    Attempts,       \* retry_max_attempts
    Rounds          \* bound: retrieval rounds of one call

ASSUME CallsAssumption ==
    /\ Frames \subseteq Calls
    /\ {Attempts, Rounds} \cup Lengths \subseteq Nat \ {0}
    /\ IsFiniteSet(Lengths) /\ 1 \in Lengths
    /\ 1 \notin ToolOutputs

VARIABLES
    call,           \* the handler of each call
    work,           \* the callable its job runs
    cache,          \* the items whose result is in the unit cache
    server,         \* the proxy's life: its event and its HTTP client
    lived           \* ghost: items compressed as live text or tool output

shared == <<cache, server, lived>>
vars == <<executor, call, work, shared>>

\* Changes of a body that may stay unmarked: the forced store=false and the
\* shaping in a worker.  Every other edit marks the body for the forwarder.
Changes == {"store", "shape"}
Nothing == [changes |-> {}, items |-> {}]

Items == 1 .. Max(Lengths)

\* The proxy's tools a reply may call.
Asks == SUBSET {"retrieve", "recall"}

\* "failed": a 429, a 529 or a 5xx, which is tried again; "refused": another.
Errors == {"refused", "failed"}
Replies == [status : {"ok"}, json : {TRUE}, asks : Asks]
           \cup [status : {"ok"} \cup Errors, json : BOOLEAN, asks : {{}}]
Idle == [task |-> "none", todo |-> {}, done |-> {}, shaped |-> FALSE, ok |-> FALSE]
Stopped == [status |-> "stopped", json |-> TRUE, asks |-> {}]
NoReply == [status |-> "none", asks |-> {}]

Fresh == [pc |-> "idle", kind |-> "chat", mode |-> "json", items |-> 1,
          body |-> {}, marked |-> FALSE, adopted |-> {}, wire |-> Nothing,
          phase |-> "first", attempt |-> 1, round |-> 0,
          reply |-> NoReply, answer |-> NoReply]

Init ==
    /\ ExecutorInit
    /\ call = [c \in Calls |-> Fresh]
    /\ work = [c \in Calls |-> Idle]
    /\ cache = {} /\ server = "up"
    /\ lived = {}

Into(c, r) == call' = [call EXCEPT ![c] = r]
At(c, where) == call[c].pc = where
OnResponses(r) == r.kind \in {"responses", "passthrough", "frame"}

\* "here": answered, or handed on, without a reply of an upstream's; "error":
\* the handler's own 500 or 502.
Answered(r, status, asks) ==
    [Fresh EXCEPT !.pc = "done", !.kind = r.kind, !.mode = r.mode, !.items = r.items,
                  !.answer = [status |-> status, asks |-> asks \cap {"retrieve"}]]

-----------------------------------------------------------------------------
(* The callable: shaping and compressing a Responses payload. *)

Users(n) == (1 .. n) \ ToolOutputs
Live(n) == Max(Users(n))
Eligible(n) == {Live(n)} \cup (ToolOutputs \cap 1 .. n)
History(n) == Users(n) \ {Live(n)}

\* What a worker puts together for a caller that has left is lost.
Collected(c, S) == IF c \in awaited THEN S ELSE {}

Begin(c) ==
    /\ Start(c)
    /\ work' = [work EXCEPT ![c].task =
                  IF OnResponses(call[c]) THEN "shape" ELSE "apply"]
    /\ UNCHANGED <<call, shared>>

\* _shape_openai_responses_payload changes the caller's own dictionary,
\* whether or not the caller still waits.
ShapeInPlace(c) ==
    /\ job[c] = "running" /\ work[c].task = "shape"
    /\ \E changed \in BOOLEAN :
          /\ work' = [work EXCEPT ![c].task = "plan", ![c].shaped = changed /\ c \in awaited]
          /\ call' = IF changed /\ ~At(c, "done")
                     THEN [call EXCEPT ![c].body = @ \cup {"shape"}] ELSE call
    /\ UNCHANGED <<executor, shared>>

\* Mistake: every user text may be compressed.
PlanAll(c) ==
    /\ job[c] = "running" /\ work[c].task = "plan"
    /\ LET n == call[c].items IN
          work' = [work EXCEPT
                     ![c].task = "units",
                     ![c].todo = (1 .. n) \ cache,
                     ![c].done = Collected(c, (1 .. n) \cap cache)]
    /\ UNCHANGED <<executor, call, shared>>

\* Which slots are units, and which of them the cache has already.  A user
\* text before the newest one is taken from the cache or left alone.
Plan(c) ==
    /\ job[c] = "running" /\ work[c].task = "plan"
    /\ LET n == call[c].items IN
          work' = [work EXCEPT
                     ![c].task = "units",
                     ![c].todo = Eligible(n) \ cache,
                     ![c].done = Collected(c, (Eligible(n) \cup History(n)) \cap cache)]
    /\ UNCHANGED <<executor, call, shared>>

\* Mistake: the replacement is spliced into the caller's body.
CompressInPlace(c, i) ==
    /\ job[c] = "running" /\ i \in work[c].todo
    /\ work' = [work EXCEPT ![c].todo = @ \ {i}, ![c].done = Collected(c, @ \cup {i})]
    /\ call' = IF At(c, "done") THEN call
               ELSE [call EXCEPT ![c].adopted = @ \cup {i}]
    /\ cache' = cache \cup {i}
    /\ lived' = lived \cup ({i} \cap Eligible(call[c].items))
    /\ UNCHANGED <<executor, server>>

\* One unit through the router; its result is kept even if nobody waits.
CompressUnit(c, i) ==
    /\ job[c] = "running" /\ i \in work[c].todo
    /\ work' = [work EXCEPT ![c].todo = @ \ {i}, ![c].done = Collected(c, @ \cup {i})]
    /\ cache' = cache \cup {i}
    /\ lived' = lived \cup ({i} \cap Eligible(call[c].items))
    /\ UNCHANGED <<executor, call, server>>

\* The soft budget is spent: what was not scheduled stays as it is.
StopAtBudget(c) ==
    /\ job[c] = "running" /\ work[c].todo # {}
    /\ work' = [work EXCEPT ![c].todo = {}]
    /\ UNCHANGED <<executor, call, shared>>

\* Item 0 stands for the rest of the payload: a chat's messages, and of a
\* Responses body the tools, compacted, shortened or deferred.
Rest == SUBSET {0}

\* All units are done or given up; chats and messages go through in one piece.
Finished(c) == work[c].task \in {"units", "apply"} /\ work[c].todo = {}

\* The callable returns, or raises at any point.
End(c) ==
    /\ Finish(c)
    /\ \E ok \in BOOLEAN, rest \in Rest :
          /\ ok => Finished(c)
          /\ work' = [work EXCEPT ![c] =
                        IF ok /\ c \in awaited
                        THEN [work[c] EXCEPT !.task = "none", !.done = @ \cup rest, !.ok = TRUE]
                        ELSE Idle]
    /\ UNCHANGED <<call, shared>>

\* The unit cache is bounded; other sessions push an entry out.
Evict(i) ==
    /\ i \in cache
    /\ cache' = cache \ {i}
    /\ UNCHANGED <<executor, call, work, server, lived>>

Take == Pick /\ UNCHANGED <<call, work, shared>>

-----------------------------------------------------------------------------
(* From the request to the body that is sent. *)

\* What the next request sends.  The client's own bytes unless a change was
\* marked; a continuation is a copy of the body with other messages, but that of
\* a Responses memory call is made from scratch, with the tools of the body.
Wire(r) ==
    IF r.phase = "recall" /\ r.kind = "responses"
    THEN [changes |-> {}, items |-> r.adopted \cap {0}]
    ELSE IF r.marked THEN [changes |-> r.body, items |-> r.adopted] ELSE Nothing

\* The handler is done with the body, which has not been written yet.
Send(r) == [r EXCEPT !.pc = "sending"]

Edited(r) == [r EXCEPT !.marked = TRUE]

\* The loop's own shaping, then the choice of a buffered reply.
Shape(r) ==
    {Send(Edited(r))} \cup IF r.mode = "buffered" THEN {} ELSE {Send(r)}

\* A chat's messages are settled: the cached prefix is laid over them, and
\* they are given up if they have grown.  Its memory is still to come.
SettleMessages(r) == [r EXCEPT !.pc = "memory"]

\* What follows the compression, or its failure, or a bypass.
Onward(r) ==
    CASE r.kind = "responses" -> Shape(r)
      [] r.kind = "passthrough" -> {Send(r)}
      [] r.kind \in {"chat", "backend"} -> {SettleMessages(r)}
      [] r.kind \in {"frame", "compress"} -> {Answered(r, "here", {})}

\* A result changes the body; a body shaped in place is marked with it.
Adopt(c) ==
    [call[c] EXCEPT !.adopted = work[c].done,
                    !.marked = @ \/ work[c].done # {} \/ work[c].shaped]

\* Into the executor, turned away by its quarantine, or past it (bypass, not
\* optimizing).
Compress(c, r) ==
    \/ Submit(c) /\ Into(c, [r EXCEPT !.pc = "compressing"])
    \/ /\ \E next \in Onward(r) : Into(c, next)
       /\ UNCHANGED executor

\* A body too large, not JSON or over the rate limit is refused at once.
Refuse(c) ==
    /\ At(c, "idle")
    /\ Into(c, Answered(call[c], "here", {}))
    /\ UNCHANGED <<executor, work, shared>>

\* A chat may be answered as an earlier one was, from the response cache.
AnswerFromCache(c) ==
    /\ At(c, "idle") /\ c \notin Frames
    /\ \E asks \in Asks : Into(c, Answered(call[c], "ok", asks))
    /\ UNCHANGED <<executor, work, shared>>

ArriveChat(c) ==
    \E kind \in {"chat", "backend"}, mode \in {"json", "stream"} :
        Compress(c, [call[c] EXCEPT !.kind = kind, !.mode = mode])

\* ChatGPT requires store=false; the handler writes it into the body.
ArriveResponses(c) ==
    \E n \in Lengths, mode \in {"json", "stream", "buffered"}, stored \in SUBSET {"store"} :
        /\ mode = "buffered" => stored = {}
        /\ Into(c, [call[c] EXCEPT !.kind = "responses", !.mode = mode, !.items = n,
                                   !.body = stored, !.pc = "memory"])
        /\ UNCHANGED executor

ArrivePassthrough(c) ==
    \E n \in Lengths : Compress(c, [call[c] EXCEPT !.kind = "passthrough", !.items = n])

ArriveCompress(c) == Compress(c, [call[c] EXCEPT !.kind = "compress"])

ArriveFrame(c) ==
    \E n \in Lengths : Compress(c, [call[c] EXCEPT !.kind = "frame", !.items = n])

Arrive(c) ==
    /\ At(c, "idle") /\ server = "up"
    /\ IF c \in Frames THEN ArriveFrame(c)
       ELSE ArriveChat(c) \/ ArriveResponses(c) \/ ArrivePassthrough(c) \/ ArriveCompress(c)
    /\ UNCHANGED <<work, shared>>

\* Before the compression: a search that fails or takes too long adds nothing.
RememberResponses(c) ==
    /\ At(c, "memory") /\ call[c].kind = "responses"
    /\ \E found \in BOOLEAN : Compress(c, IF found THEN Edited(call[c]) ELSE call[c])
    /\ UNCHANGED <<work, shared>>

\* After it.  A chat's body is written anew whatever has been found.
RememberChat(c) ==
    /\ At(c, "memory") /\ call[c].kind \in {"chat", "backend"}
    /\ Into(c, Send(Edited(call[c])))
    /\ UNCHANGED <<executor, work, shared>>

Resume(c) ==
    /\ Return(c)
    /\ \E next \in Onward(IF work[c].ok THEN Adopt(c) ELSE call[c]) : Into(c, next)
    /\ work' = [work EXCEPT ![c] = Idle]
    /\ UNCHANGED shared

Deadline(c) ==
    /\ TimeOut(c)
    /\ \E next \in Onward(call[c]) : Into(c, next)
    /\ work' = [work EXCEPT ![c] = IF job[c] = "running"
                                   THEN [@ EXCEPT !.done = {}, !.shaped = FALSE] ELSE Idle]
    /\ UNCHANGED shared

\* The relay of a WebSocket session cancels the task that waits.
CancelFrame(c) ==
    /\ call[c].kind = "frame"
    /\ Abandon(c)
    /\ Into(c, Answered(call[c], "here", {}))
    /\ work' = [work EXCEPT ![c] = IF job[c] = "running"
                                   THEN [@ EXCEPT !.done = {}, !.shaped = FALSE] ELSE Idle]
    /\ UNCHANGED shared

-----------------------------------------------------------------------------
(* Sending, retrying, and what is made of the reply. *)

\* Mistake: the rest of the handling is trusted to have resolved it.
DeliverUnchecked(r, status, asks) == Answered(r, status, asks)

\* A buffered stream that still calls headroom_retrieve fails closed.
Deliver(r, status, asks) ==
    IF r.mode = "buffered" /\ status = "ok" /\ "retrieve" \in asks
    THEN Answered(r, "error", {})
    ELSE Answered(r, status, asks)

\* A continuation is written anew, never from the client's bytes.
Continue(r, phase) ==
    [r EXCEPT !.pc = "sending", !.phase = phase, !.attempt = 1, !.marked = TRUE]

\* Memory tools are run for a chat, and for a Responses call that is stored.
Settle(r, status, asks) ==
    {Deliver(r, status, asks)} \cup
    IF /\ r.kind \in {"chat", "responses"} /\ "store" \notin r.body
       /\ status = "ok" /\ "recall" \in asks
    THEN {[Continue(r, "recall") EXCEPT !.pc = "recalling", !.round = 0,
                                        !.reply = [status |-> status, asks |-> asks]]}
    ELSE {}

Refetch(r) == [Continue(r, "retrieve") EXCEPT !.round = @ + 1]

\* handle_response of the CCR handler: another round, or the reply as it is
\* when a tool of the client's is called beside it or the rounds are used up.
Resolve(r, status, asks) ==
    Settle(r, status, asks) \cup
    IF /\ r.kind \in {"responses", "backend"} /\ r.round < Rounds
       /\ status = "ok" /\ "retrieve" \in asks
    THEN {Refetch(r)} ELSE {}

\* Where an exception of the request, or of reading its reply, ends.  The
\* memory's continuation is given up for the reply it was to replace.
Raised(r) ==
    IF r.phase = "recall" THEN {Deliver(r, r.reply.status, r.reply.asks)}
    ELSE {Answered(r, "error", {})}

\* A reply is read as JSON wherever it is more than passed through.
TakenChat(r, reply) ==
    IF ~reply.json THEN Raised(r)
    ELSE IF r.phase = "first" THEN Settle(r, reply.status, reply.asks)
    ELSE IF reply.status = "ok" THEN {Deliver(r, "ok", reply.asks)}
    ELSE Raised(r)

\* The answer of a continuation is taken whatever its status.
TakenResponses(r, reply) ==
    IF ~reply.json THEN Raised(r)
    ELSE CASE r.phase = "first" -> Resolve(r, reply.status, reply.asks)
           [] r.phase = "retrieve" -> Resolve(r, "ok", reply.asks)
           [] r.phase = "recall" -> {Deliver(r, reply.status, reply.asks)}

TakenBackend(r, reply) ==
    IF r.phase = "first" THEN Resolve(r, reply.status, reply.asks)
    ELSE IF reply.json THEN Resolve(r, "ok", reply.asks) ELSE Raised(r)

TakenPassthrough(r, reply) == {Answered(r, reply.status, reply.asks)}

Taken(r, reply) ==
    CASE r.kind = "chat" -> TakenChat(r, reply)
      [] r.kind = "responses" -> TakenResponses(r, reply)
      [] r.kind = "backend" -> TakenBackend(r, reply)
      [] r.kind = "passthrough" -> TakenPassthrough(r, reply)

\* A chat and a Responses call are tried again; the others send once.
LastAttempt(r) == r.kind \in {"backend", "passthrough"} \/ r.attempt = Attempts

\* The body is written once, before the first attempt.  Until then the upstream's
\* credentials are waited for, which may raise.  A stream that is opened is
\* handed on.
Write(c) ==
    /\ At(c, "sending")
    /\ LET r == call[c] IN
       \/ Into(c, [(IF r.mode = "stream" THEN Answered(r, "here", {})
                    ELSE [r EXCEPT !.pc = "posting"])
                   EXCEPT !.wire = Wire(r), !.marked = r.marked])
       \/ r.kind \in {"chat", "responses"} /\ \E next \in Raised(r) : Into(c, next)
    /\ UNCHANGED <<executor, work, shared>>

\* One attempt: an answer, a transport error, or an HTTP client that is gone.
\* The last overload or 5xx is returned as it is.
Post(c) ==
    /\ At(c, "posting")
    /\ LET r == call[c]
           backoff == [r EXCEPT !.pc = "backoff"] IN
       \/ \E reply \in Replies :
             IF reply.status = "failed" /\ ~LastAttempt(r)
             THEN Into(c, backoff)
             ELSE \E next \in Taken(r, reply) : Into(c, next)
       \/ ~LastAttempt(r) /\ Into(c, backoff)
       \/ (LastAttempt(r) \/ server = "stopping") /\ \E next \in Raised(r) : Into(c, next)
    /\ UNCHANGED <<executor, work, shared>>

\* Mistake: the body is written anew for every attempt.
AgainRewritten(r) == [r EXCEPT !.pc = "posting", !.attempt = @ + 1, !.wire = Wire(r)]

\* Mistake: attempts are not counted.
AgainForever(r) == [r EXCEPT !.pc = "posting"]

Again(r) == [r EXCEPT !.pc = "posting", !.attempt = @ + 1]

\* The delay before the next attempt is cut short by the shutdown.
Backoff(c) ==
    /\ At(c, "backoff")
    /\ \/ server = "up" /\ Into(c, Again(call[c]))
       \/ server = "stopping" /\ \E next \in Taken(call[c], Stopped) : Into(c, next)
    /\ UNCHANGED <<executor, work, shared>>

\* The memory's tools are run and their results sent on.
Recall(c) ==
    /\ At(c, "recalling")
    /\ LET r == call[c] IN
       \/ Into(c, Send(r))
       \/ Into(c, Deliver(r, r.reply.status, r.reply.asks))
    /\ UNCHANGED <<executor, work, shared>>

\* shutdown: the event first, then, any time later, the HTTP clients.
Shutdown ==
    /\ server = "up"
    /\ server' = "stopping"
    /\ UNCHANGED <<executor, call, work, cache, lived>>

-----------------------------------------------------------------------------
HandlerStep(c) == RememberChat(c) \/ RememberResponses(c) \/ Resume(c) \/ Deadline(c) \/ Write(c) \/ Post(c)
                  \/ Backoff(c) \/ Recall(c)

WorkerStep(c) == Begin(c) \/ ShapeInPlace(c) \/ Plan(c)
                 \/ (\E i \in Items : CompressUnit(c, i))
                 \/ StopAtBudget(c) \/ End(c)

Next ==
    \/ \E c \in Calls :
          \/ Refuse(c) \/ AnswerFromCache(c) \/ Arrive(c)
          \/ HandlerStep(c) \/ CancelFrame(c) \/ WorkerStep(c)
    \/ Take \/ Shutdown
    \/ \E i \in Items : Evict(i)

\* No fairness: what follows is about any run, also of a worker that hangs in a
\* compressor for ever.
Spec == Init /\ [][Next]_vars

-----------------------------------------------------------------------------
(* Properties. *)

Statuses == {"none", "here", "ok", "error", "stopped"} \cup Errors
Record(S) == [status : S, asks : Asks]

\* The type invariant.
TypeOK ==
    /\ ExecutorTypeOK
    /\ \A c \in Calls :
          LET r == call[c] IN
          /\ r.pc \in {"idle", "memory", "compressing", "sending", "posting", "backoff",
                       "recalling", "done"}
          /\ r.mode \in {"json", "stream", "buffered"} /\ r.items \in Items
          /\ r.body \subseteq Changes /\ r.marked \in BOOLEAN
          /\ r.adopted \subseteq {0} \cup Items
          /\ r.attempt \in 1 .. Attempts /\ r.round \in 0 .. Rounds
          /\ r.reply \in Record({"none", "ok"}) /\ r.answer \in Record(Statuses)
          /\ work[c].todo \cup work[c].done \subseteq {0} \cup Items
          /\ (r.pc = "compressing") = (c \in awaited)
    /\ cache \cup lived \subseteq Items

\* Of what an abandoned worker still compresses nothing is in the body of the
\* call that stopped waiting for it, nor in any bytes that call sends.  Its
\* shaping of that body can be: where the handler has marked no change, the
\* client's bytes are sent nevertheless; in a body that is written anew for
\* another reason, as every continuation is, the shaping goes out.
LateWorkUnused ==
    \A c \in Calls : late[c] =>
        /\ call[c].adopted = {} /\ call[c].wire.items = {}
        /\ call[c].wire.changes # {} => call[c].marked

\* A call's attempts all carry the same bytes, though a worker it no longer
\* waits for may be changing the dictionary they were written from.
RetriesSendTheSame ==
    [][\A c \in Calls : At(c, "backoff") /\ At(c, "posting")'
                           => call'[c].wire = call[c].wire]_vars

\* A client that asked for a stream never gets a retrieval call to answer,
\* neither from the first reply nor from any continuation after it.
BufferedNeverAsks ==
    \A c \in Calls : call[c].mode = "buffered" => "retrieve" \notin call[c].answer.asks

\* A user text that is no longer the newest goes out as the client wrote it,
\* or as it was compressed while it was the newest: never by a fresh inference.
HistoryOnlyReplayed ==
    /\ TypeOK
    /\ \A c \in Calls : call[c].adopted \cap History(call[c].items) \subseteq lived

\* What a call may still do before its answer: the continuations it may ask
\* for, then the steps and attempts of the request it is at.
Continuations(r) == IF r.phase = "recall" THEN 0 ELSE 1 + Rounds - r.round
Steps(r) ==
    LET attempts == 2 * (Attempts - r.attempt) IN
    CASE r.pc = "backoff" -> attempts
      [] r.pc = "posting" -> attempts + 1
      [] r.pc = "sending" -> attempts + 2
      [] r.pc = "memory" -> 2 * Attempts + IF r.kind = "responses" THEN 3 ELSE 1
      [] OTHER -> 2 * Attempts + 2

Nearer(s, r) ==
    \/ s.pc = "done" /\ r.pc # "done"
    \/ r.pc # "done" /\ Continuations(s) < Continuations(r)
    \/ r.pc # "done" /\ Continuations(s) = Continuations(r) /\ Steps(s) < Steps(r)

\* Only the body is changed by others than the handler.
Moves(c) == \E f \in DOMAIN call[c] \ {"body"} : call'[c][f] # call[c][f]

\* No call goes on for ever: whether or not its worker ever comes back, and
\* whatever the upstream and the shutdown do, every step of its handler takes
\* it nearer to its answer, through memory, retries and continuations alike.
CallsWindDown ==
    [][\A c \in Calls : call[c].pc # "idle" /\ Moves(c) => Nearer(call'[c], call[c])]_vars
===============================================================================
