--------------------------- MODULE KompressBroker ---------------------------
(***************************************************************************)
(* The Kompress broker (src/kompress_broker/app.py): an asyncio HTTP       *)
(* service that owns one worker process and fails open.                    *)
(*                                                                         *)
(* Three kinds of actors interleave:                                       *)
(*   - the handler of each POST /compress, a coroutine whose code between  *)
(*     two awaits is one step of the event loop;                           *)
(*   - executor threads: one runs worker.request for a handler and one     *)
(*     runs worker.stop; asyncio.wait_for abandons a thread when its timer *)
(*     fires, the thread itself goes on;                                   *)
(*   - the worker process, which answers one line per line it reads, may   *)
(*     be slow and may die.                                                *)
(*                                                                         *)
(* Time is not modelled: a timer may fire at any step at which its await   *)
(* is still pending.                                                       *)
(***************************************************************************)
EXTENDS Naturals, Sequences, FiniteSets

CONSTANTS
    Requests,       \* the POST /compress calls made to this broker process
    QueueLimit,     \* BrokerConfig.queue_limit
    ReceiptLimit,   \* how many receipts recent_requests keeps (32 in the code)
    None            \* "no request"

ASSUME BrokerAssumption ==
    /\ IsFiniteSet(Requests)
    /\ QueueLimit \in Nat
    /\ ReceiptLimit \in Nat \ {0}
    /\ None \notin Requests

VARIABLES
    phase,          \* of the ASGI lifespan
    pc,             \* request -> the await its handler is at, or its answer
    permits,        \* free permits of _capacity
    lockHolder,     \* the request that holds _worker_lock, or None
    ready,          \* BrokerState.ready
    provider,       \* BrokerState.provider and .backend are set
    circuitOpen,    \* BrokerState.circuit_open
    counters,       \* BrokerState.counters
    receipts,       \* BrokerState.recent_requests
    thread,         \* request -> progress of its worker.request thread
    result,         \* request -> what that thread returned or raised
    ioHolder,       \* the request whose thread holds ProviderWorker._io_lock
    stopper,        \* request -> progress of its worker.stop thread
    attached,       \* ProviderWorker._process and ._responses are set
    worker,         \* the worker process
    inbox,          \* requests written to its stdin and not yet answered
    lines           \* the queue its reader thread fills

handlerVars == <<phase, pc, permits, lockHolder, ready, provider, circuitOpen,
                 counters, receipts>>
threadVars  == <<thread, result, ioHolder>>
stopVars    == <<stopper, attached>>
processVars == <<worker, inbox, lines>>
vars == <<handlerVars, threadVars, stopVars, processVars>>

-----------------------------------------------------------------------------
(* The stages of a handler. *)

StopStages    == {"stop_timeout", "stop_error", "stop_device"}
LockStages    == {"calling"} \cup StopStages
HoldingStages == {"lock"} \cup LockStages

\* The stages in which a call has reached the compression path and its HTTP
\* response is still owed.
OpenStages == {"capacity"} \cup HoldingStages

\* HTTP 200 with the caller's own text, one name per branch that returns it.
Passthroughs == {"queue_full", "provider_not_ready", "provider_timeout",
                 "worker_failure", "provider_error", "device_lost", "same"}
Answers == Passthroughs \cup {"compressed"}
Stages  == {"new", "rejected"} \cup OpenStages \cup Answers

\* The lines a worker may answer with, as the broker tells them apart.
ReplyKinds == {"compressed", "same", "invalid", "device", "garbled"}
Line == [id : Requests, kind : ReplyKinds] \cup [id : {None}, kind : {"eof"}]
Eof  == [id |-> None, kind |-> "eof"]

\* What worker.request gives back to the handler.
Results == {"none", "timeout", "failed", "compressed", "same", "invalid", "device"}

-----------------------------------------------------------------------------
(* Counters and receipts. *)

CounterNames == {"total", "compressed", "passthrough", "timeout", "queue_full",
                 "worker_restart", "device_removal", "error"}

\* Mistake: charging the counter through record instead of bump.
BumpAsRecord(name) == [counters EXCEPT !["total"] = @ + 1, ![name] = @ + 1]

\* BrokerState.bump: one counter, without counting a request.
Bump(name) == [counters EXCEPT ![name] = @ + 1]

\* BrokerState.record: one more request, charged to one outcome.
Record(name) == [counters EXCEPT !["total"] = @ + 1, ![name] = @ + 1]

\* Mistake: trimming one entry too late.
ReceiptUntrimmed(r, outcome) ==
    LET trail == Append(receipts, [request |-> r, outcome |-> outcome])
        drop  == IF Len(trail) > ReceiptLimit + 1 THEN 1 ELSE 0
    IN  SubSeq(trail, drop + 1, Len(trail))

\* record_receipt: append, then keep the last ReceiptLimit.
Receipt(r, outcome) ==
    LET trail == Append(receipts, [request |-> r, outcome |-> outcome])
        drop  == IF Len(trail) > ReceiptLimit THEN Len(trail) - ReceiptLimit ELSE 0
    IN  SubSeq(trail, drop + 1, Len(trail))

-----------------------------------------------------------------------------
Init ==
    /\ phase = "starting"
    /\ pc = [r \in Requests |-> "new"]
    /\ permits = QueueLimit + 1
    /\ lockHolder = None
    /\ ready = FALSE
    /\ provider = FALSE
    /\ circuitOpen = FALSE
    /\ counters = [n \in CounterNames |-> 0]
    /\ receipts = <<>>
    /\ thread = [r \in Requests |-> "none"]
    /\ result = [r \in Requests |-> "none"]
    /\ ioHolder = None
    /\ stopper = [r \in Requests |-> "none"]
    /\ attached = FALSE
    /\ worker = "absent"
    /\ inbox = <<>>
    /\ lines = <<>>

-----------------------------------------------------------------------------
(* The ASGI lifespan. uvicorn serves requests only after startup, and calls *)
(* shutdown only after every request in flight has been answered.           *)

\* The worker printed its ready line and the canary came back valid.
StartSucceeds ==
    /\ phase = "starting"
    /\ phase' = "serving"
    /\ ready' = TRUE
    /\ provider' = TRUE
    /\ attached' = TRUE
    /\ worker' = "running"
    /\ UNCHANGED <<pc, permits, lockHolder, circuitOpen, counters, receipts,
                   threadVars, stopper, inbox, lines>>

\* Any failure on the way stops the worker; the broker serves, not ready.
StartFails ==
    /\ phase = "starting"
    /\ phase' = "serving"
    /\ worker' = "exited"
    /\ UNCHANGED <<pc, permits, lockHolder, ready, provider, circuitOpen,
                   counters, receipts, threadVars, stopVars, inbox, lines>>

\* The hook's own wait_for fires first: startup raises and nothing is served.
StartupTimesOut ==
    /\ phase = "starting"
    /\ phase' = "aborted"
    /\ worker' = "exited"
    /\ UNCHANGED <<pc, permits, lockHolder, ready, provider, circuitOpen,
                   counters, receipts, threadVars, stopVars, inbox, lines>>

\* The process ends and the reader thread reports it.
Terminate ==
    /\ worker' = IF worker = "running" THEN "exited" ELSE worker
    /\ lines' = IF worker = "running" THEN Append(lines, Eof) ELSE lines
    /\ inbox' = <<>>

Shutdown ==
    /\ phase = "serving"
    /\ \A r \in Requests : pc[r] \notin OpenStages
    /\ phase' = "stopped"
    /\ ready' = FALSE
    /\ provider' = FALSE
    /\ attached' = FALSE
    /\ Terminate
    /\ UNCHANGED <<pc, permits, lockHolder, circuitOpen, counters, receipts,
                   threadVars, stopper>>

-----------------------------------------------------------------------------
(* The handler of one request. *)

\* A malformed or oversized body: 400 or 413, nothing counted.
Reject(r) ==
    /\ phase = "serving"
    /\ pc[r] = "new"
    /\ pc' = [pc EXCEPT ![r] = "rejected"]
    /\ UNCHANGED <<phase, permits, lockHolder, ready, provider, circuitOpen,
                   counters, receipts, threadVars, stopVars, processVars>>

Arrive(r) ==
    /\ phase = "serving"
    /\ pc[r] = "new"
    /\ pc' = [pc EXCEPT ![r] = "capacity"]
    /\ UNCHANGED <<phase, permits, lockHolder, ready, provider, circuitOpen,
                   counters, receipts, threadVars, stopVars, processVars>>

AcquireCapacity(r) ==
    /\ pc[r] = "capacity"
    /\ permits > 0
    /\ permits' = permits - 1
    /\ pc' = [pc EXCEPT ![r] = "lock"]
    /\ UNCHANGED <<phase, lockHolder, ready, provider, circuitOpen, counters,
                   receipts, threadVars, stopVars, processVars>>

\* Mistake: the early answer moved inside the try block.
CapacityTimeoutReleases(r) ==
    /\ pc[r] = "capacity"
    /\ pc' = [pc EXCEPT ![r] = "queue_full"]
    /\ permits' = permits + 1
    /\ counters' = Record("queue_full")
    /\ receipts' = Receipt(r, "queue_full")
    /\ UNCHANGED <<phase, lockHolder, ready, provider, circuitOpen,
                   threadVars, stopVars, processVars>>

\* No permit within queue_wait_seconds: answered before the try block, so
\* nothing is released.
CapacityTimeout(r) ==
    /\ pc[r] = "capacity"
    /\ pc' = [pc EXCEPT ![r] = "queue_full"]
    /\ counters' = Record("queue_full")
    /\ receipts' = Receipt(r, "queue_full")
    /\ UNCHANGED <<phase, permits, lockHolder, ready, provider, circuitOpen,
                   threadVars, stopVars, processVars>>

\* The finally block, and the answer the handler returns.
Finish(r, outcome) ==
    /\ pc' = [pc EXCEPT ![r] = outcome]
    /\ permits' = permits + 1
    /\ lockHolder' = IF lockHolder = r THEN None ELSE lockHolder
    /\ receipts' = Receipt(r, outcome)

LockTimeout(r) ==
    /\ pc[r] = "lock"
    /\ counters' = Record("queue_full")
    /\ Finish(r, "queue_full")
    /\ UNCHANGED <<phase, ready, provider, circuitOpen, threadVars, stopVars,
                   processVars>>

\* The lock is free and the provider is ready: a thread runs worker.request.
CallWorker(r) ==
    /\ pc[r] = "lock"
    /\ lockHolder = None
    /\ ready /\ ~circuitOpen
    /\ lockHolder' = r
    /\ pc' = [pc EXCEPT ![r] = "calling"]
    /\ thread' = [thread EXCEPT ![r] = "queued"]
    /\ UNCHANGED <<phase, permits, ready, provider, circuitOpen, counters,
                   receipts, result, ioHolder, stopVars, processVars>>

\* The lock is free and the provider is not: taken and released in one step.
SkipWorker(r) ==
    /\ pc[r] = "lock"
    /\ lockHolder = None
    /\ ~ready \/ circuitOpen
    /\ counters' = Record("passthrough")
    /\ Finish(r, "provider_not_ready")
    /\ UNCHANGED <<phase, ready, provider, circuitOpen, threadVars, stopVars,
                   processVars>>

\* Mistake: the worker is stopped but stays advertised as ready.
FailWorkerStaysReady(r, stage) ==
    /\ UNCHANGED <<ready, provider>>
    /\ pc' = [pc EXCEPT ![r] = stage]
    /\ stopper' = [stopper EXCEPT ![r] = "pending"]

\* Mistake: readiness goes, but nobody stops the process.
FailWorkerLeavesProcess(r, stage) ==
    /\ ready' = FALSE
    /\ provider' = FALSE
    /\ pc' = [pc EXCEPT ![r] = stage]
    /\ UNCHANGED stopper

\* The provider is no longer trusted: readiness goes, a thread stops the worker.
FailWorker(r, stage) ==
    /\ ready' = FALSE
    /\ provider' = FALSE
    /\ pc' = [pc EXCEPT ![r] = stage]
    /\ stopper' = [stopper EXCEPT ![r] = "pending"]

\* Mistake: a timeout only answers the caller and keeps the worker in service.
CallTimesOutKeepsWorker(r) ==
    /\ pc[r] = "calling"
    /\ counters' = Record("timeout")
    /\ Finish(r, "provider_timeout")
    /\ UNCHANGED <<phase, ready, provider, circuitOpen, threadVars, stopVars,
                   processVars>>

\* The outer wait_for fires, or the thread raised TimeoutError: no state of the
\* thread excludes the first.
CallTimesOut(r) ==
    /\ pc[r] = "calling"
    /\ counters' = Record("timeout")
    /\ FailWorker(r, "stop_timeout")
    /\ UNCHANGED <<phase, permits, lockHolder, circuitOpen, receipts,
                   threadVars, attached, processVars>>

\* The thread raised anything else.
CallFails(r) ==
    /\ pc[r] = "calling"
    /\ thread[r] = "returned"
    /\ result[r] = "failed"
    /\ counters' = Record("error")
    /\ FailWorker(r, "stop_error")
    /\ UNCHANGED <<phase, permits, lockHolder, circuitOpen, receipts,
                   threadVars, attached, processVars>>

\* The reply names a device loss: the circuit opens, the error is counted
\* only after the stop.
CallLosesDevice(r) ==
    /\ pc[r] = "calling"
    /\ thread[r] = "returned"
    /\ result[r] = "device"
    /\ circuitOpen' = TRUE
    /\ counters' = Bump("device_removal")
    /\ FailWorker(r, "stop_device")
    /\ UNCHANGED <<phase, permits, lockHolder, receipts, threadVars, attached,
                   processVars>>

\* The reply is not a valid envelope; the worker stays in service.
CallInvalid(r) ==
    /\ pc[r] = "calling"
    /\ thread[r] = "returned"
    /\ result[r] = "invalid"
    /\ counters' = Record("error")
    /\ Finish(r, "provider_error")
    /\ UNCHANGED <<phase, ready, provider, circuitOpen, threadVars, stopVars,
                   processVars>>

CallSucceeds(r) ==
    /\ pc[r] = "calling"
    /\ thread[r] = "returned"
    /\ result[r] \in {"compressed", "same"}
    /\ counters' = Record(IF result[r] = "compressed" THEN "compressed" ELSE "passthrough")
    /\ Finish(r, result[r])
    /\ UNCHANGED <<phase, ready, provider, circuitOpen, threadVars, stopVars,
                   processVars>>

\* Mistake: answering only once the worker is up again, and stopping it anew
\* while it is not.
StopWaitForRestart(r) ==
    /\ pc[r] \in {"stop_timeout", "stop_error", "stop_device"}
    /\ stopper[r] = "stopped"
    /\ stopper' = [stopper EXCEPT ![r] = "pending"]
    /\ UNCHANGED <<handlerVars, threadVars, attached, processVars>>

\* worker.stop returned, or its three seconds are over.
StopWaitEnds(r) ==
    /\ \/ /\ pc[r] = "stop_timeout"
          /\ counters' = Bump("worker_restart")
          /\ Finish(r, "provider_timeout")
       \/ /\ pc[r] = "stop_error"
          /\ counters' = Bump("worker_restart")
          /\ Finish(r, "worker_failure")
       \/ /\ pc[r] = "stop_device"
          /\ counters' = Record("error")
          /\ Finish(r, "device_lost")
    /\ UNCHANGED <<phase, ready, provider, circuitOpen, threadVars, stopVars,
                   processVars>>

-----------------------------------------------------------------------------
(* The thread that runs ProviderWorker.request for r. *)

\* Under _io_lock: check the process, write the line.
SendLine(r) ==
    /\ thread[r] = "queued"
    /\ ioHolder = None
    /\ attached /\ worker = "running"
    /\ ioHolder' = r
    /\ thread' = [thread EXCEPT ![r] = "sent"]
    /\ inbox' = Append(inbox, r)
    /\ UNCHANGED <<handlerVars, result, stopVars, worker, lines>>

\* worker_unavailable, or a broken pipe.
SendFails(r) ==
    /\ thread[r] = "queued"
    /\ ioHolder = None
    /\ ~attached \/ worker # "running"
    /\ thread' = [thread EXCEPT ![r] = "returned"]
    /\ result' = [result EXCEPT ![r] = "failed"]
    /\ UNCHANGED <<handlerVars, ioHolder, stopVars, processVars>>

\* _readline looks _responses up only now.
AwaitLine(r) ==
    /\ thread[r] = "sent"
    /\ IF attached
       THEN /\ thread' = [thread EXCEPT ![r] = "reading"]
            /\ UNCHANGED <<result, ioHolder>>
       ELSE /\ thread' = [thread EXCEPT ![r] = "returned"]
            /\ result' = [result EXCEPT ![r] = "failed"]
            /\ ioHolder' = None
    /\ UNCHANGED <<handlerVars, stopVars, processVars>>

\* What request() and _normalise_success make of a line read for r.
Understand(r, line) ==
    IF line.kind \in {"eof", "garbled"} \/ line.id # r THEN "failed" ELSE line.kind

TakeLine(r) ==
    /\ thread[r] = "reading"
    /\ lines # <<>>
    /\ lines' = Tail(lines)
    /\ thread' = [thread EXCEPT ![r] = "returned"]
    /\ result' = [result EXCEPT ![r] = Understand(r, Head(lines))]
    /\ ioHolder' = None
    /\ UNCHANGED <<handlerVars, stopVars, worker, inbox>>

ReadTimesOut(r) ==
    /\ thread[r] = "reading"
    /\ lines = <<>>
    /\ thread' = [thread EXCEPT ![r] = "returned"]
    /\ result' = [result EXCEPT ![r] = "timeout"]
    /\ ioHolder' = None
    /\ UNCHANGED <<handlerVars, stopVars, processVars>>

-----------------------------------------------------------------------------
(* The thread that runs ProviderWorker.stop for r. *)

\* _detach_process, under _state_lock.
Detach(r) ==
    /\ stopper[r] = "pending"
    /\ attached' = FALSE
    /\ stopper' = [stopper EXCEPT ![r] = IF attached THEN "killing" ELSE "stopped"]
    /\ UNCHANGED <<handlerVars, threadVars, processVars>>

\* terminate, or kill after three seconds; close the pipes, join the reader.
Kill(r) ==
    /\ stopper[r] = "killing"
    /\ stopper' = [stopper EXCEPT ![r] = "stopped"]
    /\ Terminate
    /\ UNCHANGED <<handlerVars, threadVars, attached>>

-----------------------------------------------------------------------------
(* The worker process: worker.py's loop. *)

Reply ==
    /\ worker = "running"
    /\ inbox # <<>>
    /\ \E kind \in ReplyKinds :
          lines' = Append(lines, [id |-> Head(inbox), kind |-> kind])
    /\ inbox' = Tail(inbox)
    /\ UNCHANGED <<handlerVars, threadVars, stopVars, worker>>

Crash ==
    /\ worker = "running"
    /\ Terminate
    /\ UNCHANGED <<handlerVars, threadVars, stopVars>>

-----------------------------------------------------------------------------
Handler(r) ==
    \/ AcquireCapacity(r) \/ CapacityTimeout(r)
    \/ LockTimeout(r) \/ CallWorker(r) \/ SkipWorker(r)
    \/ CallTimesOut(r) \/ CallFails(r) \/ CallLosesDevice(r)
    \/ CallInvalid(r) \/ CallSucceeds(r) \/ StopWaitEnds(r)

RequestThread(r) ==
    SendLine(r) \/ SendFails(r) \/ AwaitLine(r) \/ TakeLine(r) \/ ReadTimesOut(r)

StopThread(r) == Detach(r) \/ Kill(r)

\* A broker that serves no more, with every thread at rest.
AtRest ==
    /\ phase \in {"stopped", "aborted"}
    /\ \A r \in Requests : thread[r] \in {"none", "returned"}
                        /\ stopper[r] \in {"none", "stopped"}
    /\ UNCHANGED vars

Next ==
    \/ StartSucceeds \/ StartFails \/ StartupTimesOut \/ Shutdown
    \/ \E r \in Requests :
          Reject(r) \/ Arrive(r) \/ Handler(r) \/ RequestThread(r) \/ StopThread(r)
    \/ Reply \/ Crash
    \/ AtRest

\* The event loop runs what is ready and its timers fire; threads are scheduled.
\* Nothing obliges a client to call, the worker to answer or uvicorn to stop.
Fairness ==
    \A r \in Requests :
        /\ WF_vars(Handler(r))
        /\ WF_vars(RequestThread(r))
        /\ WF_vars(StopThread(r))

Spec == Init /\ [][Next]_vars /\ Fairness

-----------------------------------------------------------------------------
(* Properties. *)

TypeOK ==
    /\ phase \in {"starting", "serving", "aborted", "stopped"}
    /\ pc \in [Requests -> Stages]
    /\ permits \in Nat
    /\ lockHolder \in Requests \cup {None}
    /\ ready \in BOOLEAN /\ provider \in BOOLEAN /\ circuitOpen \in BOOLEAN
    /\ counters \in [CounterNames -> Nat]
    /\ receipts \in Seq([request : Requests, outcome : Answers])
    /\ thread \in [Requests -> {"none", "queued", "sent", "reading", "returned"}]
    /\ result \in [Requests -> Results]
    /\ ioHolder \in Requests \cup {None}
    /\ stopper \in [Requests -> {"none", "pending", "killing", "stopped"}]
    /\ attached \in BOOLEAN
    /\ worker \in {"absent", "running", "exited"}
    /\ inbox \in Seq(Requests)
    /\ lines \in Seq(Line)

\* Every permit that is not free is held by exactly one open request, on every
\* way out of the handler: early answers, timeouts, failures.
PermitsConserved ==
    permits + Cardinality({r \in Requests : pc[r] \in HoldingStages}) = QueueLimit + 1

\* The stages in which a request has been charged to each counter.
ChargedIn ==
    [total          |-> Answers \cup {"stop_timeout", "stop_error"},
     compressed     |-> {"compressed"},
     passthrough    |-> {"provider_not_ready", "same"},
     timeout        |-> {"stop_timeout", "provider_timeout"},
     queue_full     |-> {"queue_full"},
     worker_restart |-> {"provider_timeout", "worker_failure"},
     device_removal |-> {"stop_device", "device_lost"},
     error          |-> {"stop_error", "worker_failure", "provider_error", "device_lost"}]

\* /health reports counters that are, at every moment, exact counts of the
\* requests that took each branch: none lost, none charged twice, although the
\* timeout branches charge before the stop and the device branch after it.
CountersExact ==
    \A n \in CounterNames :
        counters[n] = Cardinality({r \in Requests : pc[r] \in ChargedIn[n]})

LiveThread(r) == thread[r] \in {"queued", "sent", "reading"}

\* While a handler waits for its call, no other thread can be inside
\* worker.request, not even one abandoned by an earlier timeout: the worker's
\* pipes carry one conversation at a time.
OneWorkerCall ==
    \A r, s \in Requests : pc[r] = "calling" /\ LiveThread(s) => r = s

\* A call that starts finds nothing left over in the worker's pipes.
CleanPipes ==
    \A r \in Requests :
        pc[r] = "calling" /\ thread[r] = "queued" /\ attached /\ worker = "running"
            => inbox = <<>> /\ lines = <<>>

\* recent_requests is the tail of the answered requests, each with its outcome,
\* no request twice, and complete until the bound is reached.
ReceiptsExact ==
    LET answered == {r \in Requests : pc[r] \in Answers}
        n == Cardinality(answered)
    IN  /\ Len(receipts) = IF n < ReceiptLimit THEN n ELSE ReceiptLimit
        /\ \A i \in DOMAIN receipts : pc[receipts[i].request] = receipts[i].outcome
        /\ \A i, j \in DOMAIN receipts :
              receipts[i].request = receipts[j].request => i = j

\* Once the broker has given up on its worker, the process is stopped even if
\* the handler does not wait for it.
DistrustedWorkerStops ==
    (phase = "serving" /\ ~ready) ~> worker # "running"

\* The broker implements the service its callers rely on.
StatusOf(stage) ==
    CASE stage = "new"          -> "idle"
      [] stage = "rejected"     -> "refused"
      [] stage \in OpenStages   -> "pending"
      [] stage = "compressed"   -> "compressed"
      [] stage \in Passthroughs -> "original"

Service == INSTANCE CompressService WITH
              status  <- [r \in Requests |-> StatusOf(pc[r])],
              healthy <- (phase = "starting" \/ ready)

ImplementsService == Service!Spec

=============================================================================
