# Headroom for Codex++: specifications, model checks and proofs

This directory holds TLA+ specifications of the local proxy chain in this
repository, the TLC configurations that check them on small instances, and
TLAPS proofs of theorems about them for every value of their constants.

    client (Codex) -> helper 57321 -> policy gateway 18787 -> Headroom proxy 18789 -> upstream
                                                                  |
                                                                  +-> Kompress broker 18790 -> worker process
    monitor 18788, route keeper, startup gate, start/stop/activate scripts around it

The rules the chain is built on (repository README, line 15 and 130-140): a call
of the main agent is compressed, a spawned agent's bypasses compression, every
failure of compression falls open to the original text, and a call that may have
reached an upstream is never sent again.

All paths below are relative to `src/` of the repository unless they are names
in this directory.

## 1. Inventory

| Part | State it keeps | Operations | Hard behaviour |
|---|---|---|---|
| Kompress broker `kompress_broker/app.py` | readiness, circuit, semaphore, worker lock, counters, receipts, one worker process | startup, shutdown, `/compress`, `/readyz` | coroutines against executor threads that outlive their timeout, a worker that is slow or dies, a bounded queue |
| Kompress worker `kompress_broker/worker.py` | none between lines | one answer line per request line | crash, garbage, device loss |
| Policy gateway `headroom/codexpp-headroom/gateway.py`, forwarding | per call: client, response, fallback, deadline | `/v1/*`, `/health` | upstream failures at any point, fallback without replay, cancellation, streams |
| Policy gateway, `MetricsStore` | tallies, token population, JSON file | load, record, write | kills, failed writes, migration of old files |
| Policy gateway, classification | none | headers and body to main / spawned | conflicting or damaged metadata |
| Remote Kompress client `.../transforms/kompress_remote.py` | readiness, metadata, reprobe clock, probe thread | preload, background probe, compress | unsynchronised attributes, overlapping probes |
| Headroom proxy, compression executor `proxy/server.py` | pool, queue, gauges, timeout debt | run a callable under a deadline | a thread cannot be stopped: it outlives its caller and goes on with the caller's data |
| Headroom proxy, whole replies `proxy/handlers/openai.py`, `proxy/server.py` | per call: body, attempt, continuation; shared: unit cache, shutdown event | chat (direct, through a backend), Responses, `/v1/compress`, passthrough | deadline against late worker, retries, retrieval and memory continuations, shutdown in a delay |
| Headroom proxy, WebSocket session `proxy/handlers/openai.py` | two sockets, two relay tasks, registry entry, token totals | handshake, first frame, relay, HTTP fallback, finally block | either task may end first, cancellation at every await |
| Headroom proxy, streams `proxy/handlers/streaming.py` | session keys, queues of follow-ups, parser buffer | four kinds of stream, refusal, hand-over | setup and generator are separate lives, the client leaves anywhere |
| Content router `transforms/content_router.py` | two-tier cache, per-call fields on one instance | `apply()` in three passes | concurrent `apply()` on one instance, cache hits of other calls, decisions taken before the results are there |
| Lifecycle scripts `start-/stop-/ensure-headroom.ps1` | state file, listener, child process | spawn, adopt, poll, stop | reused process identifiers, a listener that is not ours, half-finished starts |
| Activation `activate-headroom.ps1`, `activation-lib.ps1` | old and new instance, activation state | gates, stop old, start new, rollback | failure at every step, failure during rollback |
| Route keeper `codexpp-route-keeper.ps1` and startup gate | mutex, route state, heartbeat, ready signal | watch, ensure route, heartbeat, release a launch | two keepers, stale ready states, a protected contract changing underneath |
| Monitor and dashboard | snapshot of the others | poll, merge, render | stale snapshots |
| Route C egress `route_c_poc/` | lease, capability | verify, forward once | lease expiring between check and use |
| Start and maintenance scripts, wrappers, benchmarks | files | run by hand | - |

How they interact: HTTP over loopback between gateway, proxy and broker; pipes
between broker and worker; JSON state files, replaced atomically, from every
service to monitor and scripts; a named mutex among route keepers. The proxy's
only knowledge of the broker is its `/readyz` answer and its own failures.

What makes each part correct:

- **Broker.** Capacity permits are conserved on every way out; one conversation at
  a time on the worker's pipes, abandoned threads included; a call that starts
  finds clean pipes; counters and receipts are exact; every call is answered;
  a worker that is no longer trusted is stopped, and nobody gets a compression
  from it.
- **Gateway.** A call reaches at most one upstream once; it is recorded once and
  leaves nothing open; it ends; three tallies and the token population stay
  consistent over kills, failed writes and migration.
- **Stream.** At most one terminal event reaches the client, and one when the
  stream ends between events; the recorded result is what the client was told.
- **Remote client.** A recovered broker is found, again and again while single
  requests fail, and for good once none does.
- **Route keeper and startup gate.** A route state that names a running keeper is
  the word of the one that holds the mutex; a launch gets the proxy route only for
  a configuration that suits it; the watch converges on what the files say, closes
  what is broken, follows the profile; a launch ends.
- **Executor and whole replies.** Gauges and quarantine tell how many threads run for
  nobody; what such a thread compresses is never in the body that is sent; every
  attempt sends the same bytes; history is replayed, not compressed anew; a client
  that asked for a stream gets no internal tool call; every call is answered.
- **WebSocket session.** Nothing is left behind; the first frame goes out once; each
  token is counted once; the session ends.
- **Streams.** Keys and upstream responses are released; a follow-up is handed over
  once, in its turn; usage that was received is booked; every stream ends.
- **Content router.** A tool output compressed as text or code is never replaced by a
  summary nothing can be retrieved from; the frozen prefix stays; a cache prefix is
  given up only behind a real change.
- **Lifecycle, activation, Route C** (not modelled): nothing is stopped that is
  not ours; a failed activation restores what ran before; nothing is sent under a
  dead lease.

`PROJECT.json` lists every hazard at its line, with the properties that cover it.

## 2. Modules

| Module | Models | Run by |
|---|---|---|
| `CompressService` | what the broker promises: abstract, two variables | `broker`, as `ImplementsService` |
| `KompressBroker` | broker, its threads, its worker | `broker` |
| `KompressBroker_proofs` | theorems about it | - |
| `MetricsStore` | the metrics file and its bookkeeping, as operators | through `Gateway` |
| `Gateway` | forwarding, process life, metrics (extends `MetricsStore`) | `gateway` (`MCGateway`) |
| `Gateway_proofs` | theorems about it | - |
| `GatewayStream` | the body of one response | `stream`, `stream_long` |
| `GatewayStream_proofs` | theorems about it | - |
| `RemoteKompress` | readiness in the proxy | `remote` |
| `RouteKeeper` | keepers, the files they write, the configuration they read | through `StartupGate` |
| `StartupGate` | startup gates, and the keepers they start and stop (extends `RouteKeeper`) | `route`, `route_two` (`MCStartupGate`) |
| `StartupGate_proofs` | theorems about it | - |
| `CompressionExecutor` | the proxy's bounded pool and its deadlines | through `ProxyCalls` |
| `ProxyCalls` | calls answered whole, on that executor (extends `CompressionExecutor`) | `calls` |
| `ProxyCalls_proofs` | theorems about both | - |
| `WsRelay` | one WebSocket session | `ws` |
| `WsRelay_proofs` | theorems about it | - |
| `ProxyStream` | streamed replies of the sessions of the proxy | `pstream` |
| `ProxyStream_proofs` | theorems about it | - |
| `ContentRouter` | concurrent `apply()` on the shared router | `router` (`MCContentRouter`), `router_reads` |
| `ContentRouter_proofs` | theorems about it | - |

Line numbers in comments are those of the file the module's header names.
Definitions whose comment begins with "Mistake:" are plausible bugs. No
specification uses them; each is there so that replacing one definition by it
shows that a property would notice (`mutants` in `PROJECT.json`).

### KompressBroker

One action per stretch of code between two awaits. `pc[r]` is the await the
handler of `r` stands at (`"capacity"`, `"lock"`, `"calling"`, the three
`"stop_*"` waits) or the answer it gave. `permits` is the semaphore,
`lockHolder` the asyncio lock. Executor threads are actors of their own:
`thread[r]` runs `ProviderWorker.request`, `stopper[r]` runs
`ProviderWorker.stop`. When the handler's timer fires (`CallTimesOut`) its thread
is *not* stopped: it goes on in `_io_lock` (`ioHolder`) until a line, an end of
file or its own timeout releases it. The worker answers each line of `inbox` by
any of the lines the broker tells apart (compressed, same, invalid envelope,
device loss, garbled) or not at all, and may die at any moment.

Time is not modelled. A deadline is an action that is enabled as long as its
await is pending; this includes every order of deadlines and answers, so all
bounds of `BrokerConfig` but `queue_limit` disappear from the model.

Abstractions: request contents, latencies and error texts; the startup handshake
(worker start and canary) is one step with two outcomes, since nothing else runs
before startup ends; the write of a line is one step, a write that blocks being
one that has not happened yet. The file `_persist` writes is left out because the
broker never reads it. A worker is started once: `restart()` exists and nothing
calls it, so there is one generation of pipes.

### Gateway and MetricsStore

`stage[r]` follows a call: `to_headroom` (no connection yet), `at_headroom` (sent),
the same for the helper, `replying`, `streaming`, and how it ended. `delivered[r]`
counts how often its bytes went to an upstream: it is the quantity `NoReplay`
bounds and nothing in the code keeps it. `FailuresAt` has what
`_is_preconnect_failure` can tell: a failure classified as pre-connect happens
only before a connection is there, every other failure, the total deadline
included, at any time. `open[r]` is what a `finally` must close. `Kill` ends the
process at any step; `Start` loads the file, or cannot read it.

`MetricsStore` is a pure module: `Record(store, m)` is one `record()`,
`Load(file)` one `_load()`. `counted`, `stored` and `unread` are history: which
calls memory and file have counted, and whether this process failed to read the
file it found.

Abstractions: classification is a constant per call (`Calls`); token headers are
`"missing"`, `"malformed"` or three numbers; status codes are four classes; the
body is one step (`EndBody`) and is opened up in `GatewayStream`. The metrics
lock makes `record` one step. `recent`, cache baselines, the usage contract and
the diagnostics are left out: no counter depends on them.

A call that has its response but whose body is never asked for ends in stage
`"abandoned"`: its generator is never started, so its `finally` does not run,
its client stays open and it is not counted. `NothingLeftOpen` and `CountedOnce`
say so by excepting that stage (resp. by not listing it in `Answered`).

### GatewayStream

Bytes are units: an event is a head, bodies, a tail and a blank line, and a chunk
may be cut anywhere. `probe` is `sse_probe`, `Keep` its trimming, `Terminal` is
`_sse_terminal_state`. `Dispatched` is external: what an event-stream parser at
the client dispatches, which needs the blank line and a line of its own. Only
identity encoding is modelled. `[DONE]` counts as a completion, as in the code.

### RemoteKompress

Every assignment of `preload()` and of the failure branch of `compress()` is a
step, because nothing locks them; `ensure_background_load` is one step under its
lock, and so is the end of the background thread with its last assignment (until
the thread is gone, the decision finds it alive and does nothing). `coolingDown`
is `now < _next_reprobe_at`. `broker` is what a probe of `/readyz` finds and nothing
else: a single request may fail at any time (`PostFails`), by a timeout, a status or a
reply that does not parse, and takes readiness away from a broker that stays up.

### RouteKeeper and StartupGate

A gate `g` may start two keepers, `<<g, "once">>` and `<<g, "watch">>`; each keeper
process and each gate runs once. `stage[k]` is where a keeper is between two file
accesses, `gate[g]` the same for a gate. The shared state is what they see of each
other: `route` (the route state file), `signal`, `watchFile`, the mutex `holder`,
and the processes themselves, which a gate starts, tests and kills.

`Get-ConfigSnapshot` reads `config.toml` three times, and so does the model: `seen`
is the snapshot of a tick, `own` the one `Ensure-RouteOnce` takes for itself, each
put together from readings with edits between them. A configuration is a protected
contract with a revision of the rest; the pair is its hash; `Broken` is a file no
contract can be read from. `Turn` is the decision of one tick, with `due` for the
20 seconds of the heartbeat.

`Refresh` writes back the copy that `Await` has read (`Update-RouteStateConfigHash`
takes no mutex), whatever has happened to the file in between.

Abstractions. All contracts are of one provider. The file's ages, 90 seconds for the
signal and 120 for the state, are one flag each, set together by `Elapse`. A watch
is always started with `-Mode proxy`: only the gate starts keepers, and it starts a
watch in proxy mode only. The first reading of a tick counts when it fails and is
taken with the second. Each test of the gate is one reading of everything it looks
at. Broker, proxy and monitor answer as the gateway does (`health`). Process
identity (start time, command line, reuse of identifiers) is exact. The failed
state a keeper writes is its last word, the one before it is not told apart. A
killed process loses its memory (`Forget`). In `throw (if (...) {...} else {...})`
(`codexpp-route-keeper.ps1:790`) PowerShell takes `if` for a command and throws
another error than the one meant; the tick fails all the same, with a wrong reason,
and reasons are not modelled.

Left out of the gate: the start of the services (it succeeds or fails), and all
that follows its verdict, that is the launch and the wait for the client's relay.

### CompressionExecutor and ProxyCalls

`CompressionExecutor` is `_run_compression_in_executor`: `job[c]` follows the future
and the thread of a call, `awaited` has the callers that still wait. The sections
under `_compression_metrics_lock` are the actions, and `Pick`, the moment a thread
takes a job off the queue, is one more: between it and `Start` the deadline can fall,
when the future can no longer be cancelled and nobody has counted the thread yet.
`counted`, `late` and `owing` are the three flags of the call's `state`, `queued`,
`in_flight` and `debt` the gauges. `GaugesExact` compares the gauges with the jobs, not
with the flags; `Leaked` are the jobs `queued` goes on counting after they were dropped.

`ProxyCalls` puts the handlers on it. `call[c]` is a handler's own data: where it is
(`pc`), its body as the set of changes made to it, whether a change was `marked` for
the forwarder, the compressed items it has `adopted`, the bytes on the `wire`. `work[c]`
is what the thread holds. The two meet in one place: `ShapeInPlace` changes the
caller's own dictionary, whether or not the caller still waits, at any time until the
call is answered. Between a handler that is done with the body and the bytes there is
an await for the upstream's credentials (`"sending"`); `Write` makes the bytes, from
the client's own when no change was marked and from the dictionary as it is by then
otherwise, once for all attempts. A conversation is a
sequence of numbered items of which a call carries the first few, so that a later call
sees the user texts of earlier ones as history and finds them, or not, in the unit
cache. Continuations for a retrieval (`Refetch`) and of a chat's memory (`Recall`) are
copies of the body with other messages, hence with whatever the thread has shaped in
it; the memory continuation of a Responses call is made from scratch.

Abstractions: content and ratios of compression (an item is compressed or not),
prices, telemetry, headers, the three providers' wire formats. Left out: turn hooks, the
prefix tracker and the compression cache of chats, usage of continuations; the
passthrough's own transient retry (`proxy/helpers.py`) is inside one attempt.

### WsRelay

One session. `pc` is the handler's await; `c2u` and `u2c` are the two relay tasks;
`u2c.agenda` is what the upstream task has to do about one event in order (record the
turn, show it) before it reads the next. `way` is how the handler came to its finally
block. `WakeUp`, `Settle` and `RelayStopped` are the return of `asyncio.wait`, the
cancellation of the loser, and the wait for it; `CancelHandler` and `CancelRelay` fall
at any await. `read` counts the events, `total`, `recorded` and `emitted` are the token
books. When the upstream socket cannot be opened the session goes
over to `_ws_http_fallback`.

Abstractions: a frame is its type, an event one of three kinds, token amounts are
units; deadlines are steps enabled at their await; the thread that compresses a frame
belongs to `ProxyCalls` (`Frames`).

### ProxyStream

Four kinds of stream (`direct`, `bedrock`, `backend`, `passthrough`) share their places
but not their ends. A stream has two lives: the handler that sets it up and the
generator that the server iterates; `NeverStarted` is the response whose generator is
never asked for a chunk. `active` and `queue` are `_active_streams` and
`_mid_turn_queues`; `Messages` are follow-up requests that come while a key is held.
`buffer` is what the parser has of the usage event, including one cut inside a
character. `heard`, `sent` and `booked` are history.

Abstractions: bytes are passed on as they come and only the usage event is kept track
of. Left out: the buffered retrieval and the thinking of the Anthropic-only branches,
the reconstruction of a whole response from its events, the prefix tracker.

### ContentRouter

`at[c]` is where the thread's `apply()` is, `slots[c]` its messages with what has become
of each, `pending[c]` the tasks of the second pass. Pass 1 resolves a message from the
frozen prefix, from the cache or from the guards, or makes it a task; then the tasks are
compressed; then their results are gated and merged; then the repeats are folded.
`cache` is what a look-up finds in the two tiers. `replaced` are the callers whose
per-call fields on the instance belong to another call by now. A strategy is a set of
forms its result may have (`Applied`): the detector's choice and what the compressors
make of a text depend on content, model and remote service, and are free. The guards
against results without a marker test the strategy that was *requested*: a `"bare"` result
is one they see, an `"unasked"` one is just as unmarked and passes them (`Requested`).

Abstractions: lengths are a high or a low ratio, a message in block form holds one block,
cache entries expire by being overwritten or skipped. Left out: pins, the experimental
read lifecycle, the lazy construction of compressors.

## 3. Runs

| Run | Instance | Shows |
|---|---|---|
| `broker` | 3 calls, `queue_limit` 1 (2 permits), 2 receipts; fairness | `PermitsConserved`, `CountersExact`, `OneWorkerCall`, `CleanPipes`, `ReceiptsExact`, `DistrustedWorkerStops`, `ImplementsService` |
| `gateway` | 2 calls out of 4 kinds, 3 reports, 2 process lives, with and without an old file; fairness | `NoReplay`, `NothingLeftOpen`, `CountedOnce`, `TalliesAgree`, `ReloadsWhatItWrote`, `FileKeepsCounts`, `EveryWaitEnds` |
| `stream` | 9 units, events of up to 4, chunks of up to 3, probe 5 | `OneTerminal`, `ResultTellsOutcome` |
| `stream_long` | the same, probe 3 | **violates** `MadeUpOnlyWhenMissing` |
| `remote` | 2 compressing threads, 2 probes; fairness | `FindsBrokerAgain` |
| `route` | 1 gate, 2 keepers, 2 contracts, 2 events of which at most 1 switch and 1 fault; fairness | `WatchConverges`, `GateEnds` |
| `route_two` | 2 gates at once, 4 keepers, 1 contract in 2 revisions, 1 event, an edit or a fault; symmetry of gates and of revisions | `RouteNamesHolder` |
| `ws` | 1 session, 2 attempts, 2 frames after the first, 3 events; fairness | `NothingLeftBehind`, `FirstFrameOnce`, `TokensEmittedOnce`, `SessionEnds` |
| `pstream` | 2 streams (one of them of any kind), 1 follow-up, 2 attempts; fairness | `EndsReleased`, `InItsTurn`, `UsageNotLost`, `StreamEnds` |
| `router` | 2 callers, 1 text, 2 messages under way; symmetry of callers | `BareNeverServed`, `FrozenStays`, `FreeRideBehindMutation` |
| `router_reads` | the same, 1 message | **violates** `ReadsVerbatim` |
| `calls` | 1 call of any kind and 1 frame, 1 thread, 1 or 2 items, both user texts, 2 attempts, 1 retrieval round | `GaugesExact`, `LateWorkUnused`, `BufferedNeverAsks`, `HistoryOnlyReplayed`, `RetriesSendTheSame`, `CallsWindDown` |

Run one with `tlc -config X.cfg M`, M being the module in `PROJECT.json`. Type
correctness has no run of its own. For broker, gateway, route, streams and router it is a
theorem (section 5); in the other modules `TypeOK` is a conjunct of one of the invariants.
`RemoteKompress`, whose variables are flags and places, states none.

Why the bounds are enough. *broker*: with two permits, one call can be in the
worker, one waiting for the lock and one refused; with three calls a second one
can follow a timed-out first while a third waits, which is what leftover threads
and lines need; two receipts make three calls overflow the list. *gateway*: calls
interact only through the metrics, so two calls show every pair of orders; two lives
show one restart with calls before and after it; the old file has token sums that
contradict each other so that the check of `_load` fires. *stream*: nine units hold a
whole event, a terminal one and a cut one, with every chunk boundary. *remote*: nothing
is bounded but the threads: two of them and two probes are what is needed for one to
write a failure while another writes a success. *route*: two edits are there and back again
under three readings, which is how a torn snapshot passes; the two contracts are one
that suits the proxy and one that suits neither mode; with an edit, a switch and a
fault in any pair every branch of a tick is reached. What needs two gates, a state
written back over a newer one and a watch killed by another launch, is covered by the
theorem `NamesTheHolder` for any number of gates. *ws*: two attempts are a retry, two
more frames are a turn on each side of a failure, three events are two recorded turns and
one that is under way when the session ends.
*pstream*: two streams can take one key, and a follow-up can come to either; the
follow-up's own stream is the second one. *router*: two messages are a floor and what
rides behind it, a copy and its repeat, or one message of each of two calls that share
a key; there is one text, since different texts share nothing but the instance.
*calls*: the frame and the call compete for one thread, so that one waits while the
other runs late, is turned away by its debt, or fills the cache for it; the first
text is the newest of a short call and history of a long one. No run has tool outputs:
they are eligible as the newest text is, wherever they stand. The theorem
`OlderTextsAreReplayed` is about conversations with any of them.

Only `route_two` and `router` use symmetry, and they check no liveness: gates, revisions
and callers are only ever compared. `route_two` is also the run in which a gate finds,
keeps, stops or fails to stop the watch of another, and writes back a route state the
other has removed.
`gateway`, the stream runs, `pstream`, `ws`, `calls` and both route runs do not check
deadlock: their systems stop when
all calls, streams or launches are over. The broker's rest is an explicit action
(`AtRest`) and the router starts again, so there deadlock is checked.

Fairness. *Broker*: weak fairness on the handler, the request thread and the stop
thread of each request: the event loop runs what is ready and timers of pending
awaits fire; threads are scheduled. None on arrivals, on the worker (it may hang
for ever) or on uvicorn. *Gateway*: weak fairness on the end of a wait for an
upstream, which `asyncio.wait_for` with the total deadline guarantees while the
process runs; if it is killed, the wait has ended. *Remote*: threads run and their
HTTP timeouts fire; the clock advances; compressions keep coming. The last one is
an assumption about traffic: without it nothing probes a broker again, because the
probe is started by the router of the next request. *Route*: weak fairness on each
gate and each keeper, which are processes; a gate's deadline is enabled as long as
it waits, since time is not modelled. Strong fairness on a tick at which the
heartbeat is due: a watch that keeps ticking every few seconds sees its 20 seconds
pass. None on launches, edits, switches, faults and the passing of 90 seconds.
*ws*: weak fairness on the handler and on each relay task; every await of theirs has a
timeout or ends when the other side speaks or leaves. Nobody has to leave, which is why
`SessionEnds` starts from a side that has left. *pstream*: weak fairness on setup and
generator, since the server either asks for the next chunk or closes the generator;
strong fairness on the end of an upstream, whose silence ends in the read timeout.
*calls*: none. `CallsWindDown` needs none: what a call may still do shrinks with every
step of its handler (proved, too), and a call that waits, waits for a deadline, a delay or the HTTP
client's time limit. Its worker may hang in a compressor for ever.

## 4. What the violations mean

1. **A long completion is followed by a failure** (`stream_long`). The gateway
   searches only the last 64 KiB for a terminal event (`gateway.py:1111`, `1517`).
   `response.completed` carries the whole response in one data line; when that is
   longer than the window, its beginning has been dropped before its end arrives,
   and at EOF `response.failed` follows a completion the client has dispatched.
   The repository README (line 136) promises the event only for a missing
   terminal, and the metric becomes `upstream_incomplete`. The pass run `stream`
   shows that with terminal events inside the window this cannot happen.
2. **A protected read is compressed with loss** (`router_reads`). `apply()` keeps the
   identifiers of the source reads that must stay verbatim on the instance
   (`content_router.py:3646`); one router serves every request from a pool of threads.
   A second `apply()` assigns its own set before the first has reached its messages.
   The comment at 3626-3630 says such an output is never compressed with loss. Other
   options of a call are overwritten the same way (3590-3605).

Disagreements between code and text that were met while reading, each of them modelled
as the code has it, but with no run of their own:

- *Gateway.* README lines 15 and 136 promise a standard `response.failed` after an
  abnormal EOF; when the upstream stops inside an event, the appended lines continue
  that event (`gateway.py:1535`). `OneTerminal` says what does hold, at a boundary.
- *Remote client.* `kompress_remote.py:286` says a failed request invalidates the
  snapshot; a probe answered before that failure sets `_ready` after it (182).
- *Route keeper.* `codexpp-route-keeper.ps1:702` says the watch follows a switch of
  profile; the loop comes to it only when hash, its own `-Mode` or the state has changed
  (789-792).
- *WebSocket.* After an exception of the compression other than a timeout,
  `openai.py:6842` reads a variable that was never bound, and the session ends, against
  the docstring at 6635-6637; the lines 6850-6910 after the return are dead, against the
  comment at 5947-5950; a timeout sends the raw message without the forced
  `store=false` (6783). With memory, the docstring at 7061-7071 has events buffered until
  the first output item, the responses that only call memory tools suppressed and the
  tools run by the proxy; the code flushes after every event and goes on to the next
  (7385-7392), so nothing is suppressed but the announcement of a memory tool, and what
  follows is dead (`Agenda`). No property is stated of it: one that passes would
  certify the flush, not the intent. A second iteration of the fallback's response fails
  (8018-8020); when both
  relay tasks are done, the order of a set decides the recorded cause.
- *Streams.* A response whose generator never starts keeps its key for ever
  (`streaming.py:1062-1066` against 1685-1689); the return for a credentials error
  (1547) drops queued follow-ups; Bedrock loses a last usage (1780 against 1782); a key
  is tested at 122 and taken at 1060.
- *Router.* A fold passes the gate that a lossy result has to pass (5129-5140); block
  texts share the cache without the partition of strings. The comments at 1314-1323,
  4252-4255 and 5186-5191 say that an unmarked result must not replace a tool's ground
  truth nor be cached for it; the guards test the strategy that was requested, so the
  model's bare result for a log, for search results, HTML, JSON, a table or a mixed text
  (2217-2242, 2427-2437, 2510-2524) passes them all. `BareNeverServed` says what does
  hold, for text and code. With the net-cost policy on, frozen strings may change; a diff the detector
  takes for something else can reach the model.
- *Whole replies.* The forced `store=false` is written into the body but not marked, so
  the forwarder sends the client's own bytes (`openai.py:4579`, `757-767` against
  `750-753`); a 5xx that is not JSON becomes a 502 once retries are used up
  (`server.py:2048-2057` against `openai.py:4231-4243`); a failed retrieval continuation
  is delivered as 200 (5205-5224 against 5232); a memory continuation may hand a
  retrieval call to a client that did not ask for a stream (against 5138-5147);
  timeouts and evictions change how a history text is sent (`openai.py:1726-1732`).
  Jobs cancelled before a worker starts are to leave the queued gauge
  (`server.py:1265-1267`), but only the handler of the deadline lowers it (1384-1397): a
  job that is dropped because the task waiting for it was cancelled is counted for ever
  (`Leaked`; `calls` reaches it through `CancelFrame`). After a timeout the log says
  "forwarding original body" (`openai.py:4951-4957`); the abandoned thread may still be
  shaping that dictionary, and what it shaped is sent when the body is written for
  another reason, above all in a continuation built from `{**body, ...}` (5163).
  `LateWorkUnused` excepts the shaping and nothing else.

## 5. Proofs

| Theorem | Statement |
|---|---|
| `KompressBroker_proofs!TypeCorrect` | `Spec => []TypeOK` |
| `KompressBroker_proofs!PermitsAreConserved` | `Spec => []PermitsConserved` |
| `KompressBroker_proofs!WorkerCallsExclude` | `Spec => []OneWorkerCall` |
| `KompressBroker_proofs!CallsStartClean` | `Spec => []CleanPipes` |
| `KompressBroker_proofs!CountersAreExact` | `Spec => []CountersExact` |
| `KompressBroker_proofs!ReceiptsAreExact` | `Spec => []ReceiptsExact` |
| `KompressBroker_proofs!BrokerImplementsService` | `Spec => Service!SafeSpec` |
| `Gateway_proofs!TypeCorrect` | `Spec => []TypeOK` |
| `Gateway_proofs!CallsAreNotReplayed` | `Spec => []NoReplay` |
| `Gateway_proofs!TalliesAlwaysAgree` | `Spec => []TalliesAgree` |
| `Gateway_proofs!CallsCloseWhatTheyOpen` | `Spec => []NothingLeftOpen` |
| `Gateway_proofs!CallsAreCountedOnce` | `Spec => []CountedOnce` |
| `Gateway_proofs!RestartsReadBack` | `Spec => []ReloadsWhatItWrote` |
| `Gateway_proofs!FileCountsNeverGoBack` | `Spec => FileKeepsCounts` |
| `GatewayStream_proofs!ResultsTellTheOutcome` | if `ProbeLimit > MaxEvent`: `Spec => []ResultTellsOutcome` |
| `GatewayStream_proofs!ClientsGetOneTerminal` | if `ProbeLimit > MaxEvent`: `Spec => []OneTerminal` |
| `StartupGate_proofs!TypeCorrect` | `Spec => []TypeOK` |
| `StartupGate_proofs!NamesTheHolder` | `Spec => []RouteNamesHolder` |
| `ProxyCalls_proofs!ExecutorKeepsBooks` | `ExecutorSpec => []Books` |
| `ProxyCalls_proofs!GaugesAreExact` | `Spec => []GaugesExact` |
| `ProxyCalls_proofs!LateWorkIsUnused` | `Spec => []LateWorkUnused` |
| `ProxyCalls_proofs!EveryCallWindsDown` | `Spec => CallsWindDown` |
| `ProxyCalls_proofs!RetriesRepeatTheBytes` | `Spec => RetriesSendTheSame` |
| `ProxyCalls_proofs!BufferedAnswersAskNothing` | `Spec => []BufferedNeverAsks` |
| `ProxyCalls_proofs!OlderTextsAreReplayed` | `Spec => []HistoryOnlyReplayed` |
| `WsRelay_proofs!SessionsLeaveNothing` | `Spec => []NothingLeftBehind` |
| `WsRelay_proofs!FirstFrameIsSentOnce` | `Spec => []FirstFrameOnce` |
| `WsRelay_proofs!TokensAreEmittedOnce` | `Spec => []TokensEmittedOnce` |
| `ProxyStream_proofs!TypeCorrect` | `Spec => []TypeOK` |
| `ProxyStream_proofs!UsageIsBooked` | `Spec => []UsageNotLost` |
| `ProxyStream_proofs!StreamsReleaseWhatTheyHold` | `Spec => []EndsReleased` |
| `ProxyStream_proofs!FollowUpsKeepTheirTurn` | `Spec => []InItsTurn` |
| `ContentRouter_proofs!TypeCorrect` | `Spec => []TypeOK` |
| `ContentRouter_proofs!BareIsNeverServed` | `Spec => []BareNeverServed` |
| `ContentRouter_proofs!FrozenMessagesStay` | `Spec => []FrozenStays` |
| `ContentRouter_proofs!FreeRidesArePaidFor` | `Spec => []FreeRideBehindMutation` |

They hold for every finite set of calls, every queue limit and every receipt bound
(`BrokerAssumption`), for every set of calls and reports and any number of
starts (`GatewayAssumption`, whose conjuncts about `OldFile` say that an old file
was written by an older version of the same store), for every set of gates,
contracts and revisions and every bound on edits, switches and faults
(`RouteAssumption`, which says that `None` is neither a contract nor a keeper), for
every finite set of calls, every number of threads, attempts and rounds and every
conversation whose first item is a user text (`ExecutorAssumption`, `CallsAssumption`),
for every number of attempts, frames and events of a WebSocket session (`WsAssumption`),
for every set of streams, sessions and follow-ups and every number of attempts, and for
every length of stream and chunk (`StreamAssumption` of `ProxyStream` and of
`GatewayStream`), and for every set of router callers and every number of messages
(`RouterAssumption`). The two theorems about `GatewayStream` have one hypothesis more: the
window that is searched for a terminal event is longer than an event. Run `stream` has
such a window (5 units for events of up to 4); in the code it is 64 KiB, and run
`stream_long`, whose window is shorter than an event, shows what happens when a response
outgrows it.

*Type correctness* of the broker is not plain typing: `permits \in Nat` and the
receipts' type are in it. *Permits*: the invariant is itself inductive with
`TypeOK`; the work is in the lemmas on how `Cardinality` of the holders changes
when one request changes its stage. *Counters*: the same lemma, once per counter,
because a step moves one request between the sets of `ChargedIn`.

*One call at a time* is not inductive. `Coordination` in `KompressBroker_proofs`
strengthens it with four facts: before the broker has started, nothing has entered
a handler and no thread exists; the lock is held by exactly the request whose
handler is between its acquire and its release; a handler that is calling finds the
broker ready; and while the broker is ready every live thread belongs to the
request that is calling. The timeout branch
keeps the last by giving up readiness in the same step in which it stops waiting
for its thread, and since nothing sets readiness again, an abandoned thread can
never meet a later call. This is the argument for why `CallTimesOut` must set
`ready` before its first await, and the mutant that does not is caught.

*Clean pipes* rests on it: `PipesOwned` says that while the broker is ready and its worker
runs, the pipes are empty, or what is in them belongs to the one call that is in progress:
one line, on its way there or back, while its thread is in the middle of the exchange, or
the line of a thread that has just timed out, whose handler has yet to notice. Nobody stops
a worker that is still trusted, and none runs before the start has ended. A handler
that notices any failure gives up readiness in that same step, so a line nobody reads is
left only to a worker nobody calls again. *Receipts*: the trail is as long as the
number of answered requests or its bound, whichever is less, and what `Receipt` makes of a
full or a shorter one is said position by position.

*No replay*: `NoReplay` alone says nothing about the step that delivers.
`SentOnce` adds that in `"new"`, `"to_headroom"` and `"to_helper"` nothing has been
delivered. `HeadroomFails` keeps it because the fallback is guarded by a
pre-connect failure, which occurs only in `"to_headroom"`.

*Tallies*: `Agree` is preserved by `Record` because one call adds one to the total,
to one class, to that class's policy and to one of three slots; by `Load` because a
migration keeps the tallies of the file; and by a failed write because file and
memory agree separately.

*Counted once*: `Books` relates each store to a set of calls: the totals of a store
are the cardinalities of a set of calls and of its classes and policies (`CountsBalance`),
and its token buckets and exclusions partition those that are not the old file's
(`TokensBalance`). The memory balances `counted`, the file balances `stored`; a call in
flight is in neither, one that is answered is in the first. Recording adds one call to
both sides; a write makes the file balance what the memory does, or leaves it as it was; a
load makes `stored` the counted ones. A balanced file passes the check that `_load` makes
of its token sums, which is *reads back what it wrote*. *The file's counts never go back*
because a process that could read its file is never behind it (`AheadOfFile`). *Nothing left
open* adds to itself that a call that is not accepted yet has opened nothing.

*The stream of a response*: while the generator runs, everything sent is the upstream's
and well formed, the probe is the end of what was searched, and the state found is that of
everything searched. The step that searches is the hard one. `KeepTwice`: cutting the probe
and then the probe with one more chunk is cutting the whole. `ProbeSuffices`: a terminal
event that ends in the new chunk begins inside the window, because it is shorter than that,
so the search finds what a search of the whole would find, and a line cut at the window's
edge is not taken for a whole one. In the end the client was sent the upstream's part, and
one terminal event more exactly when that part holds none; that a client is dispatched at
most one is then a fact about sequences (`AtMostOne`).

*Refinement*: initial states map to initial states and each action maps to a step
of `CompressService` or to a stutter. That a compression is served only while the
provider is healthy uses the third fact above.

*The route names the holder*: `RouteNamesHolder` says nothing about keepers that
have not taken the mutex yet, nor about the copy a gate holds between reading the
route state and writing it back. `HolderInv` adds three facts: a keeper works
exactly while it holds the mutex; whoever is named in the route state, or in a
copy about to be written back, has held the mutex before, so it is not about to
take it a second time; and a gate that has not come to `run` or `spawn` has not
started that keeper, so starting one never revives a name. The proof first shows
that each step of a keeper enters, works in or leaves the mutex (`KeeperMoves`),
and what each step of a gate does to the keepers (`Governs`) and to the file
(`Rewrites`); the invariant is then preserved by these few kinds of step. The
property stops at identity: a copy written back may revive an old verdict of a
keeper that still runs, but never the name of one that runs without the mutex.
That a keeper's process identity is never used again is part of the model (a gate
starts each of its keepers once).

*Gauges and quarantine*: `Books` strengthens `GaugesExact` with what relates the three
flags of a call to its job and its caller. Whoever is awaited has entered; a call is counted
exactly when its deadline has not passed and its job waits, is picked or was cancelled;
whoever is late has entered and does not wait; a call owes exactly when it is late and its
thread runs. Each action of the executor changes one call,
and `GaugesFollow` turns that into a change of a cardinality by one; what is counted falls
apart into `Queued` and `Leaked`, whose cardinalities add up. The executor is proved on its
own, for any callers; `StepUses` then shows that each action of `ProxyCalls` is a step of
the executor or leaves it alone, so its books hold in the composition.

*Late work is not used*: `LateWorkUnused` says nothing about a caller that still waits.
`Unspoilt` adds that a call has adopted and sent nothing of its compression before that is
back (`Blank`), and that who waits stands at `"compressing"`. The only step that adopts is
`Resume`, and it
returns a job its caller has waited for; by the books such a caller is not late, and a
late one never waits again. All other steps of a handler lead to a record that has
adopted the same or nothing, and stays blank if it was (`Later`); the step that matters
is `Write`, which sends the items the record has adopted, none, and the changes of the
body only if one was marked. The mark is never taken back, so what an abandoned thread
shapes afterwards cannot make an unmarked body one that was sent.

*The steps of a call*: three properties of one argument. `Proper` bounds a record's
attempts and rounds and says what is lost when it is looked at alone: a backend's call
is never continued for the memory, only a Responses call is buffered, and a reply kept
for later asks for a retrieval only if it was a good one. `ComesAfter` relates a record to the next one:
proper again, nearer to its answer, and with the same bytes if it is the next attempt.
There is a lemma for each operator that makes a record (`Send`, `Onward`, `Deliver`,
`Settle`, `Resolve`, `Raised`, `Taken`), and each action of a handler, `Write` among them,
is one of them; a
thread that shapes a body in place changes nothing else (`Progress`). What is left is
lexicographic, continuations before attempts: a continuation has all its attempts again.

*Older texts are only replayed*: `Replayed` follows the history of a call through four
places. What the unit cache holds has been compressed while it was a newest text (or is a tool
output); what a worker has of the history comes from that cache; what it still plans to compress is eligible, hence
disjoint from the history; what the body adopts comes from the worker of a caller that waits.
The newest user text is a maximum, which every nonempty bounded set of items has: proved by
the least element of a well-founded order, since induction over a property is out of
reach here.

*WebSocket session*: `Placed` says where both relay tasks may be at each place of the
handler, so that no way to the end leaves one running; `Counted` that registry and gauges
tell the places of the session and its tasks; `SentBy` what either transport was sent
before and without the tasks; `Emitted` that the outcomes carry what the records cover,
until the last one covers it all.

*Streams*: `Sound` ties the variables of one stream to its place; for usage: a usage event
that arrived is known or still in the buffer until the outcome is booked, and a complete
one is not kept past the next chunk. Keys: each key in `active` has a stream that
holds it (`KeysHeld`). Turns: while a follow-up waits, its session's key is taken,
hence no stream of that session opens, hence each one there is was there when it came;
the queue leaves together with the key, to one stream (`Turns`).

*Router*: `Soundness` has three parts. No slot becomes what its kind and its prefix forbid
(`Lawful`). A slot that rides free has a shallower one that paid and was mutated, and the
floor names one that did; nobody takes that back, and what waits for pass 2 is as it came
(`FreeBehindPaid`, `FloorPaid`, `Waiting`). An entry of the cache may be taken by any slot
of its key space, whoever made it (`CacheSound`), which is what makes a result from another
call as safe as a fresh one. "Safe" stops where the guards do: an `"unasked"` form is lawful
for every slot and in every key space.

### Only model-checked

Liveness and everything that depends on fairness (`DistrustedWorkerStops`,
`EveryWaitEnds`, `FindsBrokerAgain`, `WatchConverges`, `GateEnds`, `SessionEnds`,
`StreamEnds`, the fairness half of `ImplementsService`), since the proof
system handles neither `ENABLED` nor fairness. Every safety property a passing run checks
has a theorem. That a launch is let through only on a configuration that suits the proxy,
and that one background probe runs at a time, are guards of the one step each that could
break them; neither is stated as a property.

## 6. Not modelled

See `components` in `PROJECT.json`. Left out for good: launch wrappers, the windows
of monitor and dashboard, benchmarks, accelerator probes, the compression model
itself, and stats, dashboards and other providers in the vendored proxy package.
Left out with a known consequence:

- an unreadable metrics file at start is taken for no file and the next record
  overwrites it; `FileKeepsCounts` excepts that case (`unread`);
- a content-encoded event stream (gzip) blinds the probe, and plain bytes are
  appended to the encoded ones;
- `/readyz` of the broker reports the flag of the last request: a worker that died
  while idle is advertised until the next call;
- the broker's state file is written between counter and receipt;
- a reply of the broker with malformed counts raises outside the `try` of
  `kompress_remote.py` (line 306) and is caught by the router without
  invalidating readiness;
- of the two probes of the remote client, one that fails does not take back what the
  other has set: `ready` then rests on the later success, and no property forbids it;
- two launches at once can both fail: a gate that gives up on its watch stops every
  watch there is (`ConfirmFails`), and nothing in the code promises otherwise;
- the gate's test of a watched route has no lower bound on the age of the state
  (`codexpp-startup-gate.ps1:938`), although the comment at line 974 speaks of a
  freshness checked above; what bounds it is the age of the ready signal.

## 7. Plan

Done, in this order: broker and its service, gateway and metrics, stream, remote
readiness; proofs of broker and gateway; route keeper and startup gate; the proxy:
WebSocket session, streams, content router, executor and whole replies; proofs of the
safety properties of all of them.

What is left, most important behaviour first:

1. The rest of the startup gate: the launch, and the wait for the client's relay with
   the pending route it was let through on.
2. Lifecycle and activation: start, adopt, stop and ensure with process identities;
   every step of an activation may fail, rollback from each.
3. Route C: lease, heartbeat, one-shot egress.
4. The gateway's classification as a decision table against a reference; the proxy's
   startup order.
5. The chain composed on abstract specifications: a main call is answered whatever the
   broker does.
6. What the proxy modules leave out: turn hooks, prefix tracker, compression cache of
   chats, the compressors behind the router's strategies.

Proofs: every safety property that needs an argument is proved. What the modules above add
gets its invariant with them; the composed chain (5) is to be a refinement, broker and gateway
replaced by `CompressService` and an abstract store.
