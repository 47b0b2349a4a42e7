------------------------------- MODULE Gateway -------------------------------
(***************************************************************************)
(* The policy gateway (codexpp-headroom/gateway.py): every /v1 call is     *)
(* forwarded once to Headroom and, when Headroom was never reached, once   *)
(* to the helper; what became of it is recorded once in the metrics file.  *)
(*                                                                         *)
(* The handlers of concurrent calls interleave at their awaits, the two    *)
(* upstreams may fail at any point of a call, the gateway process may be   *)
(* killed and started again, and writing the metrics file may fail.        *)
(* Deadlines may fire at any step at which their await is pending.         *)
(***************************************************************************)
EXTENDS MetricsStore, FiniteSets

CONSTANTS
    Requests,       \* the calls made to the gateway
    Calls,          \* what classify_request and the path make of a call
    Reports,        \* the token headers a response may carry
    OldFile,        \* a metrics file of the first generation
    Old,            \* the call it counts
    MaxStarts       \* bound: how often the process is started

ASSUME GatewayAssumption ==
    /\ IsFiniteSet(Requests)
    /\ Calls \subseteq [class : Classes, synthetic : BOOLEAN, compressPath : BOOLEAN]
    /\ Calls # {}
    /\ Reports \subseteq Report
    /\ MaxStarts \in Nat
    /\ Old \notin Requests
    /\ OldFile \in Files
    /\ OldFile.version = 1
    /\ OldFile.store.counters = Count(NoTally, "ok")
    /\ OldFile.store.byClass  = [c \in Classes |->
                                    IF c = "main" THEN Count(NoTally, "ok") ELSE NoTally]
    /\ OldFile.store.byPolicy = [p \in Policies |->
                                    IF p = "compress" THEN Count(NoTally, "ok") ELSE NoTally]

VARIABLES
    running,        \* the gateway process is up
    starts,         \* how often it was started
    call,           \* request -> its call
    stage,          \* request -> where its handler is, or how it ended
    status,         \* request -> the status of the response being streamed
    fallback,       \* request -> fallback_reason is set
    delivered,      \* request -> how often its bytes were sent to an upstream
    open,           \* request -> the client and response it has not closed
    metrics,        \* MetricsStore._state
    file,           \* the metrics file
    counted,        \* the calls metrics has counted                (history)
    stored,         \* the calls the file has counted               (history)
    unread          \* this process could not read the file it found (history)

processVars == <<running, starts>>
handlerVars == <<call, stage, status, fallback, delivered, open>>
metricsVars == <<metrics, file, counted, stored, unread>>
vars == <<processVars, handlerVars, metricsVars>>

-----------------------------------------------------------------------------
Sending == {"to_headroom", "at_headroom", "to_helper", "at_helper"}
InFlight == Sending \cup {"replying", "streaming"}

\* Ended with an answer or a response body that was begun.
Answered == {"passthrough", "refused", "streamed"}

\* Ended with nothing to count: the client went away while its body was read,
\* the handler was cancelled, the body was never begun, the process was killed.
Ended == Answered \cup {"dropped", "cancelled", "abandoned", "gone"}
Stages == {"new"} \cup InFlight \cup Ended

Statuses == {"2xx", "404", "4xx", "5xx"}

\* The ways send_to fails.  Only a failure before a connection is acquired
\* promises that nothing was sent; the total deadline promises nothing.
Failures == [preconnect : BOOLEAN, kind : {"timeout", "http", "other"}]

\* Mistake: every timeout and every transport error is taken for a failure to
\* connect.
FailuresAllRetried(at) == {f \in Failures : f.preconnect = (f.kind # "other")}

FailuresAt(at) ==
    IF at \in {"to_headroom", "to_helper"}
    THEN {f \in Failures : f.preconnect => f.kind # "other"}
    ELSE {f \in Failures : ~f.preconnect}

FailureResult(f) == IF f.kind = "timeout" THEN "timeout" ELSE "upstream_unavailable"

NoReport == [kind |-> "missing", before |-> 0, after |-> 0, saved |-> 0]
ZeroReport == [kind |-> "values", before |-> 0, after |-> 0, saved |-> 0]

Init ==
    /\ running = FALSE
    /\ starts = 0
    /\ call \in [Requests -> Calls]
    /\ stage = [r \in Requests |-> "new"]
    /\ status = [r \in Requests |-> "2xx"]
    /\ fallback = [r \in Requests |-> FALSE]
    /\ delivered = [r \in Requests |-> 0]
    /\ open = [r \in Requests |-> {}]
    /\ metrics = EmptyStore
    /\ file \in {NoFile, OldFile}
    /\ counted = {}
    /\ stored = IF file = NoFile THEN {} ELSE {Old}
    /\ unread = FALSE

-----------------------------------------------------------------------------
(* The metrics. *)

\* _write_locked replaces the file or, when that fails, leaves it as it was.
Write(store, calls) ==
    \/ file' = FileOf(store) /\ stored' = calls
    \/ UNCHANGED <<file, stored>>

\* _record_metric_quietly, and the closing of what is still open.
Close(r, result, reason, eligible, token) ==
    LET m == [class |-> call[r].class, synthetic |-> call[r].synthetic,
              result |-> result, fallback |-> reason,
              eligible |-> eligible, token |-> token]
    IN  /\ metrics' = Record(metrics, m)
        /\ counted' = counted \cup {r}
        /\ Write(metrics', counted')
        /\ open' = [open EXCEPT ![r] = {}]
        /\ UNCHANGED unread

-----------------------------------------------------------------------------
(* The process. *)

Start ==
    /\ ~running
    /\ starts < MaxStarts
    /\ running' = TRUE
    /\ starts' = starts + 1
    /\ \E readable \in BOOLEAN :
          /\ metrics' = IF readable THEN Load(file) ELSE EmptyStore
          /\ counted' = IF readable THEN stored ELSE {}
          /\ unread' = (~readable /\ file # NoFile)
    /\ IF file = NoFile \/ (~unread' /\ file.version = 1)
       THEN Write(metrics', counted')
       ELSE UNCHANGED <<file, stored>>
    /\ UNCHANGED handlerVars

\* Killed or crashed: what it held in memory is gone, the file is not.
Kill ==
    /\ running
    /\ running' = FALSE
    /\ stage' = [r \in Requests |-> IF stage[r] = "new" THEN "new" ELSE "gone"]
    /\ status' = [r \in Requests |-> "2xx"]
    /\ fallback' = [r \in Requests |-> FALSE]
    /\ open' = [r \in Requests |-> {}]
    /\ metrics' = EmptyStore
    /\ counted' = {}
    /\ unread' = FALSE
    /\ UNCHANGED <<starts, call, delivered, file, stored>>

-----------------------------------------------------------------------------
(* The handler of one call. *)

\* The client leaves while its body is read.
Drop(r) ==
    /\ running
    /\ stage[r] = "new"
    /\ stage' = [stage EXCEPT ![r] = "dropped"]
    /\ UNCHANGED <<processVars, call, status, fallback, delivered, open,
                   metricsVars>>

Accept(r) ==
    /\ running
    /\ stage[r] = "new"
    /\ stage' = [stage EXCEPT ![r] = "to_headroom"]
    /\ open' = [open EXCEPT ![r] = {"client"}]
    /\ UNCHANGED <<processVars, call, status, fallback, delivered, metricsVars>>

\* The connection is there and the request goes out.
Deliver(r) ==
    /\ \/ /\ stage[r] = "to_headroom"
          /\ stage' = [stage EXCEPT ![r] = "at_headroom"]
       \/ /\ stage[r] = "to_helper"
          /\ stage' = [stage EXCEPT ![r] = "at_helper"]
    /\ delivered' = [delivered EXCEPT ![r] = @ + 1]
    /\ UNCHANGED <<processVars, call, status, fallback, open, metricsVars>>

\* /v1/compress is answered with its own body, claiming no tokens.
PassThrough(r) ==
    /\ call[r].compressPath
    /\ stage' = [stage EXCEPT ![r] = "passthrough"]
    /\ Close(r, "ok", "compression_passthrough", TRUE, ZeroReport)

\* 502 or 504, with no body of the upstream's.
Refuse(r, result) ==
    /\ stage' = [stage EXCEPT ![r] = "refused"]
    /\ Close(r, result, "headroom_failure", FALSE, NoReport)

\* Mistake: the failed attempt is recorded, and the call again when it ends.
FallBackCounts(r) ==
    /\ stage' = [stage EXCEPT ![r] = "to_helper"]
    /\ fallback' = [fallback EXCEPT ![r] = TRUE]
    /\ open' = [open EXCEPT ![r] = {"client"}]
    /\ metrics' = Record(metrics,
            [class |-> call[r].class, synthetic |-> call[r].synthetic,
             result |-> "upstream_unavailable", fallback |-> "headroom_failure",
             eligible |-> FALSE, token |-> NoReport])
    /\ Write(metrics', counted)
    /\ UNCHANGED <<counted, unread>>

\* Headroom was not reached: a new client, and the same request to the helper.
FallBack(r) ==
    /\ stage' = [stage EXCEPT ![r] = "to_helper"]
    /\ fallback' = [fallback EXCEPT ![r] = TRUE]
    /\ open' = [open EXCEPT ![r] = {"client"}]
    /\ UNCHANGED metricsVars

HeadroomFails(r) ==
    /\ stage[r] \in {"to_headroom", "at_headroom"}
    /\ \E f \in FailuresAt(stage[r]) :
          \/ PassThrough(r) /\ UNCHANGED fallback
          \/ ~call[r].compressPath /\ f.preconnect /\ FallBack(r)
          \/ ~call[r].compressPath /\ ~f.preconnect
                /\ Refuse(r, FailureResult(f)) /\ UNCHANGED fallback
    /\ UNCHANGED <<processVars, call, status, delivered>>

\* Mistake: when the helper is not reached either, Headroom is tried again.
HelperFailsRetries(r) ==
    /\ stage[r] \in {"to_helper", "at_helper"}
    /\ \E f \in FailuresAt(stage[r]) :
          \/ /\ f.preconnect
             /\ stage' = [stage EXCEPT ![r] = "to_headroom"]
             /\ UNCHANGED <<open, metricsVars>>
          \/ ~f.preconnect /\ Refuse(r, FailureResult(f))
    /\ UNCHANGED <<processVars, call, status, fallback, delivered>>

HelperFails(r) ==
    /\ stage[r] \in {"to_helper", "at_helper"}
    /\ \E f \in FailuresAt(stage[r]) : Refuse(r, FailureResult(f))
    /\ UNCHANGED <<processVars, call, status, fallback, delivered>>

\* A response begins.  A 5xx, or the helper's 404, is not passed on.
Respond(r) ==
    /\ stage[r] \in {"at_headroom", "at_helper"}
    /\ \E s \in Statuses :
          \/ s = "5xx" /\ PassThrough(r) /\ UNCHANGED status
          \/ s = "5xx" /\ ~call[r].compressPath
                /\ Refuse(r, "upstream_unavailable") /\ UNCHANGED status
          \/ s = "404" /\ fallback[r]
                /\ Refuse(r, "upstream_unavailable") /\ UNCHANGED status
          \/ /\ s # "5xx" /\ ~(s = "404" /\ fallback[r])
             /\ stage' = [stage EXCEPT ![r] = "replying"]
             /\ status' = [status EXCEPT ![r] = s]
             /\ open' = [open EXCEPT ![r] = {"client", "upstream"}]
             /\ UNCHANGED metricsVars
    /\ UNCHANGED <<processVars, call, fallback, delivered>>

\* The server asks for the first chunk of the body.
BeginBody(r) ==
    /\ stage[r] = "replying"
    /\ stage' = [stage EXCEPT ![r] = "streaming"]
    /\ UNCHANGED <<processVars, call, status, fallback, delivered, open,
                   metricsVars>>

\* The client is gone before that: the generator never runs, so neither does
\* its finally block.
NeverBeginBody(r) ==
    /\ stage[r] = "replying"
    /\ stage' = [stage EXCEPT ![r] = "abandoned"]
    /\ UNCHANGED <<processVars, call, status, fallback, delivered, open,
                   metricsVars>>

\* Every way out of the generator goes through its finally block.
StreamResults(r) ==
    {"timeout", "upstream_unavailable", "upstream_incomplete", "upstream_failed",
     "upstream_read_error", "cancelled", "error"}
        \cup {IF status[r] = "2xx" THEN "ok" ELSE "http_status"}

EndBody(r) ==
    /\ stage[r] = "streaming"
    /\ stage' = [stage EXCEPT ![r] = "streamed"]
    /\ \E result \in StreamResults(r), token \in Reports :
          Close(r, result, IF fallback[r] THEN "headroom_failure" ELSE "none",
                call[r].class = "main" /\ ~fallback[r] /\ status[r] = "2xx", token)
    /\ UNCHANGED <<processVars, call, status, fallback, delivered>>

\* Mistake: cancellation leaves without closing the client.
CancelLeavesClient(r) ==
    /\ stage[r] \in Sending
    /\ stage' = [stage EXCEPT ![r] = "cancelled"]
    /\ UNCHANGED <<processVars, call, status, fallback, delivered, open, metricsVars>>

\* The handler is cancelled while it waits for an upstream.
Cancel(r) ==
    /\ stage[r] \in Sending
    /\ stage' = [stage EXCEPT ![r] = "cancelled"]
    /\ open' = [open EXCEPT ![r] = {}]
    /\ UNCHANGED <<processVars, call, status, fallback, delivered,
                   metricsVars>>

-----------------------------------------------------------------------------
Upstream(r) == HeadroomFails(r) \/ HelperFails(r) \/ Respond(r)

Next ==
    \/ Start \/ Kill
    \/ \E r \in Requests :
          \/ Drop(r) \/ Accept(r) \/ Deliver(r) \/ Cancel(r)
          \/ Upstream(r)
          \/ BeginBody(r) \/ NeverBeginBody(r) \/ EndBody(r)

\* While the process runs, the total deadline ends every wait for an upstream.
Fairness == \A r \in Requests : WF_vars(Upstream(r))

Spec == Init /\ [][Next]_vars /\ Fairness

-----------------------------------------------------------------------------
(* Properties. *)

TypeOK ==
    /\ running \in BOOLEAN
    /\ starts \in Nat
    /\ call \in [Requests -> Calls]
    /\ stage \in [Requests -> Stages]
    /\ status \in [Requests -> Statuses]
    /\ fallback \in [Requests -> BOOLEAN]
    /\ delivered \in [Requests -> Nat]
    /\ open \in [Requests -> SUBSET {"client", "upstream"}]
    /\ metrics \in Store
    /\ file \in Files
    /\ counted \subseteq Requests \cup {Old}
    /\ stored \subseteq Requests \cup {Old}
    /\ unread \in BOOLEAN

\* No blind replay: whatever fails and whenever, the bytes of a call, which may
\* be a non-idempotent POST, reach at most one upstream, once.
NoReplay == \A r \in Requests : delivered[r] <= 1

\* A call that is over has closed its client and its upstream response.  Not so
\* a call whose body was never begun (stage "abandoned"): its generator, which
\* would close them, never runs.
NothingLeftOpen ==
    \A r \in Requests : stage[r] \in Ended \ {"abandoned"} => open[r] = {}

ClassOf(x) == IF x = Old THEN "main" ELSE call[x].class

\* The token population of the current generation: every call counted is in
\* exactly one bucket; bypasses and synthetic calls are kept out of the savings
\* whatever their responses say; savings add up.
TokensBalanced ==
    LET t == metrics.tokens
        e == metrics.excluded
        calls == counted \ {Old}
    IN  /\ t.completed + t.missing + t.invalid + e.total = Cardinality(calls)
        /\ e.total = e.bypass + e.error + e.synthetic
        /\ e.synthetic = Cardinality({r \in calls : call[r].synthetic})
        /\ e.bypass = Cardinality({r \in calls : call[r].class = "spawned"
                                                 /\ ~call[r].synthetic})
        /\ Consistent(t)

\* The counters count each answered call once, under its class and its policy,
\* over restarts, failed writes and the migration of an old file, and its tokens
\* in one bucket.
CountedOnce ==
    /\ \A r \in Requests : stage[r] \in Answered => r \in counted
    /\ metrics.counters.total = Cardinality(counted)
    /\ \A c \in Classes :
          LET mine == {x \in counted : ClassOf(x) = c}
          IN  /\ metrics.byClass[c].total = Cardinality(mine)
              /\ metrics.byPolicy[PolicyOf(c)].total = Cardinality(mine)
    /\ TokensBalanced

\* Three tallies that are kept separately, and their four fields, agree.
Agree(store) ==
    /\ store.counters.total =
          store.counters.ok + store.counters.error + store.counters.timeout
    /\ \A f \in TallyFields :
          /\ store.counters[f] = store.byClass["main"][f] + store.byClass["spawned"][f]
          /\ store.counters[f] = store.byPolicy["compress"][f] + store.byPolicy["bypass"][f]

TalliesAgree == Agree(metrics) /\ Agree(file.store)

\* A restart reads back what was written: the checks of _load never change, and
\* never count as invalid, a file this gateway wrote.
ReloadsWhatItWrote == file.version = 2 => Load(file) = file.store

\* The counters in the file never go back, not over a kill or a migration; only
\* a process that could not read the file it found may overwrite it.
FileKeepsCounts ==
    [][unread' \/ \A f \in TallyFields :
          file'.store.counters[f] >= file.store.counters[f]]_vars

\* No call waits for an upstream for ever.
EveryWaitEnds ==
    \A r \in Requests : stage[r] \in Sending ~> stage[r] \notin Sending

=============================================================================
