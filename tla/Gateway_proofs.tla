--------------------------- MODULE Gateway_proofs ---------------------------
(***************************************************************************)
(* Theorems about Gateway, for every set of calls, every set of token      *)
(* reports and every number of restarts.                                   *)
(***************************************************************************)
EXTENDS Gateway, FiniteSetTheorems, TLAPS

-----------------------------------------------------------------------------
(* What record() and _load() return. *)

\* A counted tally is a tally.
LEMMA TallyType ==
    ASSUME NEW tally \in Tally, NEW result
    PROVE  Count(tally, result) \in Tally
BY DEF Count, Slot, Tally, TallyFields

\* The reason of an exclusion is one of those the store counts.
LEMMA ExclusionType ==
    ASSUME NEW m \in Metric
    PROVE  Exclusion(m) \in {"none", "synthetic", "bypass", "error"}
<1>1. m.class \in {"main", "spawned"} /\ m.synthetic \in BOOLEAN
  BY DEF Metric, Classes
<1>2. QED
  BY <1>1 DEF Exclusion

\* Token counters remain numbers, whatever is reported.
LEMMA CountTokensType ==
    ASSUME NEW tokens \in [TokenFields -> Nat], NEW report \in Report
    PROVE  CountTokens(tokens, report) \in [TokenFields -> Nat]
<1>1. report.kind \in {"missing", "malformed", "values"}
      /\ report.before \in Nat /\ report.after \in Nat /\ report.saved \in Nat
  BY DEF Report
<1>2. [tokens EXCEPT !.missing = @ + 1] \in [TokenFields -> Nat]
  BY DEF TokenFields
<1>3. [tokens EXCEPT !.invalid = @ + 1] \in [TokenFields -> Nat]
  BY DEF TokenFields
<1>4. ASSUME NEW t \in [TokenFields -> Nat], NEW f \in TokenFields, NEW n \in Nat
      PROVE  [t EXCEPT ![f] = @ + n] \in [TokenFields -> Nat]
  BY <1>4
<1> DEFINE t1 == [tokens EXCEPT !["completed"] = @ + 1]
           t2 == [t1 EXCEPT !["before"] = @ + report.before]
           t3 == [t2 EXCEPT !["after"] = @ + report.after]
           t4 == [t3 EXCEPT !["saved"] = @ + report.saved]
<1>5. t1 \in [TokenFields -> Nat]
  BY <1>4 DEF TokenFields
<1>6. t2 \in [TokenFields -> Nat]
  BY <1>1, <1>4, <1>5 DEF TokenFields
<1>7. t3 \in [TokenFields -> Nat]
  BY <1>1, <1>4, <1>6 DEF TokenFields
<1>8. t4 \in [TokenFields -> Nat]
  BY <1>1, <1>4, <1>7 DEF TokenFields
<1>9. QED
  BY <1>2, <1>3, <1>8 DEF CountTokens

\* So they do when contradictory ones are set right.
LEMMA CheckedType ==
    ASSUME NEW tokens \in [TokenFields -> Nat]
    PROVE  Checked(tokens) \in [TokenFields -> Nat]
BY DEF Checked, TokenFields

\* A store remains a store when a metric is recorded.
LEMMA RecordType ==
    ASSUME NEW store \in Store, NEW m \in Metric
    PROVE  Record(store, m) \in Store
<1> DEFINE policy == PolicyOf(m.class)
           reason == Exclusion(m)
<1>1. m.class \in Classes /\ policy \in Policies /\ m.token \in Report
  BY DEF Metric, PolicyOf, Policies
<1>2. Count(store.counters, m.result) \in Tally
  BY TallyType DEF Store
<1>3. [store.byClass EXCEPT ![m.class] = Count(@, m.result)] \in [Classes -> Tally]
  <2>1. store.byClass \in [Classes -> Tally] /\ store.byClass[m.class] \in Tally
    BY <1>1 DEF Store
  <2>2. Count(store.byClass[m.class], m.result) \in Tally
    BY <2>1, TallyType
  <2>3. QED
    BY <2>1, <2>2
<1>4. [store.byPolicy EXCEPT ![policy] = Count(@, m.result)] \in [Policies -> Tally]
  <2>1. store.byPolicy \in [Policies -> Tally] /\ store.byPolicy[policy] \in Tally
    BY <1>1 DEF Store
  <2>2. Count(store.byPolicy[policy], m.result) \in Tally
    BY <2>1, TallyType
  <2>3. QED
    BY <2>1, <2>2
<1>5. CountTokens(store.tokens, m.token) \in [TokenFields -> Nat]
  BY <1>1, CountTokensType DEF Store
<1>6. ASSUME reason # "none"
      PROVE  [store.excluded EXCEPT ![reason] = @ + 1, !["total"] = @ + 1]
                \in [ExcludedFields -> Nat]
  <2>1. reason \in {"synthetic", "bypass", "error"}
    BY <1>6, ExclusionType
  <2>2. store.excluded \in [ExcludedFields -> Nat]
    BY DEF Store
  <2>3. QED
    BY <2>1, <2>2 DEF ExcludedFields
<1>7. QED
  BY <1>2, <1>3, <1>4, <1>5, <1>6 DEF Record, Store

\* A store of zeros is a store.
LEMMA EmptyStoreType == EmptyStore \in Store
BY DEF EmptyStore, Store, NoTally, NoTokens, NoExcluded, Tally

\* What is loaded from a file of any generation is a store.
LEMMA LoadType ==
    ASSUME NEW f \in Files
    PROVE  Load(f) \in Store
<1>1. f.version \in {0, 1, 2} /\ f.store \in Store
  BY DEF Files
<1>2. Checked(f.store.tokens) \in [TokenFields -> Nat]
  BY <1>1, CheckedType DEF Store
<1>3. CASE f.version = 0
  BY <1>3, EmptyStoreType DEF Load
<1>4. CASE f.version = 1
  BY <1>1, <1>2, <1>4 DEF Load, Store, NoTokens, NoExcluded
<1>5. CASE f.version = 2
  BY <1>1, <1>2, <1>5 DEF Load, Store
<1>6. QED
  BY <1>1, <1>3, <1>4, <1>5

-----------------------------------------------------------------------------
(* Type correctness. *)

\* What is written, or left half written, is a file.
LEMMA WriteType ==
    ASSUME NEW store \in Store, NEW calls \in SUBSET (Requests \cup {Old}),
           file \in Files, stored \subseteq Requests \cup {Old},
           Write(store, calls)
    PROVE  file' \in Files /\ stored' \subseteq Requests \cup {Old}
BY DEF Write, FileOf, Files

\* The closing of a request keeps the types of all it changes.
LEMMA CloseType ==
    ASSUME TypeOK, GatewayAssumption, NEW r \in Requests, NEW result \in Results,
           NEW reason \in Fallbacks, NEW eligible \in BOOLEAN, NEW token \in Report,
           Close(r, result, reason, eligible, token)
    PROVE  /\ metrics' \in Store
           /\ counted' \subseteq Requests \cup {Old}
           /\ file' \in Files /\ stored' \subseteq Requests \cup {Old}
           /\ open' \in [Requests -> SUBSET {"client", "upstream"}]
           /\ unread' \in BOOLEAN
<1> DEFINE m == [class |-> call[r].class, synthetic |-> call[r].synthetic,
                 result |-> result, fallback |-> reason,
                 eligible |-> eligible, token |-> token]
<1>1. m \in Metric
  <2>1. call[r] \in [class : Classes, synthetic : BOOLEAN, compressPath : BOOLEAN]
    BY DEF TypeOK, GatewayAssumption
  <2>2. QED
    BY <2>1 DEF Metric
<1>2. metrics' = Record(metrics, m)
  BY DEF Close
<1>3. metrics' \in Store
  <2>1. metrics \in Store
    BY DEF TypeOK
  <2> HIDE DEF m
  <2>2. QED
    BY <1>1, <1>2, <2>1, RecordType
<1>4. counted' \in SUBSET (Requests \cup {Old})
  BY DEF Close, TypeOK
<1>5. Write(metrics', counted')
  BY DEF Close
<1>6. file' \in Files /\ stored' \subseteq Requests \cup {Old}
  BY <1>3, <1>4, <1>5, WriteType DEF TypeOK
<1>7. open' \in [Requests -> SUBSET {"client", "upstream"}] /\ unread' \in BOOLEAN
  BY DEF Close, TypeOK
<1>8. QED
  BY <1>3, <1>4, <1>6, <1>7

\* The two fixed token reports are reports.
LEMMA ReportsAreTyped ==
    /\ NoReport \in Report
    /\ ZeroReport \in Report
BY DEF NoReport, ZeroReport, Report

\* The variables that a closing step of a handler changes.
ClosedOK ==
    /\ stage' \in [Requests -> Stages]
    /\ metrics' \in Store
    /\ counted' \subseteq Requests \cup {Old}
    /\ file' \in Files /\ stored' \subseteq Requests \cup {Old}
    /\ open' \in [Requests -> SUBSET {"client", "upstream"}]
    /\ unread' \in BOOLEAN

\* A request that is passed through is closed within the types.
LEMMA PassThroughType ==
    ASSUME TypeOK, GatewayAssumption, NEW r \in Requests, PassThrough(r)
    PROVE  ClosedOK
<1>1. stage' \in [Requests -> Stages]
  BY DEF PassThrough, TypeOK, Stages, Ended, Answered
<1>2. Close(r, "ok", "compression_passthrough", TRUE, ZeroReport)
  BY DEF PassThrough
<1>3. "ok" \in Results /\ "compression_passthrough" \in Fallbacks
  BY DEF Results, Fallbacks
<1>4. QED
  BY <1>1, <1>2, <1>3, CloseType, ReportsAreTyped DEF ClosedOK

\* So is a request that is refused.
LEMMA RefuseType ==
    ASSUME TypeOK, GatewayAssumption, NEW r \in Requests, NEW result \in Results,
           Refuse(r, result)
    PROVE  ClosedOK
<1>1. stage' \in [Requests -> Stages]
  BY DEF Refuse, TypeOK, Stages, Ended, Answered
<1>2. Close(r, result, "headroom_failure", FALSE, NoReport)
  BY DEF Refuse
<1>3. "headroom_failure" \in Fallbacks
  BY DEF Fallbacks
<1>4. QED
  BY <1>1, <1>2, <1>3, CloseType, ReportsAreTyped DEF ClosedOK

\* The result of a failure is a result.
LEMMA FailureResultType == \A f : FailureResult(f) \in Results
BY DEF FailureResult, Results

\* A start reads a file, or begins from nothing, within the types.
LEMMA StartType == ASSUME TypeOK, GatewayAssumption, Start PROVE TypeOK'
<1>1. PICK readable \in BOOLEAN :
          /\ metrics' = IF readable THEN Load(file) ELSE EmptyStore
          /\ counted' = IF readable THEN stored ELSE {}
          /\ unread' = (~readable /\ file # NoFile)
  BY DEF Start
<1>2. metrics' \in Store
  BY <1>1, LoadType, EmptyStoreType DEF TypeOK
<1>3. counted' \in SUBSET (Requests \cup {Old}) /\ unread' \in BOOLEAN
  BY <1>1 DEF TypeOK
<1>4. Write(metrics', counted') \/ UNCHANGED <<file, stored>>
  BY DEF Start
<1>5. file' \in Files /\ stored' \subseteq Requests \cup {Old}
  BY <1>2, <1>3, <1>4, WriteType DEF TypeOK
<1>6. running' \in BOOLEAN /\ starts' \in Nat /\ UNCHANGED handlerVars
  BY DEF Start, TypeOK
<1>7. QED
  BY <1>2, <1>3, <1>5, <1>6 DEF TypeOK, handlerVars

\* Every step keeps the types.
LEMMA NextType == ASSUME TypeOK, GatewayAssumption, [Next]_vars PROVE TypeOK'
<1>1. CASE Start
  BY <1>1, StartType
<1>2. CASE Kill
  BY <1>2, EmptyStoreType DEF Kill, TypeOK, Stages, Ended, Statuses
<1>3. ASSUME NEW r \in Requests, Drop(r) \/ Accept(r) \/ Cancel(r)
      PROVE  TypeOK'
  <2>1. CASE Drop(r)
    BY <2>1 DEF Drop, TypeOK, Stages, Ended, processVars, metricsVars
  <2>2. CASE Accept(r)
    BY <2>2 DEF Accept, TypeOK, Stages, InFlight, Sending, processVars, metricsVars
  <2>3. CASE Cancel(r)
    BY <2>3 DEF Cancel, TypeOK, Stages, Ended, processVars, metricsVars
  <2>4. QED
    BY <1>3, <2>1, <2>2, <2>3
<1>4. ASSUME NEW r \in Requests, Deliver(r)
      PROVE  TypeOK'
  BY <1>4 DEF Deliver, TypeOK, Stages, InFlight, Sending, processVars, metricsVars
<1>5. ASSUME NEW r \in Requests, BeginBody(r) \/ NeverBeginBody(r)
      PROVE  TypeOK'
  <2>1. CASE BeginBody(r)
    BY <2>1 DEF BeginBody, TypeOK, Stages, InFlight, processVars, metricsVars
  <2>2. CASE NeverBeginBody(r)
    BY <2>2 DEF NeverBeginBody, TypeOK, Stages, Ended, processVars, metricsVars
  <2>3. QED
    BY <1>5, <2>1, <2>2
<1>6. ASSUME NEW r \in Requests, HeadroomFails(r)
      PROVE  TypeOK'
  <2>1. PICK f \in FailuresAt(stage[r]) :
          \/ PassThrough(r) /\ UNCHANGED fallback
          \/ ~call[r].compressPath /\ f.preconnect /\ FallBack(r)
          \/ ~call[r].compressPath /\ ~f.preconnect
                /\ Refuse(r, FailureResult(f)) /\ UNCHANGED fallback
    BY <1>6 DEF HeadroomFails
  <2>2. UNCHANGED <<processVars, call, status, delivered>>
    BY <1>6 DEF HeadroomFails
  <2>3. CASE PassThrough(r) /\ UNCHANGED fallback
    BY <2>2, <2>3, PassThroughType DEF ClosedOK, TypeOK, processVars
  <2>4. CASE FallBack(r)
    BY <2>2, <2>4 DEF FallBack, TypeOK, Stages, InFlight, Sending, processVars,
                      metricsVars
  <2>5. CASE Refuse(r, FailureResult(f)) /\ UNCHANGED fallback
    BY <2>2, <2>5, RefuseType, FailureResultType DEF ClosedOK, TypeOK, processVars
  <2>6. QED
    BY <2>1, <2>3, <2>4, <2>5
<1>7. ASSUME NEW r \in Requests, HelperFails(r)
      PROVE  TypeOK'
  <2>1. PICK f \in FailuresAt(stage[r]) : Refuse(r, FailureResult(f))
    BY <1>7 DEF HelperFails
  <2>2. UNCHANGED <<processVars, call, status, fallback, delivered>>
    BY <1>7 DEF HelperFails
  <2>3. QED
    BY <2>1, <2>2, RefuseType, FailureResultType DEF ClosedOK, TypeOK, processVars
<1>8. ASSUME NEW r \in Requests, Respond(r)
      PROVE  TypeOK'
  <2>1. UNCHANGED <<processVars, call, fallback, delivered>>
    BY <1>8 DEF Respond
  <2>2. CASE PassThrough(r) /\ UNCHANGED status
    BY <2>1, <2>2, PassThroughType DEF ClosedOK, TypeOK, processVars
  <2>3. CASE Refuse(r, "upstream_unavailable") /\ UNCHANGED status
    <3>1. "upstream_unavailable" \in Results
      BY DEF Results
    <3>2. ClosedOK
      BY <2>3, <3>1, RefuseType
    <3>3. QED
      BY <2>1, <2>3, <3>2 DEF ClosedOK, TypeOK, processVars
  <2>4. ASSUME NEW s \in Statuses,
               stage' = [stage EXCEPT ![r] = "replying"],
               status' = [status EXCEPT ![r] = s],
               open' = [open EXCEPT ![r] = {"client", "upstream"}],
               UNCHANGED metricsVars
        PROVE  TypeOK'
    BY <2>1, <2>4 DEF TypeOK, Stages, InFlight, processVars, metricsVars
  <2>5. QED
    BY <1>8, <2>2, <2>3, <2>4 DEF Respond
<1>9. ASSUME NEW r \in Requests, EndBody(r)
      PROVE  TypeOK'
  <2> DEFINE reason == IF fallback[r] THEN "headroom_failure" ELSE "none"
             eligible == call[r].class = "main" /\ ~fallback[r] /\ status[r] = "2xx"
  <2>1. PICK result \in StreamResults(r), token \in Reports :
            Close(r, result, reason, eligible, token)
    BY <1>9 DEF EndBody
  <2>2. result \in Results /\ token \in Report
    BY DEF StreamResults, Results, GatewayAssumption
  <2>3. reason \in Fallbacks /\ eligible \in BOOLEAN
    BY DEF Fallbacks
  <2> HIDE DEF reason, eligible
  <2>4. /\ metrics' \in Store
        /\ counted' \subseteq Requests \cup {Old}
        /\ file' \in Files /\ stored' \subseteq Requests \cup {Old}
        /\ open' \in [Requests -> SUBSET {"client", "upstream"}]
        /\ unread' \in BOOLEAN
    BY <2>1, <2>2, <2>3, CloseType
  <2>5. stage' \in [Requests -> Stages]
    BY <1>9 DEF EndBody, TypeOK, Stages, Ended, Answered
  <2>6. QED
    BY <1>9, <2>4, <2>5 DEF EndBody, TypeOK, processVars
<1>10. CASE UNCHANGED vars
  BY <1>10 DEF TypeOK, vars, processVars, handlerVars, metricsVars
<1>11. QED
  BY <1>1, <1>2, <1>3, <1>4, <1>5, <1>6, <1>7, <1>8, <1>9, <1>10 DEF Next, Upstream

\* Every state of the gateway has the types its variables are declared with.
THEOREM TypeCorrect == Spec => []TypeOK
<1>1. Init => TypeOK
  <2> SUFFICES ASSUME Init PROVE TypeOK
    OBVIOUS
  <2>1. NoFile \in Files
    BY EmptyStoreType DEF NoFile, Files
  <2>2. file \in Files /\ stored \subseteq Requests \cup {Old}
    BY <2>1, GatewayAssumption DEF Init, GatewayAssumption
  <2>3. QED
    BY <2>2, EmptyStoreType DEF Init, TypeOK, Stages, Statuses
<1>2. TypeOK /\ [Next]_vars => TypeOK'
  BY NextType, GatewayAssumption
<1>3. QED
  BY <1>1, <1>2, PTL DEF Spec

-----------------------------------------------------------------------------
(* No replay. *)

Unsent == {"new", "dropped", "to_headroom", "to_helper"}

\* What makes NoReplay inductive: a call that is on its way to an upstream has
\* not been sent to any.  The step from Headroom to the helper keeps this only
\* because it is taken for a failure to connect and for no other failure.
SentOnce ==
    \A r \in Requests :
        /\ delivered[r] <= 1
        /\ stage[r] \in Unsent => delivered[r] = 0

\* No step sends a request a second time.
LEMMA SentOnceStep ==
    ASSUME TypeOK, SentOnce, [Next]_vars
    PROVE  SentOnce'
<1>1. CASE Start
  BY <1>1 DEF Start, handlerVars, SentOnce
<1>2. CASE Kill
  BY <1>2 DEF Kill, SentOnce, TypeOK, Unsent
<1>3. ASSUME NEW r \in Requests, Deliver(r)
      PROVE  SentOnce'
  BY <1>3 DEF Deliver, SentOnce, TypeOK, Unsent
<1>4. ASSUME NEW r \in Requests, UNCHANGED delivered,
             stage' = [stage EXCEPT ![r] = stage'[r]],
             stage'[r] \in Unsent => stage[r] \in Unsent
      PROVE  SentOnce'
  BY <1>4 DEF SentOnce, TypeOK
<1>5. ASSUME NEW r \in Requests, Drop(r) \/ Accept(r) \/ Cancel(r)
      PROVE  SentOnce'
  BY <1>4, <1>5 DEF Drop, Accept, Cancel, TypeOK, Unsent
<1>6. ASSUME NEW r \in Requests, BeginBody(r) \/ NeverBeginBody(r) \/ EndBody(r)
      PROVE  SentOnce'
  BY <1>4, <1>6 DEF BeginBody, NeverBeginBody, EndBody, TypeOK, Unsent
<1>7. ASSUME NEW r \in Requests, HeadroomFails(r)
      PROVE  SentOnce'
  <2>1. PICK f \in FailuresAt(stage[r]) :
          \/ PassThrough(r) /\ UNCHANGED fallback
          \/ ~call[r].compressPath /\ f.preconnect /\ FallBack(r)
          \/ ~call[r].compressPath /\ ~f.preconnect
                /\ Refuse(r, FailureResult(f)) /\ UNCHANGED fallback
    BY <1>7 DEF HeadroomFails
  <2>2. stage[r] \in {"to_headroom", "at_headroom"} /\ UNCHANGED delivered
    BY <1>7 DEF HeadroomFails
  <2>3. CASE f.preconnect /\ FallBack(r)
    <3>1. stage[r] = "to_headroom"
      BY <2>2, <2>3 DEF FailuresAt
    <3>2. QED
      BY <1>4, <2>2, <2>3, <3>1 DEF FallBack, TypeOK, Unsent
  <2>4. CASE PassThrough(r) \/ Refuse(r, FailureResult(f))
    BY <1>4, <2>2, <2>4 DEF PassThrough, Refuse, TypeOK, Unsent
  <2>5. QED
    BY <2>1, <2>3, <2>4
<1>8. ASSUME NEW r \in Requests, HelperFails(r)
      PROVE  SentOnce'
  BY <1>4, <1>8 DEF HelperFails, Refuse, TypeOK, Unsent
<1>9. ASSUME NEW r \in Requests, Respond(r)
      PROVE  SentOnce'
  BY <1>4, <1>9 DEF Respond, PassThrough, Refuse, TypeOK, Unsent
<1>10. CASE UNCHANGED vars
  BY <1>10 DEF vars, handlerVars, SentOnce
<1>11. QED
  BY <1>1, <1>2, <1>3, <1>5, <1>6, <1>7, <1>8, <1>9, <1>10 DEF Next, Upstream

\* The bytes of a call reach at most one upstream, at most once, whatever fails
\* and however calls, kills and restarts interleave.
THEOREM CallsAreNotReplayed == Spec => []NoReplay
<1>1. Init => SentOnce
  BY DEF Init, SentOnce
<1>2. TypeOK /\ SentOnce /\ [Next]_vars => SentOnce'
  BY SentOnceStep
<1>3. SentOnce => NoReplay
  BY DEF SentOnce, NoReplay
<1>4. QED
  BY <1>1, <1>2, <1>3, TypeCorrect, PTL DEF Spec

-----------------------------------------------------------------------------
(* The shapes of a step. Whatever a handler does, it either ends its call and  *)
(* records it, or moves on and leaves the metrics alone; the invariants below  *)
(* are proved over these two shapes, a start and a kill.                       *)

\* r ends with something to count, which is what m says of it.
Closing(r, m) ==
    /\ stage[r] \in InFlight
    /\ \E s \in Answered : stage' = [stage EXCEPT ![r] = s]
    /\ m.class = call[r].class /\ m.synthetic = call[r].synthetic
    /\ metrics' = Record(metrics, m)
    /\ counted' = counted \cup {r}
    /\ Write(metrics', counted')
    /\ open' = [open EXCEPT ![r] = {}]
    /\ UNCHANGED <<processVars, call, unread>>

\* r goes on, or ends with nothing to count.
Moving(r) ==
    /\ \/ stage[r] = "new" /\ running
       \/ stage[r] \in InFlight
    /\ \E s \in InFlight \cup {"dropped", "cancelled", "abandoned"},
        held \in SUBSET {"client", "upstream"} :
          /\ stage' = [stage EXCEPT ![r] = s]
          /\ open' = [open EXCEPT ![r] = held]
          /\ s \in {"dropped", "cancelled"} =>
                held = {} \/ (stage[r] = "new" /\ held = open[r])
    /\ UNCHANGED <<processVars, call, metricsVars>>

\* A closing records one metric for one request, and nothing else.
LEMMA CloseShape ==
    ASSUME TypeOK, GatewayAssumption, NEW r \in Requests, NEW result \in Results,
           NEW reason \in Fallbacks, NEW eligible \in BOOLEAN, NEW token \in Report,
           Close(r, result, reason, eligible, token),
           stage[r] \in InFlight,
           NEW s \in Answered, stage' = [stage EXCEPT ![r] = s],
           UNCHANGED <<processVars, call>>
    PROVE  \E m \in Metric : Closing(r, m)
<1> DEFINE m == [class |-> call[r].class, synthetic |-> call[r].synthetic,
                 result |-> result, fallback |-> reason,
                 eligible |-> eligible, token |-> token]
<1>1. m \in Metric
  <2>1. call[r] \in [class : Classes, synthetic : BOOLEAN, compressPath : BOOLEAN]
    BY DEF TypeOK, GatewayAssumption
  <2>2. QED
    BY <2>1 DEF Metric
<1>2. /\ metrics' = Record(metrics, m)
      /\ counted' = counted \cup {r} /\ Write(metrics', counted')
      /\ open' = [open EXCEPT ![r] = {}] /\ UNCHANGED unread
  BY DEF Close
<1>3. m.class = call[r].class /\ m.synthetic = call[r].synthetic
  OBVIOUS
<1> HIDE DEF m
<1>4. Closing(r, m)
  BY <1>2, <1>3 DEF Closing
<1>5. QED
  BY <1>1, <1>4

\* The same of a request that is passed through.
LEMMA PassThroughShape ==
    ASSUME TypeOK, GatewayAssumption, NEW r \in Requests, PassThrough(r),
           stage[r] \in InFlight, UNCHANGED <<processVars, call>>
    PROVE  \E m \in Metric : Closing(r, m)
<1>1. /\ "ok" \in Results /\ "compression_passthrough" \in Fallbacks
      /\ "passthrough" \in Answered
  BY DEF Results, Fallbacks, Answered
<1>2. Close(r, "ok", "compression_passthrough", TRUE, ZeroReport)
      /\ stage' = [stage EXCEPT ![r] = "passthrough"]
  BY DEF PassThrough
<1>3. QED
  BY <1>1, <1>2, CloseShape, ReportsAreTyped

\* The same of a refusal.
LEMMA RefuseShape ==
    ASSUME TypeOK, GatewayAssumption, NEW r \in Requests, NEW result \in Results,
           Refuse(r, result), stage[r] \in InFlight, UNCHANGED <<processVars, call>>
    PROVE  \E m \in Metric : Closing(r, m)
<1>1. "headroom_failure" \in Fallbacks /\ "refused" \in Answered
  BY DEF Fallbacks, Answered
<1>2. Close(r, result, "headroom_failure", FALSE, NoReport)
      /\ stage' = [stage EXCEPT ![r] = "refused"]
  BY DEF Refuse
<1>3. QED
  BY <1>1, <1>2, CloseShape, ReportsAreTyped

\* A step starts or kills the process, moves a request, or closes one.
LEMMA StepShape ==
    ASSUME TypeOK, GatewayAssumption, [Next]_vars
    PROVE  \/ Start \/ Kill \/ UNCHANGED vars
           \/ \E r \in Requests : Moving(r) \/ \E m \in Metric : Closing(r, m)
<1>1. ASSUME NEW r \in Requests, Drop(r) \/ Accept(r) \/ Cancel(r)
      PROVE  Moving(r)
  <2>1. CASE Drop(r)
    <3>1. open' = [open EXCEPT ![r] = open[r]] /\ open[r] \in SUBSET {"client", "upstream"}
      BY <2>1 DEF Drop, TypeOK
    <3>2. QED
      BY <2>1, <3>1 DEF Drop, Moving
  <2>2. CASE Accept(r)
    BY <2>2 DEF Accept, Moving, InFlight, Sending
  <2>3. CASE Cancel(r)
    BY <2>3 DEF Cancel, Moving, InFlight
  <2>4. QED
    BY <1>1, <2>1, <2>2, <2>3
<1>2. ASSUME NEW r \in Requests, Deliver(r) \/ BeginBody(r) \/ NeverBeginBody(r)
      PROVE  Moving(r)
  <2>1. open' = [open EXCEPT ![r] = open[r]] /\ open[r] \in SUBSET {"client", "upstream"}
    BY <1>2 DEF Deliver, BeginBody, NeverBeginBody, TypeOK
  <2>2. PICK s \in InFlight \cup {"abandoned"} : stage' = [stage EXCEPT ![r] = s]
    BY <1>2 DEF Deliver, BeginBody, NeverBeginBody, InFlight, Sending
  <2>3. /\ stage[r] \in InFlight
        /\ UNCHANGED <<processVars, call, metricsVars>>
    BY <1>2 DEF Deliver, BeginBody, NeverBeginBody, InFlight, Sending
  <2>4. s \notin {"dropped", "cancelled"}
    BY DEF InFlight, Sending
  <2>5. QED
    BY <2>1, <2>2, <2>3, <2>4 DEF Moving
<1>3. ASSUME NEW r \in Requests, HeadroomFails(r)
      PROVE  Moving(r) \/ \E m \in Metric : Closing(r, m)
  <2>1. PICK f \in FailuresAt(stage[r]) :
          \/ PassThrough(r)
          \/ FallBack(r)
          \/ Refuse(r, FailureResult(f))
    BY <1>3 DEF HeadroomFails
  <2>2. stage[r] \in InFlight /\ UNCHANGED <<processVars, call>>
    BY <1>3 DEF HeadroomFails, InFlight, Sending
  <2>3. CASE FallBack(r)
    BY <2>2, <2>3 DEF FallBack, Moving, InFlight, Sending
  <2>4. QED
    BY <2>1, <2>2, <2>3, PassThroughShape, RefuseShape, FailureResultType
<1>4. ASSUME NEW r \in Requests, HelperFails(r)
      PROVE  \E m \in Metric : Closing(r, m)
  <2>1. stage[r] \in InFlight /\ UNCHANGED <<processVars, call>>
    BY <1>4 DEF HelperFails, InFlight, Sending
  <2>2. PICK f \in FailuresAt(stage[r]) : Refuse(r, FailureResult(f))
    BY <1>4 DEF HelperFails
  <2>3. QED
    BY <2>1, <2>2, RefuseShape, FailureResultType
<1>5. ASSUME NEW r \in Requests, Respond(r)
      PROVE  Moving(r) \/ \E m \in Metric : Closing(r, m)
  <2>1. stage[r] \in InFlight /\ UNCHANGED <<processVars, call>>
    BY <1>5 DEF Respond, InFlight, Sending
  <2>2. \/ PassThrough(r) \/ Refuse(r, "upstream_unavailable")
        \/ /\ stage' = [stage EXCEPT ![r] = "replying"]
           /\ open' = [open EXCEPT ![r] = {"client", "upstream"}]
           /\ UNCHANGED metricsVars
    BY <1>5 DEF Respond
  <2>3. "upstream_unavailable" \in Results
    BY DEF Results
  <2>4. CASE /\ stage' = [stage EXCEPT ![r] = "replying"]
             /\ open' = [open EXCEPT ![r] = {"client", "upstream"}]
             /\ UNCHANGED metricsVars
    BY <2>1, <2>4 DEF Moving, InFlight
  <2>5. QED
    BY <2>1, <2>2, <2>3, <2>4, PassThroughShape, RefuseShape
<1>6. ASSUME NEW r \in Requests, EndBody(r)
      PROVE  \E m \in Metric : Closing(r, m)
  <2> DEFINE reason == IF fallback[r] THEN "headroom_failure" ELSE "none"
             eligible == call[r].class = "main" /\ ~fallback[r] /\ status[r] = "2xx"
  <2>1. PICK result \in StreamResults(r), token \in Reports :
            Close(r, result, reason, eligible, token)
    BY <1>6 DEF EndBody
  <2>2. result \in Results /\ token \in Report
    BY DEF StreamResults, Results, GatewayAssumption
  <2>3. reason \in Fallbacks /\ eligible \in BOOLEAN
    BY DEF Fallbacks
  <2> HIDE DEF reason, eligible
  <2>4. /\ stage[r] \in InFlight /\ "streamed" \in Answered
        /\ stage' = [stage EXCEPT ![r] = "streamed"]
        /\ UNCHANGED <<processVars, call>>
    BY <1>6 DEF EndBody, InFlight, Answered
  <2>5. QED
    BY <2>1, <2>2, <2>3, <2>4, CloseShape
<1>7. QED
  BY <1>1, <1>2, <1>3, <1>4, <1>5, <1>6 DEF Next, Upstream

-----------------------------------------------------------------------------
(* The tallies. *)

\* What is counted in a tally, field by field.
LEMMA CountFields ==
    ASSUME NEW t \in Tally, NEW result
    PROVE  /\ Count(t, result).total = t.total + 1
           /\ Count(t, result).ok =
                IF Slot(result) = "ok" THEN t.ok + 1 ELSE t.ok
           /\ Count(t, result).error =
                IF Slot(result) = "error" THEN t.error + 1 ELSE t.error
           /\ Count(t, result).timeout =
                IF Slot(result) = "timeout" THEN t.timeout + 1 ELSE t.timeout
           /\ Slot(result) \in {"ok", "error", "timeout"}
BY DEF Count, Slot, Tally, TallyFields

\* A recorded metric raises every aggregate alike.
LEMMA RecordAgrees ==
    ASSUME NEW store \in Store, NEW m \in Metric, Agree(store)
    PROVE  Agree(Record(store, m))
<1> DEFINE new == Record(store, m)
           policy == PolicyOf(m.class)
           other == IF m.class = "main" THEN "spawned" ELSE "main"
           otherPolicy == PolicyOf(other)
<1>1. /\ store.counters \in Tally
      /\ store.byClass \in [Classes -> Tally] /\ store.byPolicy \in [Policies -> Tally]
  BY DEF Store
<1>2. m.class \in {"main", "spawned"}
  BY DEF Metric, Classes
<1>3. \A c \in Classes : store.byClass[c] \in Tally
  BY <1>1
<1>4. \A p \in Policies : store.byPolicy[p] \in Tally
  BY <1>1
<1>5. /\ new.counters = Count(store.counters, m.result)
      /\ new.byClass[m.class] = Count(store.byClass[m.class], m.result)
      /\ new.byClass[other] = store.byClass[other]
      /\ new.byPolicy[policy] = Count(store.byPolicy[policy], m.result)
      /\ new.byPolicy[otherPolicy] = store.byPolicy[otherPolicy]
  BY <1>1, <1>2 DEF Record, Classes, Policies, PolicyOf
<1>6. \A t \in Tally : \A f \in TallyFields : t[f] \in Nat
  BY DEF Tally
<1>7. new.counters.total = new.counters.ok + new.counters.error + new.counters.timeout
  <2>1. store.counters.total =
           store.counters.ok + store.counters.error + store.counters.timeout
    BY DEF Agree
  <2>2. /\ store.counters.total \in Nat /\ store.counters.ok \in Nat
        /\ store.counters.error \in Nat /\ store.counters.timeout \in Nat
    BY <1>1, <1>6 DEF TallyFields
  <2>3. new.counters = Count(store.counters, m.result)
    BY <1>5
  <2>4. /\ new.counters.total = store.counters.total + 1
        /\ new.counters.ok = IF Slot(m.result) = "ok" THEN store.counters.ok + 1
                             ELSE store.counters.ok
        /\ new.counters.error = IF Slot(m.result) = "error" THEN store.counters.error + 1
                                ELSE store.counters.error
        /\ new.counters.timeout = IF Slot(m.result) = "timeout" THEN store.counters.timeout + 1
                                  ELSE store.counters.timeout
    <3> HIDE DEF new
    <3>1. QED
      BY <1>1, <2>3, CountFields
  <2> HIDE DEF new
  <2>5. CASE Slot(m.result) = "ok"
    BY <2>1, <2>2, <2>4, <2>5
  <2>6. CASE Slot(m.result) = "error"
    BY <2>1, <2>2, <2>4, <2>6
  <2>7. CASE Slot(m.result) = "timeout"
    <3>1. /\ new.counters.total = store.counters.total + 1
          /\ new.counters.ok = store.counters.ok
          /\ new.counters.error = store.counters.error
          /\ new.counters.timeout = store.counters.timeout + 1
      BY <2>4, <2>7
    <3>2. QED
      BY <2>1, <2>2, <3>1
  <2>8. Slot(m.result) \in {"ok", "error", "timeout"}
    BY <1>1, CountFields
  <2>9. QED
    BY <2>5, <2>6, <2>7, <2>8
<1>8. ASSUME NEW f \in TallyFields, NEW t \in Tally, NEW u \in Tally, NEW v \in Tally,
             t[f] = u[f] + v[f]
      PROVE  Count(t, m.result)[f] = Count(u, m.result)[f] + v[f]
  BY <1>6, <1>8, CountFields DEF TallyFields
<1>9. ASSUME NEW f \in TallyFields
      PROVE  /\ new.counters[f] = new.byClass["main"][f] + new.byClass["spawned"][f]
             /\ new.counters[f] = new.byPolicy["compress"][f] + new.byPolicy["bypass"][f]
  <2>1. /\ store.counters[f] = store.byClass[m.class][f] + store.byClass[other][f]
        /\ store.counters[f] = store.byPolicy[policy][f] + store.byPolicy[otherPolicy][f]
    <3>1. /\ store.byClass["main"][f] \in Nat /\ store.byClass["spawned"][f] \in Nat
          /\ store.byPolicy["compress"][f] \in Nat /\ store.byPolicy["bypass"][f] \in Nat
      BY <1>3, <1>4, <1>6 DEF Classes, Policies
    <3>2. QED
      BY <1>2, <3>1 DEF Agree, PolicyOf
  <2>2. /\ m.class \in Classes /\ other \in Classes
        /\ policy \in Policies /\ otherPolicy \in Policies
    BY <1>2 DEF Classes, Policies, PolicyOf
  <2>3. new.counters[f] = new.byClass[m.class][f] + new.byClass[other][f]
    BY <1>1, <1>3, <1>5, <1>8, <2>1, <2>2
  <2>4. new.counters[f] = new.byPolicy[policy][f] + new.byPolicy[otherPolicy][f]
    BY <1>1, <1>4, <1>5, <1>8, <2>1, <2>2
  <2>5. \A x \in Classes, y \in Policies : /\ new.byClass[x][f] \in Nat
                                           /\ new.byPolicy[y][f] \in Nat
    <3>1. new \in Store
      BY RecordType
    <3> HIDE DEF new
    <3>2. QED
      BY <1>6, <3>1 DEF Store
  <2> HIDE DEF new
  <2>6. QED
    BY <1>2, <2>3, <2>4, <2>5 DEF Classes, Policies, PolicyOf
<1>10. Agree(new)
  <2> HIDE DEF new
  <2>1. QED
    BY <1>7, <1>9 DEF Agree
<1>11. QED
  BY <1>10

\* Zeros agree.
LEMMA EmptyAgrees == Agree(EmptyStore)
BY DEF Agree, EmptyStore, NoTally, TallyFields, Classes, Policies

\* A file of any generation is loaded with its aggregates in agreement.
LEMMA LoadAgrees ==
    ASSUME NEW f \in Files, Agree(f.store)
    PROVE  Agree(Load(f))
<1>1. f.version \in {0, 1, 2}
  BY DEF Files
<1>2. CASE f.version = 0
  BY <1>2, EmptyAgrees DEF Load
<1>3. CASE f.version # 0
  <2>1. /\ Load(f).counters = f.store.counters
        /\ Load(f).byClass = f.store.byClass
        /\ Load(f).byPolicy = f.store.byPolicy
    BY <1>1, <1>3 DEF Load
  <2>2. QED
    BY <2>1 DEF Agree
<1>4. QED
  BY <1>2, <1>3

\* No step makes the aggregates disagree.
LEMMA TalliesStep ==
    ASSUME TypeOK, GatewayAssumption, TalliesAgree, [Next]_vars
    PROVE  TalliesAgree'
<1>1. CASE Start
  <2>1. metrics' = Load(file) \/ metrics' = EmptyStore
    BY <1>1 DEF Start
  <2>2. Agree(metrics')
    BY <2>1, LoadAgrees, EmptyAgrees DEF TypeOK, TalliesAgree
  <2>3. file'.store = metrics' \/ file' = file
    BY <1>1 DEF Start, Write, FileOf
  <2>4. QED
    BY <2>2, <2>3 DEF TalliesAgree
<1>2. CASE Kill
  BY <1>2, EmptyAgrees DEF Kill, TalliesAgree
<1>3. ASSUME NEW r \in Requests, Moving(r)
      PROVE  TalliesAgree'
  BY <1>3 DEF Moving, metricsVars, TalliesAgree
<1>4. ASSUME NEW r \in Requests, NEW m \in Metric, Closing(r, m)
      PROVE  TalliesAgree'
  <2>1. Agree(metrics')
    BY <1>4, RecordAgrees DEF Closing, TypeOK, TalliesAgree
  <2>2. file'.store = metrics' \/ file' = file
    BY <1>4 DEF Closing, Write, FileOf
  <2>3. QED
    BY <2>1, <2>2 DEF TalliesAgree
<1>5. CASE UNCHANGED vars
  BY <1>5 DEF vars, metricsVars, TalliesAgree
<1>6. QED
  BY <1>1, <1>2, <1>3, <1>4, <1>5, StepShape

\* Totals, classes and policies add up, in memory and in the file, over kills,
\* failed writes, unreadable files and the migration of an old one.
THEOREM TalliesAlwaysAgree == Spec => []TalliesAgree
<1>1. Init => TalliesAgree
  <2> SUFFICES ASSUME Init PROVE TalliesAgree
    OBVIOUS
  <2>1. Agree(metrics)
    BY EmptyAgrees DEF Init
  <2>2. Agree(OldFile.store)
    BY GatewayAssumption DEF GatewayAssumption, Agree, Count, Slot, NoTally, TallyFields,
       Classes, Policies
  <2>3. QED
    BY <2>1, <2>2, EmptyAgrees DEF Init, NoFile, TalliesAgree
<1>2. TypeOK /\ TalliesAgree /\ [Next]_vars => TalliesAgree'
  BY TalliesStep, GatewayAssumption
<1>3. QED
  BY <1>1, <1>2, TypeCorrect, PTL DEF Spec

-----------------------------------------------------------------------------
(* What is open. *)

\* NothingLeftOpen, and that a call not yet accepted holds nothing.
ClosedWhenOver ==
    \A r \in Requests : stage[r] \in {"new"} \cup (Ended \ {"abandoned"}) => open[r] = {}

\* No step leaves a request open that is over.
LEMMA ClosedStep ==
    ASSUME TypeOK, GatewayAssumption, ClosedWhenOver, [Next]_vars
    PROVE  ClosedWhenOver'
<1>1. CASE Start \/ Kill \/ UNCHANGED vars
  BY <1>1 DEF Start, Kill, ClosedWhenOver, vars, handlerVars, TypeOK
<1>2. ASSUME NEW r \in Requests, Moving(r)
      PROVE  ClosedWhenOver'
  <2>1. PICK s \in InFlight \cup {"dropped", "cancelled", "abandoned"},
        held \in SUBSET {"client", "upstream"} :
          /\ stage' = [stage EXCEPT ![r] = s]
          /\ open' = [open EXCEPT ![r] = held]
          /\ s \in {"dropped", "cancelled"} =>
                held = {} \/ (stage[r] = "new" /\ held = open[r])
    BY <1>2 DEF Moving
  <2>2. s \in {"new"} \cup (Ended \ {"abandoned"}) => held = {}
    BY <2>1 DEF ClosedWhenOver, Ended, Answered, InFlight, Sending
  <2>3. QED
    BY <2>1, <2>2 DEF ClosedWhenOver, TypeOK
<1>3. ASSUME NEW r \in Requests, NEW m \in Metric, Closing(r, m)
      PROVE  ClosedWhenOver'
  BY <1>3 DEF Closing, ClosedWhenOver, TypeOK
<1>4. QED
  BY <1>1, <1>2, <1>3, StepShape

\* Whatever failed on the way, a call that is over holds no client and no
\* upstream response; the one exception, a body that was never begun, is a stage
\* of its own.
THEOREM CallsCloseWhatTheyOpen == Spec => []NothingLeftOpen
<1>1. Init => ClosedWhenOver
  BY DEF Init, ClosedWhenOver
<1>2. TypeOK /\ ClosedWhenOver /\ [Next]_vars => ClosedWhenOver'
  BY ClosedStep, GatewayAssumption
<1>3. ClosedWhenOver => NothingLeftOpen
  BY DEF ClosedWhenOver, NothingLeftOpen
<1>4. QED
  BY <1>1, <1>2, <1>3, TypeCorrect, PTL DEF Spec

-----------------------------------------------------------------------------
(* The counters of the file. *)

\* No handler runs while the process is down.
IdleWhenDown == ~running => \A r \in Requests : stage[r] \in {"new", "gone"}

AtLeast(s, t) == \A f \in TallyFields : s.counters[f] >= t.counters[f]

\* A process that read the file it found is never behind it.
AheadOfFile == running /\ ~unread => AtLeast(metrics, file.store)

\* A store counts at least what it counts.
LEMMA AtLeastItself ==
    ASSUME NEW s \in Store
    PROVE  AtLeast(s, s)
BY DEF AtLeast, Store, Tally

\* A recorded metric takes nothing off a store.
LEMMA RecordCountsUp ==
    ASSUME NEW s \in Store, NEW m \in Metric, NEW t \in Store, AtLeast(s, t)
    PROVE  AtLeast(Record(s, m), t)
<1>1. s.counters \in Tally /\ t.counters \in Tally
  BY DEF Store
<1>2. Record(s, m).counters = Count(s.counters, m.result)
  BY DEF Record
<1>3. \A f \in TallyFields : Count(s.counters, m.result)[f] >= s.counters[f]
  BY <1>1, CountFields DEF TallyFields, Tally
<1>4. \A f \in TallyFields : /\ s.counters[f] \in Nat /\ t.counters[f] \in Nat
                             /\ Count(s.counters, m.result)[f] \in Nat
  BY <1>1, TallyType DEF Tally
<1>5. QED
  BY <1>2, <1>3, <1>4 DEF AtLeast

\* A file is loaded with all its counts.
LEMMA LoadKeepsCounts ==
    ASSUME NEW f \in Files, f.version = 0 => f = NoFile
    PROVE  AtLeast(Load(f), f.store)
<1>1. f.version \in {0, 1, 2} /\ f.store \in Store
  BY DEF Files
<1>2. Load(f).counters = f.store.counters
  BY <1>1 DEF Load, NoFile
<1>3. QED
  BY <1>1, <1>2 DEF AtLeast, Store, Tally

\* version 0 stands for no file.
OneNoFile == file.version = 0 => file = NoFile

\* The store in memory is never behind the file it read, and a step never lowers
\* the file but after a file that could not be read.
LEMMA KeepsStep ==
    ASSUME TypeOK, GatewayAssumption, IdleWhenDown, OneNoFile, AheadOfFile, [Next]_vars
    PROVE  /\ IdleWhenDown' /\ OneNoFile' /\ AheadOfFile'
           /\ unread' \/ AtLeast(file'.store, file.store)
<1>0. TypeOK'
  BY NextType
<1>1. CASE Start
  <2>1. IdleWhenDown'
    BY <1>1 DEF Start, IdleWhenDown
  <2>2. OneNoFile'
    BY <1>1 DEF Start, Write, FileOf, OneNoFile
  <2>3. ~unread' => AtLeast(metrics', file.store)
    <3>1. CASE metrics' = Load(file)
      BY <3>1, LoadKeepsCounts DEF OneNoFile, TypeOK
    <3>2. CASE metrics' = EmptyStore /\ file = NoFile
      BY <3>2, EmptyStoreType, AtLeastItself DEF NoFile
    <3>3. QED
      BY <1>1, <3>1, <3>2 DEF Start
  <2>4. file'.store = metrics' \/ file' = file
    BY <1>1 DEF Start, Write, FileOf
  <2>5. AtLeast(metrics', metrics') /\ AtLeast(file.store, file.store)
    BY <1>0, AtLeastItself DEF TypeOK, Files
  <2>6. QED
    BY <2>1, <2>2, <2>3, <2>4, <2>5 DEF AheadOfFile
<1>2. CASE Kill
  <2>1. AtLeast(file.store, file.store)
    BY AtLeastItself DEF TypeOK, Files
  <2>2. QED
    BY <1>2, <2>1 DEF Kill, IdleWhenDown, OneNoFile, AheadOfFile, TypeOK
<1>3. CASE UNCHANGED vars
  <2>1. AtLeast(file.store, file.store)
    BY AtLeastItself DEF TypeOK, Files
  <2>2. QED
    BY <1>3, <2>1 DEF vars, processVars, handlerVars, metricsVars, IdleWhenDown,
                      OneNoFile, AheadOfFile
<1>4. ASSUME NEW r \in Requests, Moving(r)
      PROVE  /\ IdleWhenDown' /\ OneNoFile' /\ AheadOfFile'
             /\ unread' \/ AtLeast(file'.store, file.store)
  <2>1. running
    BY <1>4 DEF Moving, IdleWhenDown, InFlight, Sending
  <2>2. AtLeast(file.store, file.store)
    BY AtLeastItself DEF TypeOK, Files
  <2>3. QED
    BY <1>4, <2>1, <2>2 DEF Moving, IdleWhenDown, OneNoFile, AheadOfFile, processVars,
                            metricsVars
<1>5. ASSUME NEW r \in Requests, NEW m \in Metric, Closing(r, m)
      PROVE  /\ IdleWhenDown' /\ OneNoFile' /\ AheadOfFile'
             /\ unread' \/ AtLeast(file'.store, file.store)
  <2>1. running /\ running' /\ unread' = unread
    BY <1>5 DEF Closing, IdleWhenDown, InFlight, Sending, processVars
  <2>2. OneNoFile'
    BY <1>5 DEF Closing, Write, FileOf, OneNoFile
  <2>3. ~unread => AtLeast(metrics', file.store)
    BY <1>5, <2>1, RecordCountsUp DEF Closing, AheadOfFile, TypeOK, Files
  <2>4. file'.store = metrics' \/ file' = file
    BY <1>5 DEF Closing, Write, FileOf
  <2>5. AtLeast(metrics', metrics') /\ AtLeast(file.store, file.store)
    BY <1>0, AtLeastItself DEF TypeOK, Files
  <2>6. QED
    BY <2>1, <2>2, <2>3, <2>4, <2>5 DEF IdleWhenDown, AheadOfFile
<1>6. QED
  BY <1>1, <1>2, <1>3, <1>4, <1>5, StepShape

\* So it is in every state.
LEMMA KeepsHolds == Spec => [](IdleWhenDown /\ OneNoFile /\ AheadOfFile)
<1>1. Init => IdleWhenDown /\ OneNoFile /\ AheadOfFile
  BY GatewayAssumption DEF Init, IdleWhenDown, OneNoFile, AheadOfFile, GatewayAssumption
<1>2. TypeOK /\ IdleWhenDown /\ OneNoFile /\ AheadOfFile /\ [Next]_vars
         => IdleWhenDown' /\ OneNoFile' /\ AheadOfFile'
  BY KeepsStep, GatewayAssumption
<1>3. QED
  BY <1>1, <1>2, TypeCorrect, PTL DEF Spec

\* No kill, failed write, restart or migration makes a counter in the file go
\* back, except under a process that could not read the file it found.
THEOREM FileCountsNeverGoBack == Spec => FileKeepsCounts
<1>1. TypeOK /\ IdleWhenDown /\ OneNoFile /\ AheadOfFile /\ [Next]_vars
         => [unread' \/ \A f \in TallyFields :
                file'.store.counters[f] >= file.store.counters[f]]_vars
  BY KeepsStep, GatewayAssumption DEF AtLeast
<1>2. QED
  BY <1>1, TypeCorrect, KeepsHolds, PTL DEF Spec, FileKeepsCounts

-----------------------------------------------------------------------------
(* The books. What a store has counted is compared with the set of calls it    *)
(* should have counted: calls are counted for the totals, the classes and the  *)
(* policies, and those that are not the old file's one call for the tokens.    *)

Mine(calls, c) == {x \in calls : ClassOf(x) = c}

CountsBalance(store, calls) ==
    /\ store.counters.total = Cardinality(calls)
    /\ \A c \in Classes :
          /\ store.byClass[c].total = Cardinality(Mine(calls, c))
          /\ store.byPolicy[PolicyOf(c)].total = Cardinality(Mine(calls, c))

OfThisStore(calls) == calls \ {Old}
Synthetic(calls) == {r \in calls \ {Old} : call[r].synthetic}
Bypassed(calls) == {r \in calls \ {Old} : call[r].class = "spawned" /\ ~call[r].synthetic}

TokensBalance(store, calls) ==
    LET t == store.tokens
        e == store.excluded
    IN  /\ t.completed + t.missing + t.invalid + e.total = Cardinality(OfThisStore(calls))
        /\ e.total = e.bypass + e.error + e.synthetic
        /\ e.synthetic = Cardinality(Synthetic(calls))
        /\ e.bypass = Cardinality(Bypassed(calls))
        /\ Consistent(t)

\* One more member counts for one.
LEMMA OneMore ==
    ASSUME GatewayAssumption, NEW calls \in SUBSET (Requests \cup {Old}),
           NEW A \in SUBSET calls, NEW r, r \notin calls
    PROVE  /\ Cardinality(A) \in Nat
           /\ Cardinality(A \cup {r}) = Cardinality(A) + 1
<1>1. IsFiniteSet(Requests \cup {Old})
  BY FS_AddElement DEF GatewayAssumption
<1>2. IsFiniteSet(A) /\ r \notin A
  BY <1>1, FS_Subset
<1>3. QED
  BY <1>2, FS_AddElement, FS_CardinalityType

\* One more recorded call balances one more count of requests.
LEMMA RecordCountsBalance ==
    ASSUME GatewayAssumption, NEW store \in Store,
           NEW calls \in SUBSET (Requests \cup {Old}), NEW r \in Requests, r \notin calls,
           NEW m \in Metric, m.class = call[r].class, CountsBalance(store, calls)
    PROVE  CountsBalance(Record(store, m), calls \cup {r})
<1> DEFINE new == Record(store, m)
<1>1. /\ store.counters \in Tally
      /\ store.byClass \in [Classes -> Tally] /\ store.byPolicy \in [Policies -> Tally]
  BY DEF Store
<1>2. new.counters.total = Cardinality(calls \cup {r})
  <2>1. new.counters.total = store.counters.total + 1
    BY <1>1, CountFields DEF Record
  <2>2. Cardinality(calls \cup {r}) = Cardinality(calls) + 1
    BY OneMore
  <2>3. QED
    BY <2>1, <2>2 DEF CountsBalance
<1>3. ASSUME NEW c \in Classes
      PROVE  /\ new.byClass[c].total = Cardinality(Mine(calls \cup {r}, c))
             /\ new.byPolicy[PolicyOf(c)].total = Cardinality(Mine(calls \cup {r}, c))
  <2>1. /\ c \in {"main", "spawned"} /\ m.class \in {"main", "spawned"}
        /\ c \in Classes /\ m.class \in Classes
        /\ PolicyOf(c) \in Policies /\ PolicyOf(m.class) \in Policies
        /\ PolicyOf(c) = PolicyOf(m.class) <=> c = m.class
    BY DEF Classes, Metric, Policies, PolicyOf
  <2>2. ClassOf(r) = m.class
    BY DEF ClassOf, GatewayAssumption
  <2>3. Mine(calls, c) \subseteq calls
    BY DEF Mine
  <2>4. store.byClass[c] \in Tally /\ store.byPolicy[PolicyOf(c)] \in Tally
    BY <1>1, <2>1
  <2>5. /\ store.byClass[c].total = Cardinality(Mine(calls, c))
        /\ store.byPolicy[PolicyOf(c)].total = Cardinality(Mine(calls, c))
    BY DEF CountsBalance
  <2>6. CASE c = m.class
    <3>1. /\ new.byClass[c] = Count(store.byClass[c], m.result)
          /\ new.byPolicy[PolicyOf(c)] = Count(store.byPolicy[PolicyOf(c)], m.result)
      BY <1>1, <2>1, <2>6 DEF Record
    <3>2. /\ new.byClass[c].total = store.byClass[c].total + 1
          /\ new.byPolicy[PolicyOf(c)].total = store.byPolicy[PolicyOf(c)].total + 1
      <4> HIDE DEF new
      <4>1. QED
        BY <2>4, <3>1, CountFields
    <3>3. Mine(calls \cup {r}, c) = Mine(calls, c) \cup {r}
      BY <2>2, <2>6 DEF Mine
    <3>4. Cardinality(Mine(calls, c) \cup {r}) = Cardinality(Mine(calls, c)) + 1
      BY <2>3, OneMore
    <3> HIDE DEF new
    <3>5. QED
      BY <2>5, <3>2, <3>3, <3>4
  <2>7. CASE c # m.class
    <3>1. /\ new.byClass[c] = store.byClass[c]
          /\ new.byPolicy[PolicyOf(c)] = store.byPolicy[PolicyOf(c)]
      BY <1>1, <2>1, <2>7 DEF Record
    <3>2. Mine(calls \cup {r}, c) = Mine(calls, c)
      BY <2>2, <2>7 DEF Mine
    <3> HIDE DEF new
    <3>3. QED
      BY <2>5, <3>1, <3>2
  <2>8. QED
    BY <2>6, <2>7
<1> HIDE DEF new
<1>4. CountsBalance(new, calls \cup {r})
  BY <1>2, <1>3 DEF CountsBalance
<1>5. QED
  BY <1>4 DEF new

\* A report goes to one bucket, and the sums stay consistent.
LEMMA CountTokensEffect ==
    ASSUME NEW t \in [TokenFields -> Nat], NEW report \in Report, Consistent(t)
    PROVE  LET u == CountTokens(t, report)
           IN  /\ u.completed + u.missing + u.invalid = t.completed + t.missing + t.invalid + 1
               /\ Consistent(u)
<1> DEFINE u == CountTokens(t, report)
<1>1. /\ t.before \in Nat /\ t.after \in Nat /\ t.saved \in Nat
      /\ t.completed \in Nat /\ t.missing \in Nat /\ t.invalid \in Nat
      /\ report.before \in Nat /\ report.after \in Nat /\ report.saved \in Nat
      /\ report.kind \in {"missing", "malformed", "values"}
  BY DEF TokenFields, Report
<1>2. t.after <= t.before /\ t.saved = t.before - t.after
  BY DEF Consistent
<1> SUFFICES /\ u.completed + u.missing + u.invalid = t.completed + t.missing + t.invalid + 1
             /\ Consistent(u)
  OBVIOUS
<1>3. CASE u = [t EXCEPT !.missing = @ + 1]
  <2>1. /\ u.missing = t.missing + 1 /\ u.completed = t.completed /\ u.invalid = t.invalid
        /\ u.before = t.before /\ u.after = t.after /\ u.saved = t.saved
    BY <1>3 DEF TokenFields
  <2> HIDE DEF u
  <2>2. QED
    BY <1>1, <1>2, <2>1 DEF Consistent
<1>4. CASE u = [t EXCEPT !.invalid = @ + 1]
  <2>1. /\ u.invalid = t.invalid + 1 /\ u.completed = t.completed /\ u.missing = t.missing
        /\ u.before = t.before /\ u.after = t.after /\ u.saved = t.saved
    BY <1>4 DEF TokenFields
  <2> HIDE DEF u
  <2>2. QED
    BY <1>1, <1>2, <2>1 DEF Consistent
<1>5. CASE /\ Consistent(report)
           /\ u = [t EXCEPT !.completed = @ + 1, !.before = @ + report.before,
                            !.after = @ + report.after, !.saved = @ + report.saved]
  <2>1. /\ u.completed = t.completed + 1 /\ u.missing = t.missing /\ u.invalid = t.invalid
        /\ u.before = t.before + report.before /\ u.after = t.after + report.after
        /\ u.saved = t.saved + report.saved
    BY <1>5 DEF TokenFields
  <2>2. report.after <= report.before /\ report.saved = report.before - report.after
    BY <1>5 DEF Consistent
  <2> HIDE DEF u
  <2>3. QED
    BY <1>1, <1>2, <2>1, <2>2 DEF Consistent
<1>6. QED
  BY <1>1, <1>3, <1>4, <1>5 DEF CountTokens

\* A reason adds one to its own field and to the total of the excluded.
LEMMA ExcludedEffect ==
    ASSUME NEW e \in [ExcludedFields -> Nat], NEW reason \in {"synthetic", "bypass", "error"}
    PROVE  LET d == [e EXCEPT ![reason] = @ + 1, !.total = @ + 1]
           IN  /\ d.total = e.total + 1
               /\ d.synthetic = IF reason = "synthetic" THEN e.synthetic + 1 ELSE e.synthetic
               /\ d.bypass = IF reason = "bypass" THEN e.bypass + 1 ELSE e.bypass
               /\ d.error = IF reason = "error" THEN e.error + 1 ELSE e.error
BY DEF ExcludedFields

\* And one more in, or out of, the token population.
LEMMA RecordTokensBalance ==
    ASSUME GatewayAssumption, NEW store \in Store,
           NEW calls \in SUBSET (Requests \cup {Old}), NEW r \in Requests, r \notin calls,
           NEW m \in Metric, m.class = call[r].class, m.synthetic = call[r].synthetic,
           TokensBalance(store, calls)
    PROVE  TokensBalance(Record(store, m), calls \cup {r})
<1> DEFINE new == Record(store, m)
           reason == Exclusion(m)
           t == store.tokens
           e == store.excluded
           all == calls \cup {r}
<1>1. /\ t \in [TokenFields -> Nat] /\ e \in [ExcludedFields -> Nat] /\ m.token \in Report
      /\ m.class \in {"main", "spawned"} /\ m.synthetic \in BOOLEAN
  BY DEF Store, Metric, Classes
<1>2. /\ t.completed \in Nat /\ t.missing \in Nat /\ t.invalid \in Nat
      /\ e.total \in Nat /\ e.synthetic \in Nat /\ e.bypass \in Nat /\ e.error \in Nat
  BY <1>1 DEF TokenFields, ExcludedFields
<1>3. /\ t.completed + t.missing + t.invalid + e.total = Cardinality(OfThisStore(calls))
      /\ e.total = e.bypass + e.error + e.synthetic
      /\ e.synthetic = Cardinality(Synthetic(calls))
      /\ e.bypass = Cardinality(Bypassed(calls))
      /\ Consistent(t)
  BY DEF TokensBalance
<1>4. Cardinality(OfThisStore(all)) = Cardinality(OfThisStore(calls)) + 1
  <2>1. OfThisStore(all) = OfThisStore(calls) \cup {r} /\ OfThisStore(calls) \subseteq calls
    BY DEF OfThisStore, GatewayAssumption
  <2>2. Cardinality(OfThisStore(calls) \cup {r}) = Cardinality(OfThisStore(calls)) + 1
    BY <2>1, OneMore
  <2>3. QED
    BY <2>1, <2>2
<1>5. Cardinality(Synthetic(all)) =
         IF m.synthetic THEN Cardinality(Synthetic(calls)) + 1 ELSE Cardinality(Synthetic(calls))
  <2>1. Cardinality(Synthetic(calls) \cup {r}) = Cardinality(Synthetic(calls)) + 1
    <3>1. Synthetic(calls) \subseteq calls
      BY DEF Synthetic
    <3>2. QED
      BY <3>1, OneMore
  <2>2. Synthetic(all) = IF m.synthetic THEN Synthetic(calls) \cup {r} ELSE Synthetic(calls)
    BY DEF Synthetic, GatewayAssumption
  <2>3. QED
    BY <2>1, <2>2
<1>6. Cardinality(Bypassed(all)) =
         IF m.class = "spawned" /\ ~m.synthetic
         THEN Cardinality(Bypassed(calls)) + 1 ELSE Cardinality(Bypassed(calls))
  <2>1. Cardinality(Bypassed(calls) \cup {r}) = Cardinality(Bypassed(calls)) + 1
    <3>1. Bypassed(calls) \subseteq calls
      BY DEF Bypassed
    <3>2. QED
      BY <3>1, OneMore
  <2>2. Bypassed(all) = IF m.class = "spawned" /\ ~m.synthetic
                        THEN Bypassed(calls) \cup {r} ELSE Bypassed(calls)
    BY DEF Bypassed, GatewayAssumption
  <2>3. QED
    BY <2>1, <2>2
<1>7. /\ reason \in {"none", "synthetic", "bypass", "error"}
      /\ reason = "synthetic" <=> m.synthetic
      /\ reason = "bypass" <=> m.class = "spawned" /\ ~m.synthetic
  BY <1>1 DEF Exclusion
<1>8. CASE reason = "none"
  <2> DEFINE u == CountTokens(t, m.token)
  <2>1. new.tokens = u /\ new.excluded = e
    BY <1>8 DEF Record
  <2>2. u.completed + u.missing + u.invalid = t.completed + t.missing + t.invalid + 1
        /\ Consistent(u)
    BY <1>1, <1>3, CountTokensEffect
  <2>3. u.completed \in Nat /\ u.missing \in Nat /\ u.invalid \in Nat
    <3>1. u \in [TokenFields -> Nat]
      BY <1>1, CountTokensType
    <3> HIDE DEF u
    <3>2. QED
      BY <3>1 DEF TokenFields
  <2>4. ~m.synthetic /\ m.class # "spawned"
    BY <1>7, <1>8
  <2> HIDE DEF new, u, t, e, all, reason
  <2>5. QED
    BY <1>2, <1>3, <1>4, <1>5, <1>6, <2>1, <2>2, <2>3, <2>4 DEF TokensBalance, new, all
<1>9. CASE reason # "none"
  <2> DEFINE d == [e EXCEPT ![reason] = @ + 1, !.total = @ + 1]
  <2>1. new.tokens = t /\ new.excluded = d
    BY <1>9 DEF Record
  <2>2. /\ d.total = e.total + 1
        /\ d.synthetic = IF reason = "synthetic" THEN e.synthetic + 1 ELSE e.synthetic
        /\ d.bypass = IF reason = "bypass" THEN e.bypass + 1 ELSE e.bypass
        /\ d.error = IF reason = "error" THEN e.error + 1 ELSE e.error
    <3>1. reason \in {"synthetic", "bypass", "error"}
      BY <1>7, <1>9
    <3> HIDE DEF reason, e
    <3>2. QED
      BY <1>1, <3>1, ExcludedEffect
  <2> HIDE DEF d, t, e, all, reason
  <2>3. d.total = d.bypass + d.error + d.synthetic
    BY <1>2, <1>3, <1>7, <1>9, <2>2
  <2>4. d.synthetic = Cardinality(Synthetic(all)) /\ d.bypass = Cardinality(Bypassed(all))
    BY <1>2, <1>3, <1>5, <1>6, <1>7, <2>2
  <2> HIDE DEF new
  <2>5. QED
    BY <1>2, <1>3, <1>4, <2>1, <2>2, <2>3, <2>4 DEF TokensBalance, new, all
<1>10. QED
  BY <1>8, <1>9

\* A store of zeros balances no calls.
LEMMA EmptyBalances ==
    CountsBalance(EmptyStore, {}) /\ TokensBalance(EmptyStore, {})
<1>1. Cardinality({}) = 0
  BY FS_EmptySet
<1>2. /\ \A c \in Classes : Mine({}, c) = {}
      /\ OfThisStore({}) = {} /\ Synthetic({}) = {} /\ Bypassed({}) = {}
  BY DEF Mine, OfThisStore, Synthetic, Bypassed
<1>3. CountsBalance(EmptyStore, {})
  BY <1>1, <1>2 DEF CountsBalance, EmptyStore, NoTally, TallyFields, Classes, Policies, PolicyOf
<1>4. TokensBalance(EmptyStore, {})
  BY <1>1, <1>2 DEF TokensBalance, EmptyStore, NoTokens, NoExcluded, TokenFields,
                    ExcludedFields, Consistent
<1>5. QED
  BY <1>3, <1>4

\* What the file holds, by its generation.
FileBalances ==
    /\ CountsBalance(file.store, stored)
    /\ file.version = 0 => file = NoFile /\ stored = {}
    /\ file.version = 1 => stored = {Old}
    /\ file.version = 2 => TokensBalance(file.store, stored)

\* A loaded store balances the calls its file balanced.
LEMMA LoadBalances ==
    ASSUME file \in Files, FileBalances
    PROVE  CountsBalance(Load(file), stored) /\ TokensBalance(Load(file), stored)
<1>1. file.version \in {0, 1, 2}
  BY DEF Files
<1>2. CASE file.version = 0
  BY <1>2, EmptyBalances DEF FileBalances, Load
<1>3. CASE file.version = 1
  <2>1. stored = {Old} /\ CountsBalance(file.store, stored)
    BY <1>3 DEF FileBalances
  <2>2. /\ Load(file).counters = file.store.counters
        /\ Load(file).byClass = file.store.byClass
        /\ Load(file).byPolicy = file.store.byPolicy
        /\ Load(file).tokens = NoTokens /\ Load(file).excluded = NoExcluded
    BY <1>3 DEF Load
  <2>3. OfThisStore(stored) = {} /\ Synthetic(stored) = {} /\ Bypassed(stored) = {}
    BY <2>1 DEF OfThisStore, Synthetic, Bypassed
  <2>4. TokensBalance(Load(file), stored)
    BY <2>2, <2>3, FS_EmptySet DEF TokensBalance, NoTokens, NoExcluded, TokenFields,
                                   ExcludedFields, Consistent
  <2>5. QED
    BY <2>1, <2>2, <2>4 DEF CountsBalance
<1>4. CASE file.version = 2
  <2>1. TokensBalance(file.store, stored) /\ CountsBalance(file.store, stored)
    BY <1>4 DEF FileBalances
  <2>2. Checked(file.store.tokens) = file.store.tokens
    BY <2>1 DEF TokensBalance, Checked
  <2>3. /\ Load(file).counters = file.store.counters
        /\ Load(file).byClass = file.store.byClass
        /\ Load(file).byPolicy = file.store.byPolicy
        /\ Load(file).tokens = file.store.tokens
        /\ Load(file).excluded = file.store.excluded
    BY <1>4, <2>2 DEF Load
  <2>4. QED
    BY <2>1, <2>3 DEF TokensBalance, CountsBalance
<1>5. QED
  BY <1>1, <1>2, <1>3, <1>4

\* What makes CountedOnce inductive: a call that can still end has been counted
\* neither in memory nor in the file, and the file is balanced as the memory is.
Books ==
    /\ \A r \in Requests : stage[r] \in Answered => r \in counted
    /\ \A r \in Requests : stage[r] \in {"new"} \cup InFlight => r \notin counted \cup stored
    /\ CountsBalance(metrics, counted) /\ TokensBalance(metrics, counted)
    /\ FileBalances

\* A write leaves the file balanced, whether it succeeds or not.
LEMMA WriteBalances ==
    ASSUME FileBalances, NEW store, NEW calls, Write(store, calls),
           CountsBalance(store, calls), TokensBalance(store, calls), call' = call
    PROVE  FileBalances' /\ stored' \in {stored, calls}
<1>1. CASE file' = FileOf(store) /\ stored' = calls
  <2>1. file'.version = 2 /\ file'.store = store
    BY <1>1 DEF FileOf
  <2>2. QED
    BY <1>1, <2>1 DEF FileBalances, CountsBalance, TokensBalance, Mine, ClassOf,
                      Synthetic, Bypassed, OfThisStore
<1>2. CASE UNCHANGED <<file, stored>>
  BY <1>2 DEF FileBalances, CountsBalance, TokensBalance, Mine, ClassOf, Synthetic,
              Bypassed, OfThisStore
<1>3. QED
  BY <1>1, <1>2 DEF Write

\* call never changes, so a balance holds after a step if it holds of the values
\* the step leaves.
LEMMA BalancesAfter ==
    ASSUME call' = call, CountsBalance(metrics', counted'), TokensBalance(metrics', counted')
    PROVE  CountsBalance(metrics, counted)' /\ TokensBalance(metrics, counted)'
BY DEF CountsBalance, TokensBalance, Mine, ClassOf, Synthetic, Bypassed, OfThisStore

\* Every step keeps both balances, in memory and on disk.
LEMMA BooksStep ==
    ASSUME TypeOK, GatewayAssumption, IdleWhenDown, Books, [Next]_vars
    PROVE  Books'
<1>0. call' = call
  BY StepShape DEF Start, Kill, vars, handlerVars, Moving, Closing
<1>1. CASE Start
  <2>1. PICK readable \in BOOLEAN :
          /\ metrics' = IF readable THEN Load(file) ELSE EmptyStore
          /\ counted' = IF readable THEN stored ELSE {}
    BY <1>1 DEF Start
  <2>2. CountsBalance(metrics', counted') /\ TokensBalance(metrics', counted')
    BY <2>1, LoadBalances, EmptyBalances DEF Books, TypeOK
  <2>3. CountsBalance(metrics, counted)' /\ TokensBalance(metrics, counted)'
    BY <1>0, <2>2, BalancesAfter
  <2>4. Write(metrics', counted') \/ UNCHANGED <<file, stored>>
    BY <1>1 DEF Start
  <2>5. ASSUME UNCHANGED <<file, stored>>
        PROVE  FileBalances' /\ stored' \in {stored, counted'}
    <3>1. FileBalances
      BY DEF Books
    <3>2. FileBalances'
      BY <1>0, <2>5, <3>1 DEF FileBalances, CountsBalance, TokensBalance, Mine, ClassOf,
                              Synthetic, Bypassed, OfThisStore
    <3>3. QED
      BY <2>5, <3>2
  <2>6. FileBalances' /\ stored' \in {stored, counted'}
    BY <1>0, <2>2, <2>4, <2>5, WriteBalances DEF Books
  <2>7. \A r \in Requests : stage'[r] = stage[r] /\ stage[r] \in {"new", "gone"}
    BY <1>1 DEF Start, handlerVars, IdleWhenDown
  <2>8. \A r \in Requests : stage'[r] \notin Answered
    BY <2>7 DEF Answered
  <2>9. counted' \cup stored' \subseteq stored
    BY <2>1, <2>6
  <2>10. \A r \in Requests : stage'[r] \in {"new"} \cup InFlight => r \notin counted' \cup stored'
    BY <2>7, <2>9 DEF Books
  <2>11. QED
    BY <2>3, <2>6, <2>8, <2>10 DEF Books
<1>2. CASE Kill
  <2>1. /\ \A r \in Requests : stage'[r] = IF stage[r] = "new" THEN "new" ELSE "gone"
        /\ metrics' = EmptyStore /\ counted' = {} /\ UNCHANGED <<file, stored>>
    BY <1>2 DEF Kill
  <2>2. CountsBalance(metrics, counted)' /\ TokensBalance(metrics, counted)'
    BY <1>0, <2>1, EmptyBalances, BalancesAfter
  <2>3. FileBalances'
    BY <1>0, <2>1 DEF Books, FileBalances, CountsBalance, TokensBalance, Mine, ClassOf,
                      Synthetic, Bypassed, OfThisStore
  <2>4. /\ \A r \in Requests : stage'[r] \notin Answered
        /\ \A r \in Requests : stage'[r] \in {"new"} \cup InFlight => stage[r] = "new"
    BY <2>1 DEF Answered, InFlight, Sending
  <2>5. QED
    BY <2>1, <2>2, <2>3, <2>4 DEF Books
<1>3. CASE UNCHANGED vars
  BY <1>3 DEF vars, handlerVars, metricsVars, Books, FileBalances, CountsBalance,
              TokensBalance, Mine, ClassOf, Synthetic, Bypassed, OfThisStore
<1>4. ASSUME NEW r \in Requests, Moving(r)
      PROVE  Books'
  <2>1. PICK s \in InFlight \cup {"dropped", "cancelled", "abandoned"} :
          stage' = [stage EXCEPT ![r] = s]
    BY <1>4 DEF Moving
  <2>2. stage[r] \in {"new"} \cup InFlight /\ UNCHANGED metricsVars
    BY <1>4 DEF Moving
  <2>3. s \notin Answered
    BY DEF Answered, InFlight, Sending
  <2>4. /\ CountsBalance(metrics, counted)' /\ TokensBalance(metrics, counted)'
        /\ FileBalances'
    BY <1>0, <2>2 DEF Books, metricsVars, FileBalances, CountsBalance, TokensBalance, Mine,
                      ClassOf, Synthetic, Bypassed, OfThisStore
  <2>5. QED
    BY <2>1, <2>2, <2>3, <2>4 DEF Books, TypeOK, metricsVars
<1>5. ASSUME NEW r \in Requests, NEW m \in Metric, Closing(r, m)
      PROVE  Books'
  <2>1. PICK s \in Answered : stage' = [stage EXCEPT ![r] = s]
    BY <1>5 DEF Closing
  <2>2. r \notin counted \cup stored
    BY <1>5 DEF Closing, Books
  <2>3. /\ metrics \in Store /\ counted \in SUBSET (Requests \cup {Old})
        /\ m.class = call[r].class /\ m.synthetic = call[r].synthetic
        /\ metrics' = Record(metrics, m) /\ counted' = counted \cup {r}
    BY <1>5 DEF Closing, TypeOK
  <2>4. CountsBalance(metrics', counted') /\ TokensBalance(metrics', counted')
    BY <2>2, <2>3, RecordCountsBalance, RecordTokensBalance DEF Books
  <2>5. CountsBalance(metrics, counted)' /\ TokensBalance(metrics, counted)'
    BY <1>0, <2>4, BalancesAfter
  <2>6. FileBalances' /\ stored' \in {stored, counted'}
    BY <1>0, <1>5, <2>4, WriteBalances DEF Closing, Books
  <2>7. s \notin {"new"} \cup InFlight
    BY DEF Answered, InFlight, Sending
  <2>8. \A x \in Requests : stage'[x] \in Answered => x \in counted'
    BY <2>1, <2>3 DEF Books, TypeOK
  <2>9. \A x \in Requests : stage'[x] \in {"new"} \cup InFlight => x \notin counted' \cup stored'
    BY <2>1, <2>3, <2>6, <2>7 DEF Books, TypeOK
  <2>10. QED
    BY <2>5, <2>6, <2>8, <2>9 DEF Books
<1>6. QED
  BY <1>1, <1>2, <1>3, <1>4, <1>5, StepShape

\* A file of an earlier run balances the call it counts.
LEMMA OldFileBalances == CountsBalance(OldFile.store, {Old})
<1>1. Cardinality({Old}) = 1
  BY FS_Singleton
<1>2. Mine({Old}, "main") = {Old} /\ Mine({Old}, "spawned") = {}
  BY DEF Mine, ClassOf
<1>3. /\ OldFile.store.counters = Count(NoTally, "ok")
      /\ OldFile.store.byClass["main"] = Count(NoTally, "ok")
      /\ OldFile.store.byClass["spawned"] = NoTally
      /\ OldFile.store.byPolicy[PolicyOf("main")] = Count(NoTally, "ok")
      /\ OldFile.store.byPolicy[PolicyOf("spawned")] = NoTally
  BY GatewayAssumption DEF GatewayAssumption, Classes, Policies, PolicyOf
<1>4. Count(NoTally, "ok").total = 1 /\ NoTally.total = 0
  BY DEF Count, Slot, NoTally, TallyFields
<1>5. Cardinality({}) = 0
  BY FS_EmptySet
<1>6. QED
  BY <1>1, <1>2, <1>3, <1>4, <1>5 DEF CountsBalance, Classes

\* So both hold in every state.
LEMMA BooksHold == Spec => []Books
<1>1. Init => Books
  <2> SUFFICES ASSUME Init PROVE Books
    OBVIOUS
  <2>1. FileBalances
    BY OldFileBalances, EmptyBalances, GatewayAssumption
       DEF Init, FileBalances, NoFile, GatewayAssumption
  <2>2. \A r \in Requests : stage[r] \notin Answered /\ r \notin counted \cup stored
    BY GatewayAssumption DEF Init, Answered, GatewayAssumption
  <2>3. QED
    BY <2>1, <2>2, EmptyBalances DEF Init, Books
<1>2. TypeOK /\ IdleWhenDown /\ Books /\ [Next]_vars => Books'
  BY BooksStep, GatewayAssumption
<1>3. QED
  BY <1>1, <1>2, TypeCorrect, KeepsHolds, PTL DEF Spec

\* Each answered call is counted once, under its class, its policy and one token
\* bucket or exclusion, however often the process is killed, whatever is written
\* or lost of the file, and whatever token counts the responses claim.
THEOREM CallsAreCountedOnce == Spec => []CountedOnce
<1>1. Books => CountedOnce
  BY DEF Books, CountedOnce, CountsBalance, TokensBalanced, TokensBalance, Mine,
         OfThisStore, Synthetic, Bypassed
<1>2. QED
  BY <1>1, BooksHold, PTL

\* _load changes nothing of a file this gateway wrote, so a restart never counts
\* an aggregate of its own as invalid.
THEOREM RestartsReadBack == Spec => []ReloadsWhatItWrote
<1>1. TypeOK /\ Books => ReloadsWhatItWrote
  <2> SUFFICES ASSUME TypeOK, Books, file.version = 2
               PROVE  Load(file) = file.store
    BY DEF ReloadsWhatItWrote
  <2>1. Checked(file.store.tokens) = file.store.tokens
    BY DEF Books, FileBalances, TokensBalance, Checked
  <2>2. file.store \in Store
    BY DEF TypeOK, Files
  <2>3. QED
    BY <2>1, <2>2 DEF Load, Store
<1>2. QED
  BY <1>1, TypeCorrect, BooksHold, PTL

=============================================================================
