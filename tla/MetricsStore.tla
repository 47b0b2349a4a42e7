---------------------------- MODULE MetricsStore ----------------------------
(***************************************************************************)
(* The gateway's MetricsStore (codexpp-headroom/gateway.py) as operators:  *)
(* the state it keeps, what one record() adds to it and what a restart     *)
(* reads back from the file.  `recent`, the classification diagnostics,    *)
(* the cache baselines and the usage contract are left out: no counter     *)
(* depends on them.                                                        *)
(***************************************************************************)
EXTENDS Integers

Classes  == {"main", "spawned"}
Policies == {"compress", "bypass"}
PolicyOf(class) == IF class = "spawned" THEN "bypass" ELSE "compress"

TallyFields    == {"total", "ok", "error", "timeout"}
TokenFields    == {"before", "after", "saved", "completed", "missing", "invalid"}
ExcludedFields == {"bypass", "error", "synthetic", "total"}

Tally == [TallyFields -> Nat]
Store == [counters : Tally,
          byClass  : [Classes -> Tally],
          byPolicy : [Policies -> Tally],
          tokens   : [TokenFields -> Nat],
          excluded : [ExcludedFields -> Nat],
          legacy   : [TokenFields -> Nat]]

NoTally    == [f \in TallyFields |-> 0]
NoTokens   == [f \in TokenFields |-> 0]
NoExcluded == [f \in ExcludedFields |-> 0]
EmptyStore ==
    [counters |-> NoTally,
     byClass  |-> [c \in Classes |-> NoTally],
     byPolicy |-> [p \in Policies |-> NoTally],
     tokens   |-> NoTokens,
     excluded |-> NoExcluded,
     legacy   |-> NoTokens]

-----------------------------------------------------------------------------
(* What one request reports. *)

\* The token headers of a response, or the zeroes of a passthrough.
Report == [kind : {"missing", "malformed", "values"},
           before : Nat, after : Nat, saved : Nat]

Results == {"ok", "http_status", "timeout", "upstream_unavailable",
            "upstream_incomplete", "upstream_failed", "upstream_read_error",
            "cancelled", "error"}

Fallbacks == {"none", "compression_passthrough", "headroom_failure"}

Metric == [class : Classes, synthetic : BOOLEAN, result : Results,
           fallback : Fallbacks, eligible : BOOLEAN, token : Report]

\* Whether three token counts agree with each other.
Consistent(t) == t.after <= t.before /\ t.saved = t.before - t.after

-----------------------------------------------------------------------------
(* record(). *)

Slot(result) == IF result \in {"ok", "timeout"} THEN result ELSE "error"

Count(tally, result) ==
    [tally EXCEPT !.total = @ + 1, ![Slot(result)] = @ + 1]

\* _token_eligibility: the reason a metric stays out of the v2 population, or
\* "none".  A fallback and a bypass stay out whatever mark they carry.
Exclusion(m) ==
    CASE m.synthetic -> "synthetic"
      [] ~m.synthetic /\ m.class = "spawned" -> "bypass"
      [] ~m.synthetic /\ m.class = "main" /\ m.fallback = "headroom_failure" -> "error"
      [] ~m.synthetic /\ m.class = "main" /\ m.fallback # "headroom_failure" ->
            IF m.eligible \/ m.result = "ok" THEN "none" ELSE "error"

\* Mistake: the three counts are summed as they come.
CountTokensAsReported(tokens, report) ==
    IF report.kind # "values"
    THEN [tokens EXCEPT !.missing = @ + 1]
    ELSE [tokens EXCEPT !.completed = @ + 1,
                        !.before = @ + report.before,
                        !.after  = @ + report.after,
                        !.saved  = @ + report.saved]

CountTokens(tokens, report) ==
    IF report.kind = "missing"
    THEN [tokens EXCEPT !.missing = @ + 1]
    ELSE IF report.kind = "malformed" \/ ~Consistent(report)
    THEN [tokens EXCEPT !.invalid = @ + 1]
    ELSE [tokens EXCEPT !.completed = @ + 1,
                        !.before = @ + report.before,
                        !.after  = @ + report.after,
                        !.saved  = @ + report.saved]

\* Mistake: the policy tally is forgotten.
RecordWithoutPolicy(store, m) ==
    LET reason == Exclusion(m)
    IN  [store EXCEPT
            !.counters = Count(@, m.result),
            !.byClass  = [@ EXCEPT ![m.class] = Count(@, m.result)],
            !.tokens   = IF reason = "none" THEN CountTokens(@, m.token) ELSE @,
            !.excluded = IF reason = "none" THEN @
                         ELSE [@ EXCEPT ![reason] = @ + 1, !.total = @ + 1]]

Record(store, m) ==
    LET policy == PolicyOf(m.class)
        reason == Exclusion(m)
    IN  [counters |-> Count(store.counters, m.result),
         byClass  |-> [store.byClass EXCEPT ![m.class] = Count(@, m.result)],
         byPolicy |-> [store.byPolicy EXCEPT ![policy] = Count(@, m.result)],
         tokens   |-> IF reason = "none" THEN CountTokens(store.tokens, m.token)
                      ELSE store.tokens,
         excluded |-> IF reason = "none" THEN store.excluded
                      ELSE [store.excluded EXCEPT ![reason] = @ + 1, !.total = @ + 1],
         legacy   |-> store.legacy]

-----------------------------------------------------------------------------
(* The file, and _load(). *)

\* schema_version of the token accounting; 0 stands for no file.
Files == [version : {0, 1, 2}, store : Store]
NoFile == [version |-> 0, store |-> EmptyStore]
FileOf(store) == [version |-> 2, store |-> store]

\* Aggregates that contradict each other count as one invalid sample.
Checked(tokens) ==
    IF Consistent(tokens) THEN tokens
    ELSE [tokens EXCEPT !.invalid = IF @ > 1 THEN @ ELSE 1]

\* Mistake: the migration starts a new file and drops the request counters.
LoadStartsOver(file) ==
    IF file.version = 2 THEN [file.store EXCEPT !.tokens = Checked(@)]
    ELSE [EmptyStore EXCEPT !.legacy = Checked(file.store.tokens)]

\* A file of the first generation keeps its request counters; its token counters
\* become history.
Load(file) ==
    LET old == file.store
        WithTokens(tokens, excluded, legacy) ==
            [counters |-> old.counters, byClass |-> old.byClass, byPolicy |-> old.byPolicy,
             tokens |-> tokens, excluded |-> excluded, legacy |-> legacy]
    IN  CASE file.version = 0 -> EmptyStore
          [] file.version = 1 -> WithTokens(NoTokens, NoExcluded, Checked(old.tokens))
          [] file.version = 2 -> WithTokens(Checked(old.tokens), old.excluded, old.legacy)

=============================================================================
