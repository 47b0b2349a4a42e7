----------------------------- MODULE MCGateway -----------------------------
(* A small instance of Gateway for TLC. *)
EXTENDS Gateway

\* A model call, a diagnostic one, one of a spawned agent and a synthetic one.
MCCalls ==
    {[class |-> "main", synthetic |-> FALSE, compressPath |-> FALSE],
     [class |-> "main", synthetic |-> FALSE, compressPath |-> TRUE],
     [class |-> "spawned", synthetic |-> FALSE, compressPath |-> FALSE],
     [class |-> "main", synthetic |-> TRUE, compressPath |-> FALSE]}

\* No headers, a saving, and a sum that is wrong.
MCReports ==
    {NoReport,
     [kind |-> "values", before |-> 3, after |-> 1, saved |-> 2],
     [kind |-> "values", before |-> 1, after |-> 2, saved |-> 0]}

\* A first-generation file with one call, and token sums that disagree.
MCOldFile ==
    [version |-> 1,
     store |-> [EmptyStore EXCEPT
        !.counters = Count(@, "ok"),
        !.byClass  = [@ EXCEPT !["main"] = Count(@, "ok")],
        !.byPolicy = [@ EXCEPT !["compress"] = Count(@, "ok")],
        !.tokens   = [@ EXCEPT !.before = 2, !.after = 1, !.saved = 2, !.completed = 1]]]

=============================================================================
