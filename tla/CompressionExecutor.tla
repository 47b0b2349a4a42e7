-------------------------- MODULE CompressionExecutor --------------------------
(***************************************************************************)
(* HeadroomProxy._run_compression_in_executor of headroom/proxy/server.py: *)
(* the bounded pool every compression of the proxy runs on.  A caller      *)
(* waits for its job no longer than a deadline; Python cannot stop the     *)
(* thread, so a job that outlives its caller is booked as debt, and while  *)
(* there is debt new callers are turned away (quarantine).                 *)
(*                                                                         *)
(* Loop and worker threads meet at the sections under                      *)
(* _compression_metrics_lock; each is one action.  A worker takes a job    *)
(* off the queue (Pick) before it reaches its first section (Start): the   *)
(* deadline may fall in between.  Waiting times, maxima and the total of   *)
(* the threads that came back late are left out.                           *)
(***************************************************************************)
EXTENDS Naturals, Sequences, FiniteSets

CONSTANTS
    Calls,          \* the calls of _run_compression_in_executor
    Workers         \* compression_max_workers

ASSUME ExecutorAssumption ==
    /\ IsFiniteSet(Calls)
    /\ Workers \in Nat \ {0}

VARIABLES
    awaited,        \* the calls whose caller waits at wait_for
    job,            \* where a call's job is: its future and its thread
    counted,        \* state["queued"] of a call
    late,           \* state["timed_out"]
    owing,          \* state["timeout_debt_recorded"]
    line,           \* the pool's queue
    queued,         \* _compression_queued
    in_flight,      \* _compression_in_flight
    debt            \* _compression_timed_out_in_flight

flags == <<awaited, job, counted, late, owing, line>>
gauges == <<queued, in_flight, debt>>
executor == <<flags, gauges>>

Jobs == {"none", "waiting", "cancelled", "picked", "running", "finished"}

ExecutorInit ==
    /\ awaited = {}
    /\ job = [c \in Calls |-> "none"]
    /\ counted = [c \in Calls |-> FALSE]
    /\ late = [c \in Calls |-> FALSE]
    /\ owing = [c \in Calls |-> FALSE]
    /\ line = <<>>
    /\ queued = 0 /\ in_flight = 0 /\ debt = 0

Set(f, c, v) == [f EXCEPT ![c] = v]

\* The two sections of the entry change nothing the other side reads in
\* between, so they are one step.
Quarantined == debt > 0

Submit(c) ==
    /\ job[c] = "none"
    /\ ~Quarantined
    /\ awaited' = awaited \cup {c}
    /\ job' = Set(job, c, "waiting")
    /\ counted' = Set(counted, c, TRUE)
    /\ line' = Append(line, c)
    /\ queued' = queued + 1
    /\ UNCHANGED <<late, owing, in_flight, debt>>

\* A thread takes the oldest job; a job whose future was cancelled is dropped.
Pick ==
    /\ line # <<>>
    /\ Cardinality({c \in Calls : job[c] \in {"picked", "running"}}) < Workers
    /\ LET c == Head(line) IN
          job' = IF job[c] = "waiting" THEN Set(job, c, "picked") ELSE job
    /\ line' = Tail(line)
    /\ UNCHANGED <<awaited, counted, late, owing, gauges>>

\* _wrapped up to fn(), with _record_timeout_debt_locked: a caller that gave
\* up before the thread got here owes for it now.
Start(c) ==
    /\ job[c] = "picked"
    /\ job' = Set(job, c, "running")
    /\ counted' = Set(counted, c, FALSE)
    /\ queued' = IF counted[c] THEN queued - 1 ELSE queued
    /\ in_flight' = in_flight + 1
    /\ owing' = Set(owing, c, late[c])
    /\ debt' = IF late[c] THEN debt + 1 ELSE debt
    /\ UNCHANGED <<awaited, late, line>>

\* The finally of _wrapped; then the future is resolved.
Finish(c) ==
    /\ job[c] = "running"
    /\ job' = Set(job, c, "finished")
    /\ in_flight' = in_flight - 1
    /\ owing' = Set(owing, c, FALSE)
    /\ debt' = IF owing[c] THEN debt - 1 ELSE debt
    /\ UNCHANGED <<awaited, counted, late, line, queued>>

\* The caller gets the job's result or its exception.
Return(c) ==
    /\ c \in awaited
    /\ job[c] = "finished"
    /\ awaited' = awaited \ {c}
    /\ UNCHANGED <<job, counted, late, owing, line, gauges>>

\* Cancelling a future stops the job only while no thread has taken it.
Cancelled(c) == IF job[c] = "waiting" THEN Set(job, c, "cancelled") ELSE job

\* Mistake: the gauge is lowered whoever lowered it before.
TimeOutTwice(c) ==
    /\ c \in awaited
    /\ awaited' = awaited \ {c}
    /\ job' = Cancelled(c)
    /\ late' = Set(late, c, TRUE)
    /\ counted' = Set(counted, c, FALSE)
    /\ queued' = IF queued > 0 THEN queued - 1 ELSE queued
    /\ owing' = Set(owing, c, job[c] = "running")
    /\ debt' = IF job[c] = "running" THEN debt + 1 ELSE debt
    /\ UNCHANGED <<line, in_flight>>

\* wait_for gives up: the future is cancelled, then the handler's section.
\* It may also meet a job that has just finished.
TimeOut(c) ==
    /\ c \in awaited
    /\ awaited' = awaited \ {c}
    /\ job' = Cancelled(c)
    /\ late' = Set(late, c, TRUE)
    /\ counted' = Set(counted, c, FALSE)
    /\ queued' = IF counted[c] THEN queued - 1 ELSE queued
    /\ owing' = Set(owing, c, job[c] = "running")
    /\ debt' = IF job[c] = "running" THEN debt + 1 ELSE debt
    /\ UNCHANGED <<line, in_flight>>

\* The waiting task itself is cancelled: no handler catches that.
Abandon(c) ==
    /\ c \in awaited
    /\ awaited' = awaited \ {c}
    /\ job' = Cancelled(c)
    /\ UNCHANGED <<counted, late, owing, line, gauges>>

ExecutorNext ==
    \/ Pick
    \/ \E c \in Calls : Submit(c) \/ Start(c) \/ Finish(c)
                        \/ Return(c) \/ TimeOut(c) \/ Abandon(c)

ExecutorSpec == ExecutorInit /\ [][ExecutorNext]_executor

-----------------------------------------------------------------------------
(* Properties. *)

\* The type invariant of the executor's state.
ExecutorTypeOK ==
    /\ awaited \subseteq Calls
    /\ job \in [Calls -> Jobs]
    /\ counted \in [Calls -> BOOLEAN]
    /\ late \in [Calls -> BOOLEAN]
    /\ owing \in [Calls -> BOOLEAN]
    /\ line \in Seq(Calls)
    /\ queued \in Nat /\ in_flight \in Nat /\ debt \in Nat

\* The jobs that wait for a thread, or have one that has not begun, for a caller
\* whose deadline has not passed.
Queued == {c \in Calls : job[c] \in {"waiting", "picked"} /\ ~late[c]}

\* A job that was dropped because the task waiting for it was cancelled is never
\* taken off the gauge: only the handler of a deadline does that.
Leaked == {c \in Calls : job[c] = "cancelled" /\ ~late[c]}

\* However deadline, cancellation, pick and start fall, the gauges of /health
\* are the jobs themselves: none is counted twice, forgotten or taken off twice,
\* but for the leaked ones, which "queued" counts for ever.  The debt is
\* the threads that run for a caller whose deadline passed: the quarantine
\* neither outlasts the last of them nor misses one that the cancellation came
\* too late to stop.  A caller that was itself cancelled leaves no debt.
GaugesExact ==
    /\ queued = Cardinality(Queued) + Cardinality(Leaked)
    /\ in_flight = Cardinality({c \in Calls : job[c] = "running"})
    /\ debt = Cardinality({c \in Calls : late[c] /\ job[c] = "running"})
===============================================================================
