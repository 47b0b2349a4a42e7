----------------------- MODULE KompressBroker_proofs -----------------------
(***************************************************************************)
(* Proofs about KompressBroker for every finite set of requests and every  *)
(* queue limit: type correctness, the mutual exclusion of worker calls and *)
(* the pipes they leave behind, the conservation of permits, the exactness *)
(* of the counters and the receipts, and the safety part of the refinement *)
(* of CompressService.                                                     *)
(***************************************************************************)
EXTENDS KompressBroker, FiniteSetTheorems, SequenceTheorems, TLAPS

(* The sequences of the model keep their types. *)
LEMMA ReceiptType ==
    ASSUME NEW r \in Requests, NEW outcome \in Answers,
           receipts \in Seq([request : Requests, outcome : Answers]),
           BrokerAssumption
    PROVE  Receipt(r, outcome) \in Seq([request : Requests, outcome : Answers])
<1> DEFINE Entry == [request : Requests, outcome : Answers]
           trail == Append(receipts, [request |-> r, outcome |-> outcome])
           drop  == IF Len(trail) > ReceiptLimit THEN Len(trail) - ReceiptLimit ELSE 0
<1>1. trail \in Seq(Entry)
  OBVIOUS
<1>2. Len(trail) \in Nat /\ drop \in Nat /\ drop <= Len(trail)
  BY <1>1, LenProperties DEF BrokerAssumption
<1>3. \A i \in drop + 1 .. Len(trail) : trail[i] \in Entry
  <2> HIDE DEF trail, drop, Entry
  <2>1. \A i \in drop + 1 .. Len(trail) : i \in 1 .. Len(trail)
    BY <1>2
  <2>2. QED
    BY <1>1, <2>1, ElementOfSeq
<1>4. SubSeq(trail, drop + 1, Len(trail)) \in Seq(Entry)
  <2> HIDE DEF trail, drop, Entry
  <2>1. drop + 1 \in Int /\ Len(trail) \in Int
    BY <1>2
  <2>2. QED
    BY <2>1, <1>3, SubSeqProperties
<1>5. QED
  BY <1>4 DEF Receipt

(* A record or a bump leaves eight natural numbers. *)
LEMMA CounterType ==
    ASSUME NEW name \in CounterNames, counters \in [CounterNames -> Nat]
    PROVE  /\ Record(name) \in [CounterNames -> Nat]
           /\ Bump(name) \in [CounterNames -> Nat]
BY DEF Record, Bump, CounterNames

(* What every way out of the handler that holds a permit does to the types. *)
LEMMA FinishType ==
    ASSUME TypeOK, BrokerAssumption, NEW r \in Requests, NEW outcome \in Answers,
           Finish(r, outcome)
    PROVE  /\ pc' \in [Requests -> Stages]
           /\ permits' \in Nat
           /\ lockHolder' \in Requests \cup {None}
           /\ receipts' \in Seq([request : Requests, outcome : Answers])
<1>1. pc' \in [Requests -> Stages]
  BY DEF TypeOK, Finish, Stages
<1>2. permits' \in Nat /\ lockHolder' \in Requests \cup {None}
  BY DEF TypeOK, Finish
<1>3. receipts' \in Seq([request : Requests, outcome : Answers])
  BY ReceiptType DEF TypeOK, Finish
<1>4. QED
  BY <1>1, <1>2, <1>3

-----------------------------------------------------------------------------
(* Type correctness. *)

\* The steps of a request handler keep the types.
LEMMA HandlerType ==
    ASSUME TypeOK, BrokerAssumption, NEW r \in Requests, Handler(r)
    PROVE  TypeOK'
<1>1. CASE AcquireCapacity(r)
  BY <1>1 DEF TypeOK, AcquireCapacity, Stages, OpenStages, HoldingStages, threadVars,
              stopVars, processVars
<1>2. CASE CapacityTimeout(r)
  <2>1. receipts' \in Seq([request : Requests, outcome : Answers])
    BY <1>2, ReceiptType DEF TypeOK, CapacityTimeout, Answers, Passthroughs
  <2>2. counters' \in [CounterNames -> Nat]
    BY <1>2, CounterType DEF TypeOK, CapacityTimeout, CounterNames
  <2>3. QED
    BY <1>2, <2>1, <2>2 DEF TypeOK, CapacityTimeout, Stages, Answers, Passthroughs,
              threadVars, stopVars, processVars
<1>3. CASE LockTimeout(r)
  <2>1. "queue_full" \in Answers /\ "queue_full" \in CounterNames
    BY DEF Answers, Passthroughs, CounterNames
  <2>2. QED
    BY <1>3, <2>1, FinishType, CounterType
       DEF TypeOK, LockTimeout, threadVars, stopVars, processVars
<1>4. CASE CallWorker(r)
  BY <1>4 DEF TypeOK, CallWorker, Stages, OpenStages, HoldingStages, LockStages,
              stopVars, processVars
<1>5. CASE SkipWorker(r)
  <2>1. "provider_not_ready" \in Answers /\ "passthrough" \in CounterNames
    BY DEF Answers, Passthroughs, CounterNames
  <2>2. QED
    BY <1>5, <2>1, FinishType, CounterType
       DEF TypeOK, SkipWorker, threadVars, stopVars, processVars
<1>6. CASE CallTimesOut(r)
  <2>1. counters' \in [CounterNames -> Nat]
    BY <1>6, CounterType DEF TypeOK, CallTimesOut, CounterNames
  <2>2. QED
    BY <1>6, <2>1 DEF TypeOK, CallTimesOut, FailWorker, Stages, OpenStages,
              HoldingStages, LockStages, StopStages, threadVars, processVars
<1>7. CASE CallFails(r)
  <2>1. counters' \in [CounterNames -> Nat]
    BY <1>7, CounterType DEF TypeOK, CallFails, CounterNames
  <2>2. QED
    BY <1>7, <2>1 DEF TypeOK, CallFails, FailWorker, Stages, OpenStages,
              HoldingStages, LockStages, StopStages, threadVars, processVars
<1>8. CASE CallLosesDevice(r)
  <2>1. counters' \in [CounterNames -> Nat]
    BY <1>8, CounterType DEF TypeOK, CallLosesDevice, CounterNames
  <2>2. QED
    BY <1>8, <2>1 DEF TypeOK, CallLosesDevice, FailWorker, Stages, OpenStages,
              HoldingStages, LockStages, StopStages, threadVars, processVars
<1>9. CASE CallInvalid(r)
  <2>1. "provider_error" \in Answers /\ "error" \in CounterNames
    BY DEF Answers, Passthroughs, CounterNames
  <2>2. QED
    BY <1>9, <2>1, FinishType, CounterType
       DEF TypeOK, CallInvalid, threadVars, stopVars, processVars
<1>10. CASE CallSucceeds(r)
  <2>1. result[r] \in Answers
    BY <1>10 DEF CallSucceeds, Answers, Passthroughs
  <2>2. counters' \in [CounterNames -> Nat]
    BY <1>10, CounterType DEF TypeOK, CallSucceeds, CounterNames
  <2>3. QED
    BY <1>10, <2>1, <2>2, FinishType
       DEF TypeOK, CallSucceeds, threadVars, stopVars, processVars
<1>11. CASE StopWaitEnds(r)
  <2>1. /\ {"provider_timeout", "worker_failure", "device_lost"} \subseteq Answers
        /\ {"worker_restart", "error"} \subseteq CounterNames
    BY DEF Answers, Passthroughs, CounterNames
  <2>2. counters' \in [CounterNames -> Nat]
    <3>1. Bump("worker_restart") \in [CounterNames -> Nat]
      BY <2>1, CounterType DEF TypeOK
    <3>2. Record("error") \in [CounterNames -> Nat]
      BY <2>1, CounterType DEF TypeOK
    <3>3. QED
      BY <1>11, <3>1, <3>2 DEF StopWaitEnds
  <2>3. PICK outcome \in Answers : Finish(r, outcome)
    BY <1>11, <2>1 DEF StopWaitEnds
  <2>4. QED
    BY <1>11, <2>2, <2>3, FinishType
       DEF TypeOK, StopWaitEnds, threadVars, stopVars, processVars
<1>12. QED
  BY <1>1, <1>2, <1>3, <1>4, <1>5, <1>6, <1>7, <1>8, <1>9, <1>10, <1>11 DEF Handler

\* The steps of its threads keep them.
LEMMA ThreadType ==
    ASSUME TypeOK, BrokerAssumption, NEW r \in Requests,
           RequestThread(r) \/ StopThread(r)
    PROVE  TypeOK'
<1> USE DEF TypeOK, handlerVars, stopVars, processVars, threadVars
<1>1. CASE SendLine(r)
  BY <1>1 DEF SendLine
<1>2. CASE SendFails(r)
  BY <1>2 DEF SendFails, Results
<1>3. CASE AwaitLine(r)
  BY <1>3 DEF AwaitLine, Results
<1>4. CASE TakeLine(r)
  <2>1. Head(lines) \in Line /\ Tail(lines) \in Seq(Line)
    BY <1>4 DEF TakeLine
  <2>2. Understand(r, Head(lines)) \in Results
    BY <2>1 DEF Understand, Line, Results, ReplyKinds
  <2>3. QED
    BY <1>4, <2>1, <2>2 DEF TakeLine
<1>5. CASE ReadTimesOut(r)
  BY <1>5 DEF ReadTimesOut, Results
<1>6. CASE Detach(r)
  BY <1>6 DEF Detach
<1>7. CASE Kill(r)
  BY <1>7 DEF Kill, Terminate, Line, Eof
<1>8. QED
  BY <1>1, <1>2, <1>3, <1>4, <1>5, <1>6, <1>7 DEF RequestThread, StopThread

\* The service's and the worker's own steps keep them.
LEMMA LifespanType ==
    ASSUME TypeOK, BrokerAssumption,
           \/ StartSucceeds \/ StartFails \/ StartupTimesOut \/ Shutdown
           \/ Reply \/ Crash
    PROVE  TypeOK'
<1> USE DEF TypeOK, handlerVars, stopVars, processVars, threadVars
<1>1. CASE StartSucceeds \/ StartFails \/ StartupTimesOut
  BY <1>1 DEF StartSucceeds, StartFails, StartupTimesOut
<1>2. CASE Shutdown
  <2>1. Terminate
    BY <1>2 DEF Shutdown
  <2>2. worker' \in {"absent", "running", "exited"} /\ inbox' \in Seq(Requests)
    BY <2>1 DEF Terminate
  <2>3. lines' \in Seq(Line)
    BY <2>1 DEF Terminate, Line, Eof
  <2>4. QED
    BY <1>2, <2>2, <2>3 DEF Shutdown
<1>3. CASE Reply
  <2>1. PICK kind \in ReplyKinds :
           lines' = Append(lines, [id |-> Head(inbox), kind |-> kind])
    BY <1>3 DEF Reply
  <2>2. [id |-> Head(inbox), kind |-> kind] \in Line
    BY <1>3 DEF Reply, Line
  <2>3. QED
    BY <1>3, <2>1, <2>2 DEF Reply
<1>4. CASE Crash
  BY <1>4 DEF Crash, Terminate, Line, Eof
<1>5. QED
  BY <1>1, <1>2, <1>3, <1>4

\* Every step keeps them.
LEMMA NextType == ASSUME TypeOK, BrokerAssumption, [Next]_vars PROVE TypeOK'
<1>1. ASSUME NEW r \in Requests, Reject(r) \/ Arrive(r)
      PROVE  TypeOK'
  BY <1>1 DEF TypeOK, Reject, Arrive, Stages, OpenStages, threadVars, stopVars, processVars
<1>2. CASE UNCHANGED vars
  BY <1>2 DEF TypeOK, vars, handlerVars, stopVars, processVars, threadVars
<1>3. QED
  BY <1>1, <1>2, HandlerType, ThreadType, LifespanType DEF Next, AtRest

(* Every reachable state is well typed: permits never go negative and no      *)
(* counter, queue or stage leaves its range, whatever the interleaving.       *)
THEOREM TypeCorrect == Spec => []TypeOK
<1>1. Init => TypeOK
  <2> SUFFICES ASSUME Init PROVE TypeOK
    OBVIOUS
  <2>1. permits \in Nat
    BY BrokerAssumption DEF Init, BrokerAssumption
  <2>2. pc \in [Requests -> Stages]
    BY DEF Init, Stages
  <2>3. counters \in [CounterNames -> Nat]
    BY DEF Init
  <2>4. /\ receipts \in Seq([request : Requests, outcome : Answers])
        /\ inbox \in Seq(Requests)
        /\ lines \in Seq(Line)
    BY DEF Init
  <2>5. QED
    BY <2>1, <2>2, <2>3, <2>4 DEF Init, TypeOK, Results
<1>2. TypeOK /\ [Next]_vars => TypeOK'
  BY NextType, BrokerAssumption
<1>3. QED
  BY <1>1, <1>2, PTL DEF Spec

-----------------------------------------------------------------------------
(* Coordination of handlers and threads. OneWorkerCall is not inductive: that  *)
(* an abandoned thread cannot meet a later call rests on readiness being gone  *)
(* before the lock is released, which the last two conjuncts say.              *)

Coordination ==
    /\ phase = "starting" => \A r \in Requests : pc[r] = "new" /\ thread[r] = "none"
    /\ \A r \in Requests : lockHolder = r <=> pc[r] \in LockStages
    /\ \A r \in Requests : pc[r] = "calling" => ready
    /\ \A r \in Requests : LiveThread(r) => pc[r] = "calling" \/ ~ready

\* A request that ends gives the lock back as it should.
LEMMA FinishCoordination ==
    ASSUME TypeOK, Coordination, BrokerAssumption, NEW r \in Requests,
           NEW outcome \in Answers, Finish(r, outcome),
           pc[r] = "lock" \/ pc[r] \in LockStages, ~LiveThread(r) \/ ~ready,
           UNCHANGED <<phase, ready, thread>>
    PROVE  Coordination'
<1>1. outcome \notin LockStages /\ outcome # "calling"
  BY DEF Answers, Passthroughs, LockStages, StopStages
<1>2. pc' = [pc EXCEPT ![r] = outcome] /\ pc \in [Requests -> Stages]
  BY DEF Finish, TypeOK
<1>3. phase' # "starting"
  BY DEF Coordination, LockStages, StopStages
<1>4. \A x \in Requests : lockHolder' = x <=> pc'[x] \in LockStages
  <2>1. lockHolder' = IF lockHolder = r THEN None ELSE lockHolder
    BY DEF Finish
  <2>2. \A x \in Requests : x # None
    BY DEF BrokerAssumption
  <2>3. \A x \in Requests : lockHolder = x <=> pc[x] \in LockStages
    BY DEF Coordination
  <2>4. QED
    BY <1>1, <1>2, <2>1, <2>2, <2>3
<1>5. \A x \in Requests : pc'[x] = "calling" => ready'
  BY <1>1, <1>2 DEF Coordination
<1>6. \A x \in Requests : LiveThread(x)' => pc'[x] = "calling" \/ ~ready'
  BY <1>2 DEF Coordination, LiveThread
<1>7. QED
  BY <1>3, <1>4, <1>5, <1>6 DEF Coordination

\* A failed call keeps the lock until its worker has been stopped.
LEMMA FailCoordination ==
    ASSUME TypeOK, Coordination, NEW r \in Requests, NEW stage \in StopStages,
           pc[r] = "calling", FailWorker(r, stage),
           UNCHANGED <<phase, lockHolder, thread>>
    PROVE  Coordination'
<1>1. pc' = [pc EXCEPT ![r] = stage] /\ pc \in [Requests -> Stages] /\ ~ready'
  BY DEF FailWorker, TypeOK
<1>2. phase' # "starting"
  BY DEF Coordination
<1>3. \A x \in Requests : lockHolder' = x <=> pc'[x] \in LockStages
  BY <1>1 DEF Coordination, LockStages
<1>4. \A x \in Requests : pc'[x] # "calling"
  BY <1>1 DEF Coordination, LockStages, StopStages
<1>5. QED
  BY <1>1, <1>2, <1>3, <1>4 DEF Coordination, LiveThread

\* A handler keeps the coordination of lock, threads and stages.
LEMMA HandlerCoordination ==
    ASSUME TypeOK, Coordination, BrokerAssumption, NEW r \in Requests, Handler(r)
    PROVE  Coordination'
<1>1. CASE AcquireCapacity(r)
  BY <1>1 DEF TypeOK, Coordination, AcquireCapacity, LiveThread, LockStages,
              StopStages, threadVars
<1>2. CASE CapacityTimeout(r)
  BY <1>2 DEF TypeOK, Coordination, CapacityTimeout, LiveThread, LockStages,
              StopStages, threadVars
<1>3. CASE LockTimeout(r) \/ SkipWorker(r)
  <2>1. pc[r] = "lock" /\ (~LiveThread(r) \/ ~ready)
    BY <1>3 DEF LockTimeout, SkipWorker, Coordination
  <2>2. PICK outcome \in Answers : Finish(r, outcome)
    BY <1>3 DEF LockTimeout, SkipWorker, Answers, Passthroughs
  <2>3. UNCHANGED <<phase, ready, thread>>
    BY <1>3 DEF LockTimeout, SkipWorker, threadVars
  <2>4. QED
    BY <2>1, <2>2, <2>3, FinishCoordination
<1>4. CASE CallWorker(r)
  <2>1. \A x \in Requests : x # None
    BY DEF BrokerAssumption
  <2>2. QED
    BY <1>4, <2>1 DEF TypeOK, Coordination, CallWorker, LiveThread, LockStages, StopStages
<1>5. CASE CallTimesOut(r) \/ CallFails(r) \/ CallLosesDevice(r)
  <2>1. PICK stage \in StopStages : FailWorker(r, stage)
    BY <1>5 DEF CallTimesOut, CallFails, CallLosesDevice, StopStages
  <2>2. pc[r] = "calling" /\ UNCHANGED <<phase, lockHolder, thread>>
    BY <1>5 DEF CallTimesOut, CallFails, CallLosesDevice, threadVars
  <2>3. QED
    BY <2>1, <2>2, FailCoordination
<1>6. CASE CallInvalid(r) \/ CallSucceeds(r)
  <2>1. pc[r] \in LockStages /\ ~LiveThread(r)
    BY <1>6 DEF CallInvalid, CallSucceeds, LockStages, LiveThread
  <2>2. PICK outcome \in Answers : Finish(r, outcome)
    BY <1>6 DEF CallInvalid, CallSucceeds, Answers, Passthroughs
  <2>3. UNCHANGED <<phase, ready, thread>>
    BY <1>6 DEF CallInvalid, CallSucceeds, threadVars
  <2>4. QED
    BY <2>1, <2>2, <2>3, FinishCoordination
<1>7. CASE StopWaitEnds(r)
  <2>1. pc[r] \in LockStages /\ (~LiveThread(r) \/ ~ready)
    BY <1>7 DEF StopWaitEnds, Coordination, LockStages, StopStages
  <2>2. PICK outcome \in Answers : Finish(r, outcome)
    BY <1>7 DEF StopWaitEnds, Answers, Passthroughs
  <2>3. UNCHANGED <<phase, ready, thread>>
    BY <1>7 DEF StopWaitEnds, threadVars
  <2>4. QED
    BY <2>1, <2>2, <2>3, FinishCoordination
<1>8. QED
  BY <1>1, <1>2, <1>3, <1>4, <1>5, <1>6, <1>7 DEF Handler

\* So does a thread.
LEMMA ThreadCoordination ==
    ASSUME TypeOK, Coordination, NEW r \in Requests, RequestThread(r) \/ StopThread(r)
    PROVE  Coordination'
<1>1. UNCHANGED <<phase, pc, lockHolder, ready>>
  BY DEF RequestThread, StopThread, SendLine, SendFails, AwaitLine, TakeLine,
         ReadTimesOut, Detach, Kill, handlerVars
<1>2. CASE UNCHANGED thread
  BY <1>1, <1>2 DEF Coordination, LiveThread
<1>3. CASE /\ LiveThread(r)
           /\ \E step \in {"sent", "reading", "returned"} :
                 thread' = [thread EXCEPT ![r] = step]
  BY <1>1, <1>3 DEF TypeOK, Coordination, LiveThread
<1>4. QED
  BY <1>2, <1>3 DEF RequestThread, StopThread, SendLine, SendFails, AwaitLine, TakeLine,
         ReadTimesOut, Detach, Kill, threadVars, LiveThread

\* So does every step.
LEMMA NextCoordination ==
    ASSUME TypeOK, Coordination, BrokerAssumption, [Next]_vars
    PROVE  Coordination'
<1>1. ASSUME NEW r \in Requests, Reject(r) \/ Arrive(r)
      PROVE  Coordination'
  BY <1>1 DEF TypeOK, Coordination, Reject, Arrive, LiveThread, LockStages,
              StopStages, threadVars
<1>2. CASE StartSucceeds \/ StartFails \/ StartupTimesOut
  BY <1>2 DEF Coordination, StartSucceeds, StartFails, StartupTimesOut, LiveThread, threadVars
<1>3. CASE Shutdown
  BY <1>3 DEF TypeOK, Coordination, Shutdown, LiveThread, threadVars, OpenStages,
              HoldingStages, LockStages
<1>4. CASE Reply \/ Crash \/ AtRest \/ UNCHANGED vars
  BY <1>4 DEF Coordination, Reply, Crash, AtRest, LiveThread, vars, handlerVars, threadVars
<1>5. QED
  BY <1>1, <1>2, <1>3, <1>4, HandlerCoordination, ThreadCoordination DEF Next

\* The coordination holds in every state.
LEMMA CoordinationHolds == Spec => []Coordination
<1>1. Init => Coordination
  BY BrokerAssumption DEF Init, Coordination, LiveThread, LockStages, StopStages,
     BrokerAssumption
<1>2. TypeOK /\ Coordination /\ [Next]_vars => Coordination'
  BY NextCoordination, BrokerAssumption
<1>3. QED
  BY <1>1, <1>2, TypeCorrect, PTL DEF Spec

(* However many requests wait and however many calls were abandoned, the       *)
(* worker's pipes carry one conversation at a time.                            *)
THEOREM WorkerCallsExclude == Spec => []OneWorkerCall
<1>1. Coordination => OneWorkerCall
  BY DEF Coordination, OneWorkerCall, LockStages
<1>2. QED
  BY <1>1, CoordinationHolds, PTL

-----------------------------------------------------------------------------
(* The worker's pipes. CleanPipes is not inductive either: that nothing is left *)
(* over for the next call rests on who is responsible for what the pipes hold  *)
(* while the worker is trusted. One line, a request or its answer, belongs to  *)
(* the call whose thread is between writing and reading; a line whose reader   *)
(* has given up belongs to a call that can only end by distrusting the worker, *)
(* because a thread that returned TimeoutError leaves its handler no other way *)
(* on; and nobody stops a worker that is still trusted.                        *)

Mid(r) == thread[r] \in {"sent", "reading"}

\* What is in the pipes is there for the call of r.
Owns(r) ==
    /\ pc[r] = "calling"
    /\ \/ Mid(r) /\ Len(inbox) + Len(lines) = 1
       \/ thread[r] = "returned" /\ result[r] = "timeout"

PipesEmpty == inbox = <<>> /\ lines = <<>>

NobodyStops == \A r \in Requests : stopper[r] = "none"

PipesOwned ==
    /\ phase = "starting" => PipesEmpty /\ NobodyStops /\ worker # "running"
    /\ ready => attached /\ NobodyStops
    /\ ready /\ worker = "running" => PipesEmpty \/ \E r \in Requests : Owns(r)

\* A handler leaves the pipes with their owner.
LEMMA HandlerPipes ==
    ASSUME TypeOK, Coordination, PipesOwned, NEW r \in Requests, Handler(r)
    PROVE  PipesOwned'
<1>1. /\ UNCHANGED <<phase, attached, inbox, lines, worker, result>>
      /\ ready' => ready /\ UNCHANGED stopper
  BY DEF Handler, AcquireCapacity, CapacityTimeout, LockTimeout, CallWorker, SkipWorker,
         CallTimesOut, CallFails, CallLosesDevice, CallInvalid, CallSucceeds,
         StopWaitEnds, FailWorker, threadVars, stopVars, processVars
<1>2. phase # "starting"
  BY DEF Coordination, Handler, AcquireCapacity, CapacityTimeout, LockTimeout, CallWorker,
         SkipWorker, CallTimesOut, CallFails, CallLosesDevice, CallInvalid, CallSucceeds,
         StopWaitEnds
<1>3. \A x \in Requests \ {r} : pc'[x] = pc[x] /\ thread'[x] = thread[x]
  BY DEF TypeOK, Handler, AcquireCapacity, CapacityTimeout, LockTimeout, CallWorker,
         SkipWorker, CallTimesOut, CallFails, CallLosesDevice, CallInvalid, CallSucceeds,
         StopWaitEnds, FailWorker, Finish, threadVars
<1>4. \A x \in Requests \ {r} : Owns(x) => Owns(x)'
  BY <1>1, <1>3 DEF Owns, Mid
<1>5. ~(ready' /\ Owns(r))
  BY DEF Owns, Mid, Handler, AcquireCapacity, CapacityTimeout, LockTimeout, CallWorker,
         SkipWorker, CallTimesOut, CallFails, CallLosesDevice, CallInvalid, CallSucceeds,
         StopWaitEnds, FailWorker
<1>6. ready' /\ worker' = "running" => PipesEmpty' \/ \E x \in Requests : Owns(x)'
  BY <1>1, <1>4, <1>5 DEF PipesOwned, PipesEmpty
<1>7. QED
  BY <1>1, <1>2, <1>6 DEF PipesOwned, NobodyStops

(* While the worker is trusted only the call that waits for it has a thread.   *)
LEMMA LiveIsAlone ==
    ASSUME Coordination, ready, NEW r \in Requests, LiveThread(r),
           NEW x \in Requests, pc[x] = "calling"
    PROVE  x = r
BY DEF Coordination, LockStages

\* A thread touches only the pipes its handler owns.
LEMMA ThreadPipes ==
    ASSUME TypeOK, Coordination, PipesOwned, NEW r \in Requests, RequestThread(r)
    PROVE  PipesOwned'
<1>1. UNCHANGED <<phase, pc, ready, attached, stopper, worker>> /\ LiveThread(r)
  BY DEF RequestThread, SendLine, SendFails, AwaitLine, TakeLine, ReadTimesOut,
         handlerVars, stopVars, processVars, LiveThread
<1>2. phase # "starting"
  BY <1>1 DEF Coordination, LiveThread
<1>3. SUFFICES ASSUME ready, worker = "running"
               PROVE  PipesEmpty' \/ Owns(r)'
  BY <1>1, <1>2 DEF PipesOwned, NobodyStops
<1>4. pc'[r] = "calling" /\ attached /\ (\A x \in Requests : Owns(x) => x = r)
  BY <1>1, <1>3, LiveIsAlone DEF Coordination, PipesOwned, Owns
<1>5. PipesEmpty \/ Owns(r)
  BY <1>3, <1>4 DEF PipesOwned
<1>6. CASE SendLine(r)
  <2>1. PipesEmpty
    BY <1>5, <1>6 DEF SendLine, Owns, Mid
  <2>2. Len(inbox') + Len(lines') = 1
    BY <1>6, <2>1 DEF SendLine, PipesEmpty
  <2>3. QED
    BY <1>4, <1>6, <2>2 DEF SendLine, Owns, Mid, TypeOK
<1>7. CASE SendFails(r)
  BY <1>3, <1>4, <1>7 DEF SendFails
<1>8. CASE AwaitLine(r)
  BY <1>4, <1>5, <1>8 DEF AwaitLine, Owns, Mid, PipesEmpty, processVars, TypeOK
<1>9. CASE TakeLine(r)
  <2>1. Len(inbox) + Len(lines) = 1 /\ lines # <<>>
    BY <1>5, <1>9 DEF TakeLine, Owns, Mid, PipesEmpty
  <2>2. Len(inbox) \in Nat /\ Len(lines) \in Nat /\ Len(lines) # 0
    BY <2>1 DEF TypeOK
  <2>3. inbox = <<>> /\ Tail(lines) = <<>>
    BY <2>1, <2>2 DEF TypeOK
  <2>4. QED
    BY <1>9, <2>3 DEF TakeLine, PipesEmpty
<1>10. CASE ReadTimesOut(r)
  BY <1>4, <1>10 DEF ReadTimesOut, Owns, TypeOK
<1>11. QED
  BY <1>6, <1>7, <1>8, <1>9, <1>10 DEF RequestThread

\* The worker, the service and the stops leave the pipes with theirs.
LEMMA ProcessPipes ==
    ASSUME TypeOK, Coordination, PipesOwned,
           \/ StartSucceeds \/ StartFails \/ StartupTimesOut \/ Shutdown
           \/ Reply \/ Crash \/ \E r \in Requests : StopThread(r)
    PROVE  PipesOwned'
<1>1. CASE StartSucceeds \/ StartFails \/ StartupTimesOut
  BY <1>1 DEF PipesOwned, PipesEmpty, NobodyStops, Coordination,
              StartSucceeds, StartFails, StartupTimesOut, stopVars
<1>2. CASE Shutdown
  BY <1>2 DEF PipesOwned, Shutdown
<1>3. CASE Reply
  <2>1. /\ UNCHANGED <<phase, pc, ready, attached, stopper, worker, thread, result>>
        /\ inbox # <<>> /\ inbox' = Tail(inbox)
        /\ \E line : lines' = Append(lines, line)
    BY <1>3 DEF Reply, handlerVars, stopVars, threadVars
  <2>2. inbox \in Seq(Requests) /\ lines \in Seq(Line)
    BY DEF TypeOK
  <2>3. Len(inbox') = Len(inbox) - 1 /\ Len(inbox) \in Nat
    BY <2>1, <2>2
  <2>4. Len(lines') = Len(lines) + 1 /\ Len(lines) \in Nat
    BY <2>1, <2>2
  <2>5. Len(inbox') + Len(lines') = Len(inbox) + Len(lines)
    BY <2>3, <2>4
  <2>6. \A x \in Requests : Owns(x) => Owns(x)'
    BY <2>1, <2>5 DEF Owns, Mid
  <2>7. ~PipesEmpty
    BY <2>1 DEF PipesEmpty
  <2>8. QED
    BY <2>1, <2>6, <2>7 DEF PipesOwned, NobodyStops
<1>4. CASE Crash
  <2>1. UNCHANGED <<phase, ready, attached, stopper>>
    BY <1>4 DEF Crash, handlerVars, stopVars
  <2>2. worker = "running" /\ worker' # "running"
    BY <1>4 DEF Crash, Terminate
  <2>3. QED
    BY <2>1, <2>2 DEF PipesOwned, NobodyStops
<1>5. ASSUME NEW r \in Requests, StopThread(r)
      PROVE  PipesOwned'
  <2>1. stopper[r] # "none" /\ UNCHANGED <<phase, ready>>
    BY <1>5 DEF StopThread, Detach, Kill, handlerVars
  <2>2. QED
    BY <2>1 DEF PipesOwned, NobodyStops
<1>6. QED
  BY <1>1, <1>2, <1>3, <1>4, <1>5

\* Every step does.
LEMMA NextPipes ==
    ASSUME TypeOK, Coordination, PipesOwned, [Next]_vars
    PROVE  PipesOwned'
<1>1. ASSUME NEW r \in Requests, Reject(r) \/ Arrive(r)
      PROVE  PipesOwned'
  <2>1. /\ UNCHANGED <<phase, ready, attached, stopper, worker, inbox, lines, thread, result>>
        /\ \A x \in Requests : pc[x] = "calling" => pc'[x] = "calling"
    BY <1>1 DEF TypeOK, Reject, Arrive, stopVars, threadVars, processVars
  <2>2. QED
    BY <2>1 DEF PipesOwned, PipesEmpty, NobodyStops, Owns, Mid
<1>2. CASE AtRest \/ UNCHANGED vars
  BY <1>2 DEF AtRest, vars, handlerVars, threadVars, stopVars, processVars,
              PipesOwned, PipesEmpty, NobodyStops, Owns, Mid
<1>3. QED
  BY <1>1, <1>2, HandlerPipes, ThreadPipes, ProcessPipes DEF Next

\* The pipes have the right owner in every state.
LEMMA PipesHold == Spec => []PipesOwned
<1>1. Init => PipesOwned
  BY DEF Init, PipesOwned, PipesEmpty, NobodyStops
<1>2. TypeOK /\ Coordination /\ PipesOwned /\ [Next]_vars => PipesOwned'
  BY NextPipes
<1>3. QED
  BY <1>1, <1>2, TypeCorrect, CoordinationHolds, PTL DEF Spec

(* However earlier calls ended, in time, late, with a lost line or with one    *)
(* nobody read, a call that starts finds the worker's pipes empty: it can only *)
(* be given its own answer.                                                    *)
THEOREM CallsStartClean == Spec => []CleanPipes
<1>1. Coordination /\ PipesOwned => CleanPipes
  <2> SUFFICES ASSUME Coordination, PipesOwned, NEW r \in Requests,
                      pc[r] = "calling", thread[r] = "queued", worker = "running"
               PROVE  PipesEmpty
    BY DEF CleanPipes, PipesEmpty
  <2>1. ready /\ \A x \in Requests : pc[x] = "calling" => x = r
    BY LiveIsAlone DEF Coordination, LiveThread
  <2>2. ~Owns(r)
    BY DEF Owns, Mid
  <2>3. QED
    BY <2>1, <2>2 DEF PipesOwned, Owns
<1>2. QED
  BY <1>1, CoordinationHolds, PipesHold, PTL

-----------------------------------------------------------------------------
(* Counting. Both the permits and the counters are the number of handlers that *)
(* stand in some set of stages, and a step moves at most one handler.          *)

At(stages) == {x \in Requests : pc[x] \in stages}

\* The requests at any stages are finitely many.
LEMMA AtFinite ==
    ASSUME BrokerAssumption, NEW stages
    PROVE  IsFiniteSet(At(stages)) /\ Cardinality(At(stages)) \in Nat
BY FS_Subset, FS_CardinalityType DEF At, BrokerAssumption

\* A request that moves from one stage to another moves those counts by one.
LEMMA AtMoves ==
    ASSUME BrokerAssumption, pc \in [Requests -> Stages],
           NEW r \in Requests, NEW b, pc' = [pc EXCEPT ![r] = b], NEW stages
    PROVE  /\ (pc[r] \in stages <=> b \in stages)
                 => Cardinality(At(stages))' = Cardinality(At(stages))
           /\ pc[r] \notin stages /\ b \in stages
                 => Cardinality(At(stages))' = Cardinality(At(stages)) + 1
           /\ pc[r] \in stages /\ b \notin stages
                 => Cardinality(At(stages))' = Cardinality(At(stages)) - 1
<1>1. CASE pc[r] \in stages <=> b \in stages
  <2>1. At(stages)' = At(stages)
    BY <1>1 DEF At
  <2>2. QED
    BY <1>1, <2>1
<1>2. CASE pc[r] \notin stages /\ b \in stages
  <2>1. At(stages)' = At(stages) \cup {r} /\ r \notin At(stages)
    BY <1>2 DEF At
  <2>2. QED
    BY <1>2, <2>1, AtFinite, FS_AddElement
<1>3. CASE pc[r] \in stages /\ b \notin stages
  <2>1. At(stages)' = At(stages) \ {r} /\ r \in At(stages)
    BY <1>3 DEF At
  <2>2. QED
    BY <1>3, <2>1, AtFinite, FS_RemoveElement
<1>4. QED
  BY <1>1, <1>2, <1>3

\* Every step keeps permits and holders in balance.
LEMMA PermitStep ==
    ASSUME BrokerAssumption, TypeOK, PermitsConserved, [Next]_vars
    PROVE  PermitsConserved'
<1> DEFINE Balanced == permits + Cardinality(At(HoldingStages)) = QueueLimit + 1
<1>0. /\ PermitsConserved = Balanced /\ PermitsConserved' = Balanced'
      /\ Balanced /\ pc \in [Requests -> Stages] /\ permits \in Nat
      /\ Cardinality(At(HoldingStages)) \in Nat /\ QueueLimit \in Nat
  BY AtFinite DEF PermitsConserved, At, TypeOK, BrokerAssumption
<1>1. CASE UNCHANGED <<pc, permits>>
  BY <1>0, <1>1 DEF At
<1>2. ASSUME NEW r \in Requests, NEW b,
             pc' = [pc EXCEPT ![r] = b],
             \/ permits' = permits /\ (pc[r] \in HoldingStages <=> b \in HoldingStages)
             \/ permits' = permits - 1 /\ pc[r] \notin HoldingStages /\ b \in HoldingStages
             \/ permits' = permits + 1 /\ pc[r] \in HoldingStages /\ b \notin HoldingStages
      PROVE  Balanced'
  <2>1. /\ (pc[r] \in HoldingStages <=> b \in HoldingStages)
              => Cardinality(At(HoldingStages))' = Cardinality(At(HoldingStages))
        /\ pc[r] \notin HoldingStages /\ b \in HoldingStages
              => Cardinality(At(HoldingStages))' = Cardinality(At(HoldingStages)) + 1
        /\ pc[r] \in HoldingStages /\ b \notin HoldingStages
              => Cardinality(At(HoldingStages))' = Cardinality(At(HoldingStages)) - 1
    BY <1>0, <1>2, AtMoves
  <2>2. QED
    BY <1>0, <1>2, <2>1
<1>3. ASSUME NEW r \in Requests, Reject(r) \/ Arrive(r) \/ Handler(r)
      PROVE  Balanced'
  <2>1. CASE Reject(r) \/ Arrive(r) \/ CapacityTimeout(r) \/ CallWorker(r)
    BY <2>1, <1>2 DEF Reject, Arrive, CapacityTimeout, CallWorker, HoldingStages,
                      LockStages, StopStages
  <2>2. CASE AcquireCapacity(r)
    BY <2>2, <1>2 DEF AcquireCapacity, HoldingStages, LockStages, StopStages
  <2>3. CASE CallTimesOut(r) \/ CallFails(r) \/ CallLosesDevice(r)
    BY <2>3, <1>2 DEF CallTimesOut, CallFails, CallLosesDevice, FailWorker,
                      HoldingStages, LockStages, StopStages
  <2>4. CASE \/ LockTimeout(r) \/ SkipWorker(r) \/ CallInvalid(r) \/ CallSucceeds(r)
             \/ StopWaitEnds(r)
    <3>1. pc[r] \in HoldingStages
      BY <2>4 DEF LockTimeout, SkipWorker, CallInvalid, CallSucceeds, StopWaitEnds,
                  HoldingStages, LockStages, StopStages
    <3>2. PICK outcome \in Answers : Finish(r, outcome)
      BY <2>4 DEF LockTimeout, SkipWorker, CallInvalid, CallSucceeds, StopWaitEnds,
                  Answers, Passthroughs
    <3>3. outcome \notin HoldingStages
      BY DEF Answers, Passthroughs, HoldingStages, LockStages, StopStages
    <3>4. QED
      BY <1>2, <3>1, <3>2, <3>3 DEF Finish
  <2>5. QED
    BY <1>3, <2>1, <2>2, <2>3, <2>4 DEF Handler
<1>4. CASE \E r \in Requests : RequestThread(r) \/ StopThread(r)
  BY <1>4, <1>1 DEF RequestThread, StopThread, SendLine, SendFails, AwaitLine, TakeLine,
         ReadTimesOut, Detach, Kill, handlerVars
<1>5. CASE \/ StartSucceeds \/ StartFails \/ StartupTimesOut \/ Shutdown
           \/ Reply \/ Crash \/ AtRest \/ UNCHANGED vars
  BY <1>5, <1>1 DEF StartSucceeds, StartFails, StartupTimesOut, Shutdown, Reply, Crash,
         AtRest, vars, handlerVars
<1>6. QED
  BY <1>0, <1>3, <1>4, <1>5 DEF Next

(* No way out of the handler loses a permit or returns one twice, so the       *)
(* broker never ends up refusing everybody with an idle worker.                *)
THEOREM PermitsAreConserved == Spec => []PermitsConserved
<1>1. Init => PermitsConserved
  <2> SUFFICES ASSUME Init PROVE PermitsConserved
    OBVIOUS
  <2>1. {r \in Requests : pc[r] \in HoldingStages} = {}
    BY DEF Init, HoldingStages, LockStages, StopStages
  <2>2. Cardinality({r \in Requests : pc[r] \in HoldingStages}) = 0
    BY <2>1, FS_EmptySet
  <2>3. QED
    BY <2>2, BrokerAssumption DEF Init, PermitsConserved, BrokerAssumption
<1>2. TypeOK /\ PermitsConserved /\ [Next]_vars => PermitsConserved'
  BY PermitStep, BrokerAssumption
<1>3. QED
  BY <1>1, <1>2, TypeCorrect, PTL DEF Spec

-----------------------------------------------------------------------------
(* The counters. A step that moves one handler is balanced when it adds one to *)
(* exactly the counters that charge its new stage and not its old one.         *)

Balances(r, stage) ==
    /\ pc' = [pc EXCEPT ![r] = stage]
    /\ \A n \in CounterNames :
          /\ pc[r] \in ChargedIn[n] => stage \in ChargedIn[n]
          /\ counters'[n] = IF stage \in ChargedIn[n] /\ pc[r] \notin ChargedIn[n]
                            THEN counters[n] + 1 ELSE counters[n]

\* A counter raised with the step of its request stays exact.
LEMMA BalancedCounters ==
    ASSUME BrokerAssumption, TypeOK, CountersExact,
           NEW r \in Requests, NEW stage, Balances(r, stage)
    PROVE  CountersExact'
<1>1. \A n \in CounterNames : counters[n] = Cardinality(At(ChargedIn[n]))
  BY DEF CountersExact, At
<1>2. ASSUME NEW n \in CounterNames
      PROVE  counters'[n] = Cardinality(At(ChargedIn[n]))'
  <2>1. pc \in [Requests -> Stages] /\ pc' = [pc EXCEPT ![r] = stage]
    BY DEF TypeOK, Balances
  <2>2. CASE stage \in ChargedIn[n] /\ pc[r] \notin ChargedIn[n]
    <3>1. Cardinality(At(ChargedIn[n]))' = Cardinality(At(ChargedIn[n])) + 1
      BY <2>1, <2>2, AtMoves
    <3>2. QED
      BY <1>1, <2>2, <3>1 DEF Balances
  <2>3. CASE ~(stage \in ChargedIn[n] /\ pc[r] \notin ChargedIn[n])
    <3>1. pc[r] \in ChargedIn[n] <=> stage \in ChargedIn[n]
      BY <2>3 DEF Balances
    <3>2. Cardinality(At(ChargedIn[n]))' = Cardinality(At(ChargedIn[n]))
      BY <2>1, <3>1, AtMoves
    <3>3. QED
      BY <1>1, <2>3, <3>2 DEF Balances
  <2>4. QED
    BY <2>2, <2>3
<1>3. QED
  BY <1>2 DEF CountersExact, At

(* Which counters charge the stages a handler leaves or enters. *)
(* What a record or a bump does to each counter. *)
LEMMA RecordEffect ==
    ASSUME TypeOK, NEW name \in CounterNames \ {"total"}
    PROVE  \A n \in CounterNames :
              Record(name)[n] = IF n \in {"total", name} THEN counters[n] + 1 ELSE counters[n]
BY DEF Record, TypeOK, CounterNames

\* What a bump does to every counter.
LEMMA BumpEffect ==
    ASSUME TypeOK, NEW name \in CounterNames
    PROVE  \A n \in CounterNames :
              Bump(name)[n] = IF n \in {name} THEN counters[n] + 1 ELSE counters[n]
BY DEF Bump, TypeOK, CounterNames

(* The branches of the handler, each with the stage it ends in. *)
LEMMA HandlerBalances ==
    ASSUME TypeOK, NEW r \in Requests, Reject(r) \/ Arrive(r) \/ Handler(r)
    PROVE  \E stage : Balances(r, stage)
<1>1. CASE Reject(r) \/ Arrive(r) \/ AcquireCapacity(r) \/ CallWorker(r)
  <2>1. \A n \in CounterNames : ChargedIn[n] \cap
           {"new", "rejected", "capacity", "lock", "calling"} = {}
    BY DEF CounterNames, ChargedIn, Answers, Passthroughs
  <2>2. /\ pc[r] \in {"new", "capacity", "lock"}
        /\ counters' = counters
        /\ \E stage \in {"rejected", "capacity", "lock", "calling"} :
              pc' = [pc EXCEPT ![r] = stage]
    BY <1>1 DEF Reject, Arrive, AcquireCapacity, CallWorker
  <2>3. QED
    BY <2>1, <2>2 DEF Balances
<1>2. CASE CapacityTimeout(r)
  <2>1. /\ pc[r] = "capacity" /\ pc' = [pc EXCEPT ![r] = "queue_full"]
        /\ counters' = Record("queue_full")
    BY <1>2 DEF CapacityTimeout
  <2>2. \A n \in CounterNames :
           /\ "capacity" \in ChargedIn[n] => "queue_full" \in ChargedIn[n]
           /\ "queue_full" \in ChargedIn[n] /\ "capacity" \notin ChargedIn[n] <=> n \in {"total", "queue_full"}
    BY DEF CounterNames, ChargedIn, Answers, Passthroughs
  <2>3. \A n \in CounterNames :
           counters'[n] = IF n \in {"total", "queue_full"} THEN counters[n] + 1 ELSE counters[n]
    BY <2>1, RecordEffect DEF CounterNames
  <2>4. Balances(r, "queue_full")
    BY <2>1, <2>2, <2>3 DEF Balances
  <2>5. QED
    BY <2>4
<1>3. CASE LockTimeout(r)
  <2>1. /\ pc[r] = "lock" /\ pc' = [pc EXCEPT ![r] = "queue_full"]
        /\ counters' = Record("queue_full")
    BY <1>3 DEF LockTimeout, Finish
  <2>2. \A n \in CounterNames :
           /\ "lock" \in ChargedIn[n] => "queue_full" \in ChargedIn[n]
           /\ "queue_full" \in ChargedIn[n] /\ "lock" \notin ChargedIn[n] <=> n \in {"total", "queue_full"}
    BY DEF CounterNames, ChargedIn, Answers, Passthroughs
  <2>3. \A n \in CounterNames :
           counters'[n] = IF n \in {"total", "queue_full"} THEN counters[n] + 1 ELSE counters[n]
    BY <2>1, RecordEffect DEF CounterNames
  <2>4. Balances(r, "queue_full")
    BY <2>1, <2>2, <2>3 DEF Balances
  <2>5. QED
    BY <2>4
<1>4. CASE SkipWorker(r)
  <2>1. /\ pc[r] = "lock" /\ pc' = [pc EXCEPT ![r] = "provider_not_ready"]
        /\ counters' = Record("passthrough")
    BY <1>4 DEF SkipWorker, Finish
  <2>2. \A n \in CounterNames :
           /\ "lock" \in ChargedIn[n] => "provider_not_ready" \in ChargedIn[n]
           /\ "provider_not_ready" \in ChargedIn[n] /\ "lock" \notin ChargedIn[n] <=> n \in {"total", "passthrough"}
    BY DEF CounterNames, ChargedIn, Answers, Passthroughs
  <2>3. \A n \in CounterNames :
           counters'[n] = IF n \in {"total", "passthrough"} THEN counters[n] + 1 ELSE counters[n]
    BY <2>1, RecordEffect DEF CounterNames
  <2>4. Balances(r, "provider_not_ready")
    BY <2>1, <2>2, <2>3 DEF Balances
  <2>5. QED
    BY <2>4
<1>5. CASE CallTimesOut(r)
  <2>1. /\ pc[r] = "calling" /\ pc' = [pc EXCEPT ![r] = "stop_timeout"]
        /\ counters' = Record("timeout")
    BY <1>5 DEF CallTimesOut, FailWorker
  <2>2. \A n \in CounterNames :
           /\ "calling" \in ChargedIn[n] => "stop_timeout" \in ChargedIn[n]
           /\ "stop_timeout" \in ChargedIn[n] /\ "calling" \notin ChargedIn[n] <=> n \in {"total", "timeout"}
    BY DEF CounterNames, ChargedIn, Answers, Passthroughs
  <2>3. \A n \in CounterNames :
           counters'[n] = IF n \in {"total", "timeout"} THEN counters[n] + 1 ELSE counters[n]
    BY <2>1, RecordEffect DEF CounterNames
  <2>4. Balances(r, "stop_timeout")
    BY <2>1, <2>2, <2>3 DEF Balances
  <2>5. QED
    BY <2>4
<1>6. CASE CallFails(r)
  <2>1. /\ pc[r] = "calling" /\ pc' = [pc EXCEPT ![r] = "stop_error"]
        /\ counters' = Record("error")
    BY <1>6 DEF CallFails, FailWorker
  <2>2. \A n \in CounterNames :
           /\ "calling" \in ChargedIn[n] => "stop_error" \in ChargedIn[n]
           /\ "stop_error" \in ChargedIn[n] /\ "calling" \notin ChargedIn[n] <=> n \in {"total", "error"}
    BY DEF CounterNames, ChargedIn, Answers, Passthroughs
  <2>3. \A n \in CounterNames :
           counters'[n] = IF n \in {"total", "error"} THEN counters[n] + 1 ELSE counters[n]
    BY <2>1, RecordEffect DEF CounterNames
  <2>4. Balances(r, "stop_error")
    BY <2>1, <2>2, <2>3 DEF Balances
  <2>5. QED
    BY <2>4
<1>7. CASE CallLosesDevice(r)
  <2>1. /\ pc[r] = "calling" /\ pc' = [pc EXCEPT ![r] = "stop_device"]
        /\ counters' = Bump("device_removal")
    BY <1>7 DEF CallLosesDevice, FailWorker
  <2>2. \A n \in CounterNames :
           /\ "calling" \in ChargedIn[n] => "stop_device" \in ChargedIn[n]
           /\ "stop_device" \in ChargedIn[n] /\ "calling" \notin ChargedIn[n] <=> n \in {"device_removal"}
    BY DEF CounterNames, ChargedIn, Answers, Passthroughs
  <2>3. \A n \in CounterNames :
           counters'[n] = IF n \in {"device_removal"} THEN counters[n] + 1 ELSE counters[n]
    BY <2>1, BumpEffect DEF CounterNames
  <2>4. Balances(r, "stop_device")
    BY <2>1, <2>2, <2>3 DEF Balances
  <2>5. QED
    BY <2>4
<1>8. CASE CallInvalid(r)
  <2>1. /\ pc[r] = "calling" /\ pc' = [pc EXCEPT ![r] = "provider_error"]
        /\ counters' = Record("error")
    BY <1>8 DEF CallInvalid, Finish
  <2>2. \A n \in CounterNames :
           /\ "calling" \in ChargedIn[n] => "provider_error" \in ChargedIn[n]
           /\ "provider_error" \in ChargedIn[n] /\ "calling" \notin ChargedIn[n] <=> n \in {"total", "error"}
    BY DEF CounterNames, ChargedIn, Answers, Passthroughs
  <2>3. \A n \in CounterNames :
           counters'[n] = IF n \in {"total", "error"} THEN counters[n] + 1 ELSE counters[n]
    BY <2>1, RecordEffect DEF CounterNames
  <2>4. Balances(r, "provider_error")
    BY <2>1, <2>2, <2>3 DEF Balances
  <2>5. QED
    BY <2>4
<1>9. CASE CallSucceeds(r)
  <2>1. CASE result[r] = "compressed"
    <3>1. /\ pc[r] = "calling" /\ pc' = [pc EXCEPT ![r] = "compressed"]
          /\ counters' = Record("compressed")
      BY <1>9, <2>1 DEF CallSucceeds, Finish
    <3>2. \A n \in CounterNames :
             /\ "calling" \in ChargedIn[n] => "compressed" \in ChargedIn[n]
             /\ "compressed" \in ChargedIn[n] /\ "calling" \notin ChargedIn[n] <=> n \in {"total", "compressed"}
      BY DEF CounterNames, ChargedIn, Answers, Passthroughs
    <3>3. \A n \in CounterNames :
             counters'[n] = IF n \in {"total", "compressed"} THEN counters[n] + 1 ELSE counters[n]
      BY <3>1, RecordEffect DEF CounterNames
    <3>4. Balances(r, "compressed")
      BY <3>1, <3>2, <3>3 DEF Balances
    <3>5. QED
      BY <3>4
  <2>2. CASE result[r] = "same"
    <3>1. /\ pc[r] = "calling" /\ pc' = [pc EXCEPT ![r] = "same"]
          /\ counters' = Record("passthrough")
      BY <1>9, <2>2 DEF CallSucceeds, Finish
    <3>2. \A n \in CounterNames :
             /\ "calling" \in ChargedIn[n] => "same" \in ChargedIn[n]
             /\ "same" \in ChargedIn[n] /\ "calling" \notin ChargedIn[n] <=> n \in {"total", "passthrough"}
      BY DEF CounterNames, ChargedIn, Answers, Passthroughs
    <3>3. \A n \in CounterNames :
             counters'[n] = IF n \in {"total", "passthrough"} THEN counters[n] + 1 ELSE counters[n]
      BY <3>1, RecordEffect DEF CounterNames
    <3>4. Balances(r, "same")
      BY <3>1, <3>2, <3>3 DEF Balances
    <3>5. QED
      BY <3>4
  <2>3. QED
    BY <1>9, <2>1, <2>2 DEF CallSucceeds
<1>10. CASE StopWaitEnds(r)
  <2>1. CASE pc[r] = "stop_timeout"
    <3>1. /\ pc[r] = "stop_timeout" /\ pc' = [pc EXCEPT ![r] = "provider_timeout"]
          /\ counters' = Bump("worker_restart")
      BY <1>10, <2>1 DEF StopWaitEnds, Finish
    <3>2. \A n \in CounterNames :
             /\ "stop_timeout" \in ChargedIn[n] => "provider_timeout" \in ChargedIn[n]
             /\ "provider_timeout" \in ChargedIn[n] /\ "stop_timeout" \notin ChargedIn[n] <=> n \in {"worker_restart"}
      BY DEF CounterNames, ChargedIn, Answers, Passthroughs
    <3>3. \A n \in CounterNames :
             counters'[n] = IF n \in {"worker_restart"} THEN counters[n] + 1 ELSE counters[n]
      BY <3>1, BumpEffect DEF CounterNames
    <3>4. Balances(r, "provider_timeout")
      BY <3>1, <3>2, <3>3 DEF Balances
    <3>5. QED
      BY <3>4
  <2>2. CASE pc[r] = "stop_error"
    <3>1. /\ pc[r] = "stop_error" /\ pc' = [pc EXCEPT ![r] = "worker_failure"]
          /\ counters' = Bump("worker_restart")
      BY <1>10, <2>2 DEF StopWaitEnds, Finish
    <3>2. \A n \in CounterNames :
             /\ "stop_error" \in ChargedIn[n] => "worker_failure" \in ChargedIn[n]
             /\ "worker_failure" \in ChargedIn[n] /\ "stop_error" \notin ChargedIn[n] <=> n \in {"worker_restart"}
      BY DEF CounterNames, ChargedIn, Answers, Passthroughs
    <3>3. \A n \in CounterNames :
             counters'[n] = IF n \in {"worker_restart"} THEN counters[n] + 1 ELSE counters[n]
      BY <3>1, BumpEffect DEF CounterNames
    <3>4. Balances(r, "worker_failure")
      BY <3>1, <3>2, <3>3 DEF Balances
    <3>5. QED
      BY <3>4
  <2>3. CASE pc[r] = "stop_device"
    <3>1. /\ pc[r] = "stop_device" /\ pc' = [pc EXCEPT ![r] = "device_lost"]
          /\ counters' = Record("error")
      BY <1>10, <2>3 DEF StopWaitEnds, Finish
    <3>2. \A n \in CounterNames :
             /\ "stop_device" \in ChargedIn[n] => "device_lost" \in ChargedIn[n]
             /\ "device_lost" \in ChargedIn[n] /\ "stop_device" \notin ChargedIn[n] <=> n \in {"total", "error"}
      BY DEF CounterNames, ChargedIn, Answers, Passthroughs
    <3>3. \A n \in CounterNames :
             counters'[n] = IF n \in {"total", "error"} THEN counters[n] + 1 ELSE counters[n]
      BY <3>1, RecordEffect DEF CounterNames
    <3>4. Balances(r, "device_lost")
      BY <3>1, <3>2, <3>3 DEF Balances
    <3>5. QED
      BY <3>4
  <2>4. QED
    BY <1>10, <2>1, <2>2, <2>3 DEF StopWaitEnds
<1>11. QED
  BY <1>1, <1>2, <1>3, <1>4, <1>5, <1>6, <1>7, <1>8, <1>9, <1>10 DEF Handler

\* Every step keeps the counters exact.
LEMMA CounterStep ==
    ASSUME BrokerAssumption, TypeOK, CountersExact, [Next]_vars
    PROVE  CountersExact'
<1>1. CASE UNCHANGED <<pc, counters>>
  BY <1>1 DEF CountersExact
<1>2. ASSUME NEW r \in Requests, Reject(r) \/ Arrive(r) \/ Handler(r)
      PROVE  CountersExact'
  BY <1>2, HandlerBalances, BalancedCounters
<1>3. CASE \E r \in Requests : RequestThread(r) \/ StopThread(r)
  BY <1>3, <1>1 DEF RequestThread, StopThread, SendLine, SendFails, AwaitLine, TakeLine,
         ReadTimesOut, Detach, Kill, handlerVars
<1>4. CASE \/ StartSucceeds \/ StartFails \/ StartupTimesOut \/ Shutdown
           \/ Reply \/ Crash \/ AtRest \/ UNCHANGED vars
  BY <1>4, <1>1 DEF StartSucceeds, StartFails, StartupTimesOut, Shutdown, Reply, Crash,
         AtRest, vars, handlerVars
<1>5. QED
  BY <1>2, <1>3, <1>4 DEF Next

(* The counters of /health are exact at every moment, although a timeout and   *)
(* an error are charged before the worker is stopped and a device loss after.  *)
THEOREM CountersAreExact == Spec => []CountersExact
<1>1. Init => CountersExact
  <2> SUFFICES ASSUME Init, NEW n \in CounterNames
               PROVE  counters[n] = Cardinality({r \in Requests : pc[r] \in ChargedIn[n]})
    BY DEF CountersExact
  <2>1. "new" \notin ChargedIn[n]
    BY DEF CounterNames, ChargedIn, Answers, Passthroughs
  <2>2. {r \in Requests : pc[r] \in ChargedIn[n]} = {}
    BY <2>1 DEF Init
  <2>3. QED
    BY <2>2, FS_EmptySet DEF Init
<1>2. TypeOK /\ CountersExact /\ [Next]_vars => CountersExact'
  BY CounterStep, BrokerAssumption
<1>3. QED
  BY <1>1, <1>2, TypeCorrect, PTL DEF Spec

-----------------------------------------------------------------------------
(* The receipts. *)

Kept(n) == IF n < ReceiptLimit THEN n ELSE ReceiptLimit

\* ReceiptsExact over At, so that AtMoves applies.
ReceiptsMatch ==
    /\ Len(receipts) = Kept(Cardinality(At(Answers)))
    /\ \A i \in DOMAIN receipts : pc[receipts[i].request] = receipts[i].outcome
    /\ \A i, j \in DOMAIN receipts :
          receipts[i].request = receipts[j].request => i = j

(* What one more receipt makes of the trail: the new one is last, the others   *)
(* keep their order, and the oldest goes when the limit is passed.             *)
LEMMA ReceiptContents ==
    ASSUME BrokerAssumption, TypeOK, Len(receipts) <= ReceiptLimit,
           NEW r \in Requests, NEW outcome \in Answers
    PROVE  LET n == Len(receipts)
               drop == IF n < ReceiptLimit THEN 0 ELSE 1
           IN  /\ DOMAIN Receipt(r, outcome) = 1 .. Len(Receipt(r, outcome))
               /\ Len(Receipt(r, outcome)) = n + 1 - drop
               /\ \A i \in 1 .. n + 1 - drop :
                     Receipt(r, outcome)[i] =
                        IF i + drop <= n THEN receipts[i + drop]
                        ELSE [request |-> r, outcome |-> outcome]
<1> DEFINE Entry == [request : Requests, outcome : Answers]
           new   == [request |-> r, outcome |-> outcome]
           trail == Append(receipts, new)
           n     == Len(receipts)
           drop  == IF n < ReceiptLimit THEN 0 ELSE 1
<1>1. /\ receipts \in Seq(Entry) /\ new \in Entry /\ n \in Nat
      /\ ReceiptLimit \in Nat \ {0}
  BY DEF TypeOK, BrokerAssumption
<1>2. /\ trail \in Seq(Entry) /\ Len(trail) = n + 1
      /\ \A i \in 1 .. n : trail[i] = receipts[i]
      /\ trail[n + 1] = new
  <2> HIDE DEF Entry, new
  <2>1. QED
    BY <1>1
<1>3. drop = IF Len(trail) > ReceiptLimit THEN Len(trail) - ReceiptLimit ELSE 0
  <2> HIDE DEF trail, n
  <2>1. n <= ReceiptLimit
    BY DEF n
  <2>2. QED
    BY <1>1, <1>2, <2>1
<1>4. Receipt(r, outcome) = SubSeq(trail, drop + 1, n + 1)
  <2> HIDE DEF drop, n
  <2>1. QED
    BY <1>2, <1>3 DEF Receipt
<1>5. /\ DOMAIN SubSeq(trail, drop + 1, n + 1) = 1 .. Len(SubSeq(trail, drop + 1, n + 1))
      /\ Len(SubSeq(trail, drop + 1, n + 1)) = n + 1 - drop
      /\ \A i \in 1 .. n + 1 - drop : SubSeq(trail, drop + 1, n + 1)[i] = trail[i + drop]
  <2>1. drop \in 0 .. 1
    OBVIOUS
  <2> HIDE DEF trail, drop, n, Entry
  <2>2. \A i \in drop + 1 .. n + 1 : trail[i] \in Entry
    <3>1. \A i \in drop + 1 .. n + 1 : i \in 1 .. Len(trail)
      BY <1>1, <1>2, <2>1
    <3>2. QED
      BY <1>2, <3>1, ElementOfSeq
  <2>3. /\ SubSeq(trail, drop + 1, n + 1) \in Seq(Entry)
        /\ Len(SubSeq(trail, drop + 1, n + 1)) =
              IF drop + 1 <= n + 1 THEN (n + 1) - (drop + 1) + 1 ELSE 0
        /\ \A i \in 1 .. (n + 1) - (drop + 1) + 1 :
              SubSeq(trail, drop + 1, n + 1)[i] = trail[(drop + 1) + i - 1]
    BY <1>1, <2>1, <2>2, SubSeqProperties
  <2>4. QED
    BY <1>1, <2>1, <2>3
<1>6. QED
  <2> HIDE DEF trail, new, Entry
  <2>1. \A i \in 1 .. n + 1 - drop :
           trail[i + drop] = IF i + drop <= n THEN receipts[i + drop] ELSE new
    BY <1>1, <1>2
  <2>2. \A i \in 1 .. n + 1 - drop :
           Receipt(r, outcome)[i] = IF i + drop <= n THEN receipts[i + drop] ELSE new
    <3> HIDE DEF n, drop
    <3>1. QED
      BY <1>4, <1>5, <2>1
  <2>3. QED
    BY <1>4, <1>5, <2>2 DEF new

\* Every receipt names a request and one of its outcomes.
LEMMA EntriesTyped ==
    ASSUME TypeOK
    PROVE  /\ DOMAIN receipts = 1 .. Len(receipts)
           /\ \A i \in 1 .. Len(receipts) :
                 receipts[i] \in [request : Requests, outcome : Answers]
<1> DEFINE Entry == [request : Requests, outcome : Answers]
<1>1. receipts \in Seq(Entry)
  BY DEF TypeOK
<1> HIDE DEF Entry
<1>2. DOMAIN receipts = 1 .. Len(receipts) /\ \A i \in 1 .. Len(receipts) : receipts[i] \in Entry
  BY <1>1
<1>3. QED
  BY <1>2 DEF Entry

(* An answer adds its receipt and disturbs no other.                           *)
LEMMA AnswerReceipts ==
    ASSUME BrokerAssumption, TypeOK, ReceiptsMatch, NEW r \in Requests,
           NEW outcome \in Answers, pc[r] \notin Answers,
           pc' = [pc EXCEPT ![r] = outcome], receipts' = Receipt(r, outcome)
    PROVE  ReceiptsMatch'
<1> DEFINE n    == Len(receipts)
           drop == IF n < ReceiptLimit THEN 0 ELSE 1
           c    == Cardinality(At(Answers))
<1>1. /\ n \in Nat /\ ReceiptLimit \in Nat \ {0} /\ c \in Nat /\ n = Kept(c)
      /\ n <= ReceiptLimit
      /\ DOMAIN receipts = 1 .. n
      /\ \A i \in 1 .. n : receipts[i] \in [request : Requests, outcome : Answers]
  <2>1. n \in Nat /\ ReceiptLimit \in Nat \ {0} /\ c \in Nat /\ n = Kept(c)
    BY AtFinite DEF TypeOK, BrokerAssumption, ReceiptsMatch
  <2>2. n <= ReceiptLimit
    BY <2>1 DEF Kept
  <2>3. /\ DOMAIN receipts = 1 .. n
        /\ \A i \in 1 .. n : receipts[i] \in [request : Requests, outcome : Answers]
    BY EntriesTyped
  <2>4. QED
    BY <2>1, <2>2, <2>3
<1>2. /\ DOMAIN receipts' = 1 .. n + 1 - drop
      /\ Len(receipts') = n + 1 - drop
      /\ \A i \in 1 .. n + 1 - drop :
            receipts'[i] = IF i + drop <= n THEN receipts[i + drop]
                           ELSE [request |-> r, outcome |-> outcome]
  BY <1>1, ReceiptContents
<1>3. c' = c + 1
  BY AtMoves DEF TypeOK
<1>4. Len(receipts') = Kept(c')
  <2> HIDE DEF n, c
  <2>1. QED
    BY <1>1, <1>2, <1>3 DEF Kept
<1>5. drop \in 0 .. 1
  OBVIOUS
<1>6. \A i \in 1 .. n : /\ receipts[i].request \in Requests \ {r}
                       /\ pc[receipts[i].request] = receipts[i].outcome
  BY <1>1 DEF ReceiptsMatch
<1>7. \A i \in 1 .. n + 1 - drop : i + drop \in 1 .. n \/ i + drop = n + 1
  <2> HIDE DEF n, drop
  <2>1. QED
    BY <1>1, <1>5
<1>8. \A i \in 1 .. n + 1 - drop : pc'[receipts'[i].request] = receipts'[i].outcome
  <2> TAKE i \in 1 .. n + 1 - drop
  <2>1. CASE i + drop \in 1 .. n
    <3>1. receipts'[i] = receipts[i + drop]
      <4> HIDE DEF n, drop
      <4>1. QED
        BY <1>1, <1>2, <2>1
    <3>2. QED
      BY <1>6, <2>1, <3>1 DEF TypeOK
  <2>2. CASE i + drop = n + 1
    <3>1. receipts'[i] = [request |-> r, outcome |-> outcome]
      <4> HIDE DEF n, drop
      <4>1. QED
        BY <1>1, <1>2, <2>2
    <3>2. QED
      BY <3>1 DEF TypeOK
  <2>3. QED
    BY <1>7, <2>1, <2>2
<1>9. \A i, j \in 1 .. n + 1 - drop :
         receipts'[i].request = receipts'[j].request => i = j
  <2> HIDE DEF n, drop
  <2>1. \A i \in 1 .. n + 1 - drop :
           /\ i + drop \in 1 .. n => receipts'[i] = receipts[i + drop]
           /\ i + drop = n + 1 => receipts'[i].request = r
    BY <1>1, <1>2
  <2>2. \A i, j \in 1 .. n : receipts[i].request = receipts[j].request => i = j
    BY <1>1 DEF ReceiptsMatch
  <2>3. SUFFICES ASSUME NEW i \in 1 .. n + 1 - drop, NEW j \in 1 .. n + 1 - drop,
                        receipts'[i].request = receipts'[j].request
                 PROVE  i = j
    OBVIOUS
  <2>4. CASE i + drop \in 1 .. n /\ j + drop \in 1 .. n
    <3>1. receipts[i + drop].request = receipts[j + drop].request
      BY <2>1, <2>3, <2>4
    <3>2. i + drop = j + drop
      BY <2>2, <2>4, <3>1
    <3>3. QED
      BY <1>1, <1>5, <3>2
  <2>5. CASE i + drop = n + 1 /\ j + drop = n + 1
    BY <1>1, <1>5, <2>5
  <2>6. CASE i + drop \in 1 .. n /\ j + drop = n + 1
    BY <1>6, <2>1, <2>3, <2>6
  <2>7. CASE i + drop = n + 1 /\ j + drop \in 1 .. n
    BY <1>6, <2>1, <2>3, <2>7
  <2>8. QED
    BY <1>7, <2>4, <2>5, <2>6, <2>7
<1>10. QED
  BY <1>2, <1>4, <1>8, <1>9 DEF ReceiptsMatch

\* A request that is not answered by a step leaves the receipts matching.
LEMMA OtherReceipts ==
    ASSUME BrokerAssumption, TypeOK, ReceiptsMatch, NEW r \in Requests, NEW stage,
           pc[r] \notin Answers, stage \notin Answers,
           pc' = [pc EXCEPT ![r] = stage], receipts' = receipts
    PROVE  ReceiptsMatch'
<1>1. Cardinality(At(Answers))' = Cardinality(At(Answers))
  BY AtMoves DEF TypeOK
<1>2. \A i \in DOMAIN receipts : /\ receipts[i].request \in Requests
                                /\ receipts[i].outcome \in Answers
  BY EntriesTyped
<1>3. \A i \in DOMAIN receipts : pc'[receipts[i].request] = receipts[i].outcome
  BY <1>2 DEF ReceiptsMatch, TypeOK
<1>4. QED
  BY <1>1, <1>3 DEF ReceiptsMatch, Kept

\* Every step keeps the receipts matching.
LEMMA NextReceipts ==
    ASSUME BrokerAssumption, TypeOK, ReceiptsMatch, [Next]_vars
    PROVE  ReceiptsMatch'
<1>1. ASSUME NEW r \in Requests,
             CapacityTimeout(r) \/ LockTimeout(r) \/ SkipWorker(r) \/ CallInvalid(r)
                \/ CallSucceeds(r) \/ StopWaitEnds(r)
      PROVE  ReceiptsMatch'
  <2>1. pc[r] \notin Answers
    BY <1>1 DEF CapacityTimeout, LockTimeout, SkipWorker, CallInvalid, CallSucceeds,
                StopWaitEnds, Answers, Passthroughs
  <2>2. PICK outcome \in Answers : pc' = [pc EXCEPT ![r] = outcome]
                                  /\ receipts' = Receipt(r, outcome)
    BY <1>1 DEF CapacityTimeout, LockTimeout, SkipWorker, CallInvalid, CallSucceeds,
                StopWaitEnds, Finish, Answers, Passthroughs
  <2>3. QED
    BY <2>1, <2>2, AnswerReceipts
<1>2. ASSUME NEW r \in Requests,
             Reject(r) \/ Arrive(r) \/ AcquireCapacity(r) \/ CallWorker(r)
                \/ CallTimesOut(r) \/ CallFails(r) \/ CallLosesDevice(r)
      PROVE  ReceiptsMatch'
  <2>1. pc[r] \notin Answers /\ receipts' = receipts
    BY <1>2 DEF Reject, Arrive, AcquireCapacity, CallWorker, CallTimesOut, CallFails,
                CallLosesDevice, FailWorker, Answers, Passthroughs
  <2>2. PICK stage : pc' = [pc EXCEPT ![r] = stage] /\ stage \notin Answers
    BY <1>2 DEF Reject, Arrive, AcquireCapacity, CallWorker, CallTimesOut, CallFails,
                CallLosesDevice, FailWorker, Answers, Passthroughs
  <2>3. QED
    BY <2>1, <2>2, OtherReceipts
<1>3. CASE UNCHANGED <<pc, receipts>>
  BY <1>3 DEF ReceiptsMatch, At
<1>4. CASE \/ StartSucceeds \/ StartFails \/ StartupTimesOut \/ Shutdown \/ Reply \/ Crash
           \/ AtRest \/ (UNCHANGED vars)
           \/ \E r \in Requests : RequestThread(r) \/ StopThread(r)
  BY <1>3, <1>4 DEF StartSucceeds, StartFails, StartupTimesOut, Shutdown, Reply, Crash,
         AtRest, RequestThread, StopThread, SendLine, SendFails, AwaitLine, TakeLine,
         ReadTimesOut, Detach, Kill, vars, handlerVars
<1>5. QED
  BY <1>1, <1>2, <1>4 DEF Next, Handler

(* For any bound on the trail, /health shows the last answered requests with   *)
(* the answer each was given, no request twice, and all of them until the      *)
(* bound is reached.                                                           *)
THEOREM ReceiptsAreExact == Spec => []ReceiptsExact
<1>1. Init => ReceiptsMatch
  <2> SUFFICES ASSUME Init PROVE ReceiptsMatch
    OBVIOUS
  <2>1. At(Answers) = {}
    BY DEF Init, At, Answers, Passthroughs
  <2>2. Cardinality(At(Answers)) = 0
    BY <2>1, FS_EmptySet
  <2>3. QED
    BY <2>2, BrokerAssumption DEF Init, ReceiptsMatch, Kept, BrokerAssumption
<1>2. TypeOK /\ ReceiptsMatch /\ [Next]_vars => ReceiptsMatch'
  BY NextReceipts, BrokerAssumption
<1>3. ReceiptsMatch => ReceiptsExact
  BY DEF ReceiptsMatch, ReceiptsExact, At, Kept
<1>4. QED
  BY <1>1, <1>2, <1>3, TypeCorrect, PTL DEF Spec

-----------------------------------------------------------------------------
(* Refinement. A step of the broker moves at most one request, and what its    *)
(* caller sees of that move is a step of CompressService or nothing.           *)

Seen    == [x \in Requests |-> StatusOf(pc[x])]
Healthy == phase = "starting" \/ ready

\* What a client sees of every stage.
LEMMA StatusTable ==
    /\ StatusOf("new") = "idle"
    /\ StatusOf("rejected") = "refused"
    /\ \A stage \in OpenStages : StatusOf(stage) = "pending"
    /\ StatusOf("compressed") = "compressed"
    /\ \A stage \in Passthroughs : StatusOf(stage) = "original"
BY DEF StatusOf, OpenStages, HoldingStages, LockStages, StopStages, Passthroughs

\* A request that moves shows its new status and no other.
LEMMA SeenMoves ==
    ASSUME TypeOK, NEW r \in Requests, NEW b, pc' = [pc EXCEPT ![r] = b]
    PROVE  Seen' = [Seen EXCEPT ![r] = StatusOf(b)] /\ Seen[r] = StatusOf(pc[r])
<1>1. \A x \in Requests : pc'[x] = IF x = r THEN b ELSE pc[x]
  BY DEF TypeOK
<1>2. \A x \in Requests : StatusOf(pc'[x]) = IF x = r THEN StatusOf(b) ELSE StatusOf(pc[x])
  BY <1>1
<1>3. QED
  BY <1>2 DEF Seen

\* A step between stages of the same status is not seen.
LEMMA SeenStays ==
    ASSUME TypeOK, NEW r \in Requests, NEW b, pc' = [pc EXCEPT ![r] = b],
           StatusOf(b) = StatusOf(pc[r])
    PROVE  Seen' = Seen
BY SeenMoves DEF Seen

(* What each branch of the handler looks like from outside. *)
LEMMA HandlerRefines ==
    ASSUME TypeOK, Coordination, NEW r \in Requests, Reject(r) \/ Arrive(r) \/ Handler(r)
    PROVE  [Service!Next]_(Service!vars)
<1> USE DEF Service!Next, Service!vars
<1>0. Coordination => phase # "starting" \/ pc[r] = "new"
  BY DEF Coordination
<1>1. CASE Reject(r)
  <2>1. /\ pc' = [pc EXCEPT ![r] = "rejected"] /\ pc[r] = "new"
        /\ Healthy' = Healthy
    BY <1>1 DEF Reject, Healthy
  <2>2. Seen' = [Seen EXCEPT ![r] = StatusOf("rejected")] /\ Seen[r] = StatusOf(pc[r])
    BY <2>1, SeenMoves
  <2>3. Seen' = [Seen EXCEPT ![r] = "refused"] /\ Seen[r] = "idle"
    BY <2>1, <2>2, StatusTable
  <2>4. Service!Refuse(r)
    BY <2>1, <2>3 DEF Service!Refuse, Seen, Healthy
  <2>5. QED
    BY <2>4
<1>2. CASE Arrive(r)
  <2>1. /\ pc' = [pc EXCEPT ![r] = "capacity"] /\ pc[r] = "new"
        /\ Healthy' = Healthy /\ "capacity" \in OpenStages
    BY <1>2 DEF Arrive, Healthy, OpenStages
  <2>2. Seen' = [Seen EXCEPT ![r] = StatusOf("capacity")] /\ Seen[r] = StatusOf(pc[r])
    BY <2>1, SeenMoves
  <2>3. Seen' = [Seen EXCEPT ![r] = "pending"] /\ Seen[r] = "idle"
    BY <2>1, <2>2, StatusTable
  <2>4. Service!Submit(r)
    BY <2>1, <2>3 DEF Service!Submit, Seen, Healthy
  <2>5. QED
    BY <2>4
<1>3. CASE AcquireCapacity(r) \/ CallWorker(r)
  <2>1. PICK stage \in OpenStages : pc' = [pc EXCEPT ![r] = stage] /\ pc[r] \in OpenStages
    BY <1>3 DEF AcquireCapacity, CallWorker, OpenStages, HoldingStages, LockStages
  <2>2. Seen' = Seen
    BY <2>1, SeenStays, StatusTable
  <2>3. Healthy' = Healthy
    BY <1>3 DEF AcquireCapacity, CallWorker, Healthy
  <2>4. QED
    BY <2>2, <2>3 DEF Seen, Healthy
<1>4. CASE CallTimesOut(r) \/ CallFails(r) \/ CallLosesDevice(r)
  <2>1. PICK stage \in OpenStages : pc' = [pc EXCEPT ![r] = stage]
    BY <1>4 DEF CallTimesOut, CallFails, CallLosesDevice, FailWorker, OpenStages,
                HoldingStages, LockStages, StopStages
  <2>2. pc[r] = "calling" /\ pc[r] \in OpenStages
    BY <1>4 DEF CallTimesOut, CallFails, CallLosesDevice, OpenStages, HoldingStages, LockStages
  <2>3. Seen' = Seen
    BY <2>1, <2>2, SeenStays, StatusTable
  <2>4. Healthy /\ ~Healthy'
    BY <1>4, <1>0, <2>2 DEF CallTimesOut, CallFails, CallLosesDevice, FailWorker, Healthy,
                            Coordination
  <2>5. Service!Degrade
    BY <2>3, <2>4 DEF Service!Degrade, Seen, Healthy
  <2>6. QED
    BY <2>5
<1>5. CASE \E outcome \in Passthroughs :
              /\ pc' = [pc EXCEPT ![r] = outcome] /\ pc[r] \in OpenStages
              /\ UNCHANGED <<phase, ready>>
  <2>1. PICK outcome \in Passthroughs : pc' = [pc EXCEPT ![r] = outcome]
    BY <1>5
  <2>2. Seen' = [Seen EXCEPT ![r] = StatusOf(outcome)] /\ Seen[r] = StatusOf(pc[r])
    BY <2>1, SeenMoves
  <2>3. Seen' = [Seen EXCEPT ![r] = "original"] /\ Seen[r] = "pending"
    BY <1>5, <2>2, StatusTable
  <2>4. Healthy' = Healthy
    BY <1>5 DEF Healthy
  <2>5. Service!PassThrough(r)
    BY <2>3, <2>4 DEF Service!PassThrough, Seen, Healthy
  <2>6. QED
    BY <2>5
<1>6. CASE CapacityTimeout(r) \/ LockTimeout(r) \/ SkipWorker(r)
  BY <1>5, <1>6 DEF CapacityTimeout, LockTimeout, SkipWorker, Finish, Passthroughs,
                    OpenStages, HoldingStages
<1>7. CASE CallInvalid(r) \/ StopWaitEnds(r)
  BY <1>5, <1>7 DEF CallInvalid, StopWaitEnds, Finish, Passthroughs, OpenStages,
                    HoldingStages, LockStages, StopStages
<1>8. CASE CallSucceeds(r) /\ result[r] = "same"
  BY <1>5, <1>8 DEF CallSucceeds, Finish, Passthroughs, OpenStages, HoldingStages, LockStages
<1>9. CASE CallSucceeds(r) /\ result[r] = "compressed"
  <2>1. pc' = [pc EXCEPT ![r] = "compressed"] /\ pc[r] = "calling" /\ UNCHANGED <<phase, ready>>
    BY <1>9 DEF CallSucceeds, Finish
  <2>2. pc[r] \in OpenStages
    BY <2>1 DEF OpenStages, HoldingStages, LockStages
  <2>3. Seen' = [Seen EXCEPT ![r] = StatusOf("compressed")] /\ Seen[r] = StatusOf(pc[r])
    BY <2>1, SeenMoves
  <2>4. Seen' = [Seen EXCEPT ![r] = "compressed"] /\ Seen[r] = "pending"
    BY <2>3, <2>2, StatusTable
  <2>5. Healthy /\ Healthy' = Healthy
    BY <2>1 DEF Healthy, Coordination
  <2>6. Service!Compress(r)
    BY <2>4, <2>5 DEF Service!Compress, Seen, Healthy
  <2>7. QED
    BY <2>6
<1>10. QED
  BY <1>1, <1>2, <1>3, <1>4, <1>6, <1>7, <1>8, <1>9 DEF Handler, CallSucceeds

\* A step of the broker is a step of the service or none.
LEMMA StepRefines ==
    ASSUME TypeOK, Coordination, [Next]_vars
    PROVE  [Service!Next]_(Service!vars)
<1>1. CASE UNCHANGED <<pc, phase, ready>>
  BY <1>1 DEF Service!vars
<1>2. CASE \E r \in Requests : RequestThread(r) \/ StopThread(r)
  BY <1>2, <1>1 DEF RequestThread, StopThread, SendLine, SendFails, AwaitLine, TakeLine,
         ReadTimesOut, Detach, Kill, handlerVars
<1>3. CASE StartSucceeds
  <2>1. pc' = pc /\ Healthy' = Healthy
    BY <1>3 DEF StartSucceeds, Healthy
  <2>2. QED
    BY <2>1 DEF Service!vars, Healthy
<1>4. CASE StartFails \/ StartupTimesOut \/ Shutdown
  <2>1. pc' = pc
    BY <1>4 DEF StartFails, StartupTimesOut, Shutdown
  <2>2. Healthy \in BOOLEAN /\ Healthy' \in BOOLEAN /\ (Healthy' => Healthy)
    BY <1>4 DEF StartFails, StartupTimesOut, Shutdown, Healthy
  <2>3. CASE Healthy /\ ~Healthy'
    BY <2>1, <2>3 DEF Service!Next, Service!Degrade, Healthy
  <2>4. CASE Healthy' = Healthy
    BY <2>1, <2>4 DEF Service!vars, Healthy
  <2>5. QED
    BY <2>2, <2>3, <2>4
<1>5. CASE Reply \/ Crash \/ AtRest \/ UNCHANGED vars
  BY <1>5, <1>1 DEF Reply, Crash, AtRest, vars, handlerVars
<1>6. QED
  BY <1>2, <1>3, <1>4, <1>5, HandlerRefines DEF Next

(* The broker implements the service: every accepted call is answered at most  *)
(* once, and no call is served a compression after the first failure.          *)
THEOREM BrokerImplementsService == Spec => Service!SafeSpec
<1>1. Init => Service!Init
  BY StatusTable DEF Init, Service!Init
<1>2. TypeOK /\ Coordination /\ [Next]_vars => [Service!Next]_(Service!vars)
  BY StepRefines
<1>3. QED
  BY <1>1, <1>2, TypeCorrect, CoordinationHolds, PTL DEF Spec, Service!SafeSpec

=============================================================================
