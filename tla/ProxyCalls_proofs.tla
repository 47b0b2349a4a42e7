--------------------------- MODULE ProxyCalls_proofs ---------------------------
(***************************************************************************)
(* The proxy's calls, for any number of them, of workers, attempts and     *)
(* rounds, and for any conversation.  First the books of the compression   *)
(* executor, whoever its callers are; then the handlers, which use it as   *)
(* it is meant to be used: late work is lost, every step comes nearer to   *)
(* an answer, and older user texts are only replayed.                      *)
(***************************************************************************)
EXTENDS ProxyCalls, FiniteSetTheorems, WellFoundedInduction, TLAPS

-----------------------------------------------------------------------------
(* The executor keeps its books. *)

Counted == {c \in Calls : counted[c]}
Running == {c \in Calls : job[c] = "running"}
Owing == {c \in Calls : owing[c]}

\* The flags of a call, each of its type.
Flags ==
    /\ awaited \subseteq Calls
    /\ job \in [Calls -> Jobs]
    /\ counted \in [Calls -> BOOLEAN]
    /\ late \in [Calls -> BOOLEAN]
    /\ owing \in [Calls -> BOOLEAN]

\* How the flags of a call hang together: one that is counted has not begun, or
\* never will, and its deadline has not passed; one that is waited for has
\* entered; one whose caller gave up has entered and is not waited for; and what
\* it owes for is a thread that still runs.
Consistent(c) ==
    /\ counted[c] <=> job[c] \in {"waiting", "picked", "cancelled"} /\ ~late[c]
    /\ c \in awaited => job[c] # "none"
    /\ late[c] => c \notin awaited /\ job[c] # "none"
    /\ owing[c] <=> late[c] /\ job[c] = "running"

Gauges ==
    /\ queued = Cardinality(Counted)
    /\ in_flight = Cardinality(Running)
    /\ debt = Cardinality(Owing)

Books ==
    /\ Flags
    /\ line \in Seq(Calls)
    /\ \A c \in Calls : Consistent(c)
    /\ Gauges

\* A gauge goes up or down with the flag it counts.
Follows(was, is, flag, flagged) ==
    /\ (flag <=> flagged) => is = was
    /\ flag /\ ~flagged => is = was - 1
    /\ ~flag /\ flagged => is = was + 1

\* A set that changes in one call changes its size by that call.
LEMMA OneCall ==
    ASSUME NEW S \in SUBSET Calls, NEW T \in SUBSET Calls, NEW c \in Calls,
           S \ {c} = T \ {c}
    PROVE  /\ Cardinality(S) \in Nat
           /\ Cardinality(T) \in Nat
           /\ c \in S /\ c \in T => Cardinality(T) = Cardinality(S)
           /\ c \notin S /\ c \notin T => Cardinality(T) = Cardinality(S)
           /\ c \in S /\ c \notin T => Cardinality(T) = Cardinality(S) - 1
           /\ c \notin S /\ c \in T => Cardinality(T) = Cardinality(S) + 1
<1>1. IsFiniteSet(S) /\ IsFiniteSet(T)
  BY ExecutorAssumption, FS_Subset DEF ExecutorAssumption
<1>2. Cardinality(S) \in Nat /\ Cardinality(T) \in Nat
  BY <1>1, FS_CardinalityType
<1>3. Cardinality(S \ {c}) = IF c \in S THEN Cardinality(S) - 1 ELSE Cardinality(S)
  BY <1>1, FS_RemoveElement
<1>4. Cardinality(T \ {c}) = IF c \in T THEN Cardinality(T) - 1 ELSE Cardinality(T)
  BY <1>1, FS_RemoveElement
<1>5. Cardinality(S \ {c}) = Cardinality(T \ {c})
  OBVIOUS
<1>. QED  BY <1>2, <1>3, <1>4, <1>5

\* Books hold before the first call.
LEMMA BooksOpen == ExecutorInit => Books
<1>. SUFFICES ASSUME ExecutorInit PROVE Books
  OBVIOUS
<1>. USE DEF ExecutorInit
<1>1. Flags
  BY DEF Flags, Jobs
<1>2. line \in Seq(Calls)
  OBVIOUS
<1>3. \A c \in Calls : Consistent(c)
  BY DEF Consistent
<1>4. Counted = {} /\ Running = {} /\ Owing = {}
  BY DEF Counted, Running, Owing
<1>5. Gauges
  BY <1>4, FS_EmptySet DEF Gauges
<1>. QED  BY <1>1, <1>2, <1>3, <1>5 DEF Books

\* The step of one call changes the three sets in that call only.
LEMMA GaugesFollow ==
    ASSUME Flags, Flags', Gauges, NEW c \in Calls,
           \A x \in Calls \ {c} :
               counted'[x] = counted[x] /\ job'[x] = job[x] /\ owing'[x] = owing[x],
           Follows(queued, queued', counted[c], counted'[c]),
           Follows(in_flight, in_flight', job[c] = "running", job'[c] = "running"),
           Follows(debt, debt', owing[c], owing'[c])
    PROVE  Gauges'
<1>1. /\ Counted \in SUBSET Calls /\ Counted' \in SUBSET Calls
      /\ Counted \ {c} = Counted' \ {c}
      /\ c \in Counted <=> counted[c]
      /\ c \in Counted' <=> counted'[c]
  BY DEF Counted, Flags
<1>2. /\ Running \in SUBSET Calls /\ Running' \in SUBSET Calls
      /\ Running \ {c} = Running' \ {c}
      /\ c \in Running <=> job[c] = "running"
      /\ c \in Running' <=> job'[c] = "running"
  BY DEF Running, Flags
<1>3. /\ Owing \in SUBSET Calls /\ Owing' \in SUBSET Calls
      /\ Owing \ {c} = Owing' \ {c}
      /\ c \in Owing <=> owing[c]
      /\ c \in Owing' <=> owing'[c]
  BY DEF Owing, Flags
<1>4. queued' = Cardinality(Counted')
  <2>1. queued = Cardinality(Counted)
    BY DEF Gauges
  <2>. QED  BY <1>1, <2>1, OneCall DEF Follows
<1>5. in_flight' = Cardinality(Running')
  <2>1. in_flight = Cardinality(Running)
    BY DEF Gauges
  <2>. QED  BY <1>2, <2>1, OneCall DEF Follows
<1>6. debt' = Cardinality(Owing')
  <2>1. debt = Cardinality(Owing)
    BY DEF Gauges
  <2>. QED  BY <1>3, <2>1, OneCall DEF Follows
<1>. QED  BY <1>4, <1>5, <1>6 DEF Gauges

\* A call that enters.
LEMMA SubmitKeeps ==
    ASSUME Books, NEW c \in Calls, Submit(c)
    PROVE  Books'
<1>. USE DEF Submit, Set
<1>1. Flags'
  BY DEF Books, Flags, Jobs
<1>2. line' \in Seq(Calls)
  BY DEF Books
<1>3. \A x \in Calls : Consistent(x)'
  BY DEF Books, Flags, Consistent
<1>4. ~counted[c] /\ counted'[c] /\ job'[c] = "waiting"
  BY DEF Books, Flags, Consistent
<1>5. Gauges'
  BY <1>1, <1>4, GaugesFollow DEF Books, Flags, Follows
<1>. QED  BY <1>1, <1>2, <1>3, <1>5 DEF Books

\* A thread that takes a job.
LEMMA PickKeeps ==
    ASSUME Books, Pick
    PROVE  Books'
<1>. DEFINE c == Head(line)
<1>. USE DEF Pick, Set
<1>1. c \in Calls /\ line' \in Seq(Calls)
  BY DEF Books
<1>2. Flags'
  BY <1>1 DEF Books, Flags, Jobs
<1>3. \A x \in Calls : Consistent(x)'
  BY <1>1 DEF Books, Flags, Consistent
<1>4. job[c] # "running" => job'[c] # "running"
  BY <1>1 DEF Books, Flags
<1>5. job[c] = "running" => job'[c] = "running"
  BY <1>1 DEF Books, Flags
<1>6. /\ counted' = counted /\ owing' = owing
      /\ \A x \in Calls \ {c} : job'[x] = job[x]
      /\ queued' = queued /\ in_flight' = in_flight /\ debt' = debt
  BY <1>1 DEF Books, Flags, gauges
<1>7. Gauges'
  BY <1>1, <1>2, <1>4, <1>5, <1>6, GaugesFollow DEF Books, Follows
<1>. QED  BY <1>1, <1>2, <1>3, <1>7 DEF Books

\* A thread that starts a job, for a caller that waits or one that does not.
LEMMA StartKeeps ==
    ASSUME Books, NEW c \in Calls, Start(c)
    PROVE  Books'
<1>. USE DEF Start, Set
<1>1. Flags'
  BY DEF Books, Flags, Jobs
<1>2. line' \in Seq(Calls)
  BY DEF Books
<1>3. \A x \in Calls : Consistent(x)'
  BY DEF Books, Flags, Consistent
<1>4. ~counted'[c] /\ job'[c] = "running" /\ ~owing[c] /\ owing'[c] = late[c]
  BY DEF Books, Flags, Consistent
<1>5. Gauges'
  BY <1>1, <1>4, GaugesFollow DEF Books, Flags, Follows
<1>. QED  BY <1>1, <1>2, <1>3, <1>5 DEF Books

\* A job that ends.
LEMMA FinishKeeps ==
    ASSUME Books, NEW c \in Calls, Finish(c)
    PROVE  Books'
<1>. USE DEF Finish, Set
<1>1. Flags'
  BY DEF Books, Flags, Jobs
<1>2. line' \in Seq(Calls)
  BY DEF Books
<1>3. \A x \in Calls : Consistent(x)'
  BY DEF Books, Flags, Consistent
<1>4. counted'[c] = counted[c] /\ job'[c] = "finished" /\ ~owing'[c]
  BY DEF Books, Flags
<1>5. Gauges'
  BY <1>1, <1>4, GaugesFollow DEF Books, Flags, Follows
<1>. QED  BY <1>1, <1>2, <1>3, <1>5 DEF Books

\* A caller that returns with its job's result.
LEMMA ReturnKeeps ==
    ASSUME Books, NEW c \in Calls, Return(c)
    PROVE  Books'
<1>. USE DEF Return, gauges
<1>1. Flags' /\ line' \in Seq(Calls)
  BY DEF Books, Flags
<1>2. \A x \in Calls : Consistent(x)'
  BY DEF Books, Flags, Consistent
<1>3. Gauges'
  BY DEF Books, Gauges, Counted, Running, Owing
<1>. QED  BY <1>1, <1>2, <1>3 DEF Books

\* A caller that gives up, whatever its job is doing.
LEMMA TimeOutKeeps ==
    ASSUME Books, NEW c \in Calls, TimeOut(c)
    PROVE  Books'
<1>. USE DEF TimeOut, Set, Cancelled
<1>1. Flags'
  BY DEF Books, Flags, Jobs
<1>2. line' \in Seq(Calls)
  BY DEF Books
<1>3. job'[c] = "running" <=> job[c] = "running"
  BY DEF Books, Flags
<1>4. \A x \in Calls : Consistent(x)'
  BY DEF Books, Flags, Consistent
<1>5. /\ ~counted'[c] /\ ~owing[c]
      /\ owing'[c] <=> job[c] = "running"
  BY DEF Books, Flags, Consistent
<1>6. Gauges'
  BY <1>1, <1>3, <1>5, GaugesFollow DEF Books, Flags, Follows
<1>. QED  BY <1>1, <1>2, <1>4, <1>6 DEF Books

\* A caller that is cancelled.
LEMMA AbandonKeeps ==
    ASSUME Books, NEW c \in Calls, Abandon(c)
    PROVE  Books'
<1>. USE DEF Abandon, Set, Cancelled, gauges
<1>1. Flags'
  BY DEF Books, Flags, Jobs
<1>2. line' \in Seq(Calls)
  BY DEF Books
<1>3. job'[c] = "running" <=> job[c] = "running"
  BY DEF Books, Flags
<1>4. \A x \in Calls : Consistent(x)'
  BY DEF Books, Flags, Consistent
<1>5. Gauges'
  BY <1>1, <1>3, GaugesFollow DEF Books, Flags, Follows
<1>. QED  BY <1>1, <1>2, <1>4, <1>5 DEF Books

\* Every step of the executor keeps the books.
LEMMA BooksKept == Books /\ [ExecutorNext]_executor => Books'
<1>. SUFFICES ASSUME Books, [ExecutorNext]_executor PROVE Books'
  OBVIOUS
<1>1. CASE Pick
  BY <1>1, PickKeeps
<1>2. ASSUME NEW c \in Calls, Submit(c) PROVE Books'
  BY <1>2, SubmitKeeps
<1>3. ASSUME NEW c \in Calls, Start(c) PROVE Books'
  BY <1>3, StartKeeps
<1>4. ASSUME NEW c \in Calls, Finish(c) PROVE Books'
  BY <1>4, FinishKeeps
<1>5. ASSUME NEW c \in Calls, Return(c) PROVE Books'
  BY <1>5, ReturnKeeps
<1>6. ASSUME NEW c \in Calls, TimeOut(c) PROVE Books'
  BY <1>6, TimeOutKeeps
<1>7. ASSUME NEW c \in Calls, Abandon(c) PROVE Books'
  BY <1>7, AbandonKeeps
<1>8. CASE UNCHANGED executor
  BY <1>8 DEF executor, flags, gauges, Books, Flags, Consistent, Gauges, Counted, Running, Owing
<1>. QED  BY <1>1, <1>2, <1>3, <1>4, <1>5, <1>6, <1>7, <1>8 DEF ExecutorNext

\* What the books say of the properties.
LEMMA BooksTell == Books => ExecutorTypeOK /\ GaugesExact
<1>. SUFFICES ASSUME Books PROVE ExecutorTypeOK /\ GaugesExact
  OBVIOUS
<1>1. IsFiniteSet(Counted) /\ IsFiniteSet(Running) /\ IsFiniteSet(Owing)
  <2>1. Counted \subseteq Calls /\ Running \subseteq Calls /\ Owing \subseteq Calls
    BY DEF Counted, Running, Owing
  <2>. QED  BY <2>1, ExecutorAssumption, FS_Subset DEF ExecutorAssumption
<1>2. queued \in Nat /\ in_flight \in Nat /\ debt \in Nat
  BY <1>1, FS_CardinalityType DEF Books, Gauges
<1>3. ExecutorTypeOK
  BY <1>2 DEF Books, Flags, ExecutorTypeOK
<1>4. Owing = {c \in Calls : late[c] /\ job[c] = "running"}
  BY DEF Books, Consistent, Owing
<1>5. Counted = Queued \cup Leaked /\ Queued \cap Leaked = {}
  BY DEF Books, Consistent, Counted, Queued, Leaked
<1>6. Cardinality(Counted) = Cardinality(Queued) + Cardinality(Leaked)
  <2>1. IsFiniteSet(Queued) /\ IsFiniteSet(Leaked)
    BY <1>1, <1>5, FS_Subset
  <2>2. /\ Cardinality(Queued) \in Nat /\ Cardinality(Leaked) \in Nat
        /\ Cardinality(Queued \cap Leaked) = 0
    BY <1>5, <2>1, FS_CardinalityType, FS_EmptySet
  <2>3. Cardinality(Queued \cup Leaked)
           = Cardinality(Queued) + Cardinality(Leaked) - Cardinality(Queued \cap Leaked)
    BY <2>1, FS_Union
  <2>. QED  BY <1>5, <2>2, <2>3
<1>7. GaugesExact
  BY <1>4, <1>6 DEF Books, Gauges, GaugesExact, Running
<1>. QED  BY <1>3, <1>7

\* The executor keeps its books, whoever its callers are.
THEOREM ExecutorKeepsBooks == ExecutorSpec => []Books
<1>. QED  BY BooksOpen, BooksKept, PTL DEF ExecutorSpec

-----------------------------------------------------------------------------
(* The handlers use the executor as it is meant to be used. *)

\* An arrival enters the executor or leaves it alone.
LEMMA ArriveUses ==
    ASSUME NEW c \in Calls, Arrive(c)
    PROVE  Submit(c) \/ UNCHANGED executor
<1>1. ASSUME NEW r, Compress(c, r) PROVE Submit(c) \/ UNCHANGED executor
  BY <1>1 DEF Compress
<1>2. CASE ArriveFrame(c)
  BY <1>1, <1>2 DEF ArriveFrame
<1>3. CASE ArriveChat(c)
  BY <1>1, <1>3 DEF ArriveChat
<1>4. CASE ArriveResponses(c)
  BY <1>4 DEF ArriveResponses
<1>5. CASE ArrivePassthrough(c)
  BY <1>1, <1>5 DEF ArrivePassthrough
<1>6. CASE ArriveCompress(c)
  BY <1>1, <1>6 DEF ArriveCompress
<1>. QED  BY <1>2, <1>3, <1>4, <1>5, <1>6 DEF Arrive

\* A step of a handler, of a worker or of anybody else is a step of the executor
\* or leaves it alone.
LEMMA StepUses == [Next]_vars => [ExecutorNext]_executor
<1>. SUFFICES ASSUME [Next]_vars PROVE [ExecutorNext]_executor
  OBVIOUS
<1>1. ASSUME NEW c \in Calls, Refuse(c) \/ AnswerFromCache(c) PROVE UNCHANGED executor
  BY <1>1 DEF Refuse, AnswerFromCache
<1>2. ASSUME NEW c \in Calls, Arrive(c) PROVE [ExecutorNext]_executor
  BY <1>2, ArriveUses DEF ExecutorNext
<1>3. ASSUME NEW c \in Calls, HandlerStep(c) PROVE [ExecutorNext]_executor
  <2>1. CASE RememberChat(c)
    BY <2>1 DEF RememberChat
  <2>2. CASE RememberResponses(c)
    BY <2>2 DEF RememberResponses, Compress, ExecutorNext
  <2>3. CASE Resume(c)
    BY <2>3 DEF Resume, ExecutorNext
  <2>4. CASE Deadline(c)
    BY <2>4 DEF Deadline, ExecutorNext
  <2>5. CASE Post(c)
    BY <2>5 DEF Post
  <2>6. CASE Backoff(c)
    BY <2>6 DEF Backoff
  <2>7. CASE Recall(c)
    BY <2>7 DEF Recall
  <2>8. CASE Write(c)
    BY <2>8 DEF Write
  <2>. QED  BY <1>3, <2>1, <2>2, <2>3, <2>4, <2>5, <2>6, <2>7, <2>8 DEF HandlerStep
<1>4. ASSUME NEW c \in Calls, CancelFrame(c) PROVE [ExecutorNext]_executor
  BY <1>4 DEF CancelFrame, ExecutorNext
<1>5. ASSUME NEW c \in Calls, WorkerStep(c) PROVE [ExecutorNext]_executor
  <2>1. CASE Begin(c)
    BY <2>1 DEF Begin, ExecutorNext
  <2>2. CASE ShapeInPlace(c)
    BY <2>2 DEF ShapeInPlace
  <2>3. CASE Plan(c)
    BY <2>3 DEF Plan
  <2>4. ASSUME NEW i \in Items, CompressUnit(c, i) PROVE UNCHANGED executor
    BY <2>4 DEF CompressUnit
  <2>5. CASE StopAtBudget(c)
    BY <2>5 DEF StopAtBudget
  <2>6. CASE End(c)
    BY <2>6 DEF End, ExecutorNext
  <2>. QED  BY <1>5, <2>1, <2>2, <2>3, <2>4, <2>5, <2>6 DEF WorkerStep
<1>6. CASE Take
  BY <1>6 DEF Take, ExecutorNext
<1>7. CASE Shutdown
  BY <1>7 DEF Shutdown
<1>8. ASSUME NEW i \in Items, Evict(i) PROVE UNCHANGED executor
  BY <1>8 DEF Evict
<1>9. CASE UNCHANGED vars
  BY <1>9 DEF vars
<1>. QED  BY <1>1, <1>2, <1>3, <1>4, <1>5, <1>6, <1>7, <1>8, <1>9 DEF Next

\* The books of the executor hold in every state of the proxy.
LEMMA CallsKeepBooks == Spec => []Books
<1>1. Init => Books
  BY BooksOpen DEF Init
<1>2. Books /\ [Next]_vars => Books'
  BY StepUses, BooksKept
<1>. QED  BY <1>1, <1>2, PTL DEF Spec

\* The gauges of /health are the jobs they stand for, for any number of calls and
\* workers, however deadlines, cancellations and threads fall: "queued" is what
\* waits or has not begun, and the jobs that were dropped with a cancelled task;
\* the quarantine lasts exactly as long as a thread runs for a caller whose
\* deadline has passed.
THEOREM GaugesAreExact == Spec => []GaugesExact
<1>. QED  BY CallsKeepBooks, BooksTell, PTL

-----------------------------------------------------------------------------
(* Late work is not used. *)

Fields == {"pc", "kind", "mode", "items", "body", "marked", "adopted", "wire", "phase",
           "attempt", "round", "reply", "answer"}
Senders == {"chat", "responses", "backend", "passthrough"}

\* A record of a call, as far as it says where the call is.
Sound(r) ==
    /\ DOMAIN r = Fields
    /\ r.kind \in Senders \cup {"frame", "compress"}
    /\ r.phase \in {"first", "retrieve", "recall"}

\* Nothing that was compressed is in the body or was sent, and the dictionary
\* the body was read into was sent only if a change of it was marked.
Blank(r) ==
    /\ r.adopted = {} /\ r.wire.items = {}
    /\ r.wire.changes # {} => r.marked

\* Where a call is that has its body together.
Past == {"sending", "posting", "backoff", "recalling"}

\* n follows r after its compression: nothing is adopted any more.
Later(r, n) ==
    /\ Sound(n)
    /\ n.kind = r.kind
    /\ n.adopted \in {r.adopted, {}}
    /\ Blank(r) => Blank(n)
    /\ n.pc \in Past \cup {"memory", "done"}
    /\ n.pc = "memory" => n.kind \in {"chat", "backend"}
    /\ n.pc \in Past => n.kind \in Senders

\* Until a call has its compression back it is blank; and it stays so when it
\* gave up the compression.
Unspoilt(c) ==
    /\ Sound(call[c])
    /\ c \in awaited => At(c, "compressing")
    /\ At(c, "idle") \/ At(c, "compressing") => Blank(call[c])
    /\ At(c, "memory") /\ call[c].kind = "responses" => Blank(call[c])
    /\ call[c].pc \in Past => call[c].kind \in Senders
    /\ late[c] => Blank(call[c])

AllUnspoilt ==
    /\ DOMAIN call = Calls
    /\ \A c \in Calls : Unspoilt(c)

\* An answer given to a caller changes nothing it adopted.
LEMMA AnsweredLater ==
    ASSUME NEW r, NEW status, NEW asks, Sound(r)
    PROVE  Later(r, Answered(r, status, asks))
BY DEF Answered, Fresh, Sound, Later, Fields, Blank, Nothing, Past

\* Nor does delivering one, with the CCR continuation it may ask for.
LEMMA DeliverLater ==
    ASSUME NEW r, NEW status, NEW asks, Sound(r)
    PROVE  Later(r, Deliver(r, status, asks))
BY AnsweredLater DEF Deliver

\* A body that is about to be sent is the one adopted so far.
LEMMA SendLater ==
    ASSUME NEW r, Sound(r), r.kind \in Senders
    PROVE  Later(r, Send(r))
BY DEF Send, Later, Sound, Fields, Blank, Past

\* A mark changes nothing else.
LEMMA EditedIs ==
    ASSUME NEW r, Sound(r)
    PROVE  /\ Sound(Edited(r)) /\ Edited(r).kind = r.kind /\ Edited(r).adopted = r.adopted
           /\ Blank(r) => Blank(Edited(r))
BY DEF Edited, Sound, Fields, Blank

\* Going on to the next stage of a call adopts nothing.
LEMMA OnwardLater ==
    ASSUME NEW r, Sound(r), NEW n \in Onward(r)
    PROVE  Later(r, n)
<1>1. CASE r.kind = "responses"
  <2>1. /\ Sound(Edited(r)) /\ Edited(r).kind = r.kind /\ Edited(r).adopted = r.adopted
        /\ Blank(r) => Blank(Edited(r))
    BY EditedIs
  <2>2. n \in {Send(Edited(r)), Send(r)}
    BY <1>1 DEF Onward, Shape
  <2>3. Later(Edited(r), Send(Edited(r))) /\ Later(r, Send(r))
    BY <1>1, <2>1, SendLater DEF Senders
  <2>. QED  BY <2>1, <2>2, <2>3 DEF Later
<1>2. CASE r.kind = "passthrough"
  BY <1>2, SendLater DEF Onward, Senders
<1>3. CASE r.kind \in {"chat", "backend"}
  <2>1. n = [r EXCEPT !.pc = "memory"]
    BY <1>3 DEF Onward, SettleMessages
  <2>. QED  BY <1>3, <2>1 DEF Later, Sound, Fields, Blank, Past
<1>4. CASE r.kind \in {"frame", "compress"}
  BY <1>4, AnsweredLater DEF Onward
<1>. QED  BY <1>1, <1>2, <1>3, <1>4 DEF Sound, Senders

\* A continuation starts from the call it continues.
LEMMA ContinueLater ==
    ASSUME NEW r, NEW phase \in {"retrieve", "recall"}, Sound(r), r.kind \in Senders
    PROVE  Later(r, Continue(r, phase))
BY DEF Continue, Later, Sound, Fields, Blank, Past

\* Settling a tool call that a reply asked for adopts nothing.
LEMMA SettleLater ==
    ASSUME NEW r, NEW status, NEW asks, Sound(r), r.kind \in Senders,
           NEW n \in Settle(r, status, asks)
    PROVE  Later(r, n)
<1>. DEFINE next == Continue(r, "recall")
            recall == [next EXCEPT !.pc = "recalling", !.round = 0,
                                   !.reply = [status |-> status, asks |-> asks]]
<1>1. n = Deliver(r, status, asks) \/ n = recall
  BY DEF Settle
<1>2. Later(r, next)
  BY ContinueLater
<1>3. Later(r, recall)
  BY <1>2 DEF Later, Sound, Fields, Blank, Past
<1>. QED  BY <1>1, <1>3, DeliverLater

\* Nor does resolving the retrievals of a reply.
LEMMA ResolveLater ==
    ASSUME NEW r, NEW status, NEW asks, Sound(r), r.kind \in Senders,
           NEW n \in Resolve(r, status, asks)
    PROVE  Later(r, n)
<1>. DEFINE next == Continue(r, "retrieve")
<1>1. n \in Settle(r, status, asks) \/ n = Refetch(r)
  BY DEF Resolve
<1>2. Later(r, next)
  BY ContinueLater
<1>3. Refetch(r) = [next EXCEPT !.round = @ + 1]
  BY DEF Refetch
<1>4. Later(r, Refetch(r))
  BY <1>2, <1>3 DEF Later, Sound, Fields, Blank, Past
<1>. QED  BY <1>1, <1>4, SettleLater

\* An error on the way to the upstream adopts nothing.
LEMMA RaisedLater ==
    ASSUME NEW r, Sound(r), NEW n \in Raised(r)
    PROVE  Later(r, n)
BY AnsweredLater, DeliverLater DEF Raised

\* Whatever is made of a reply, nothing is adopted with it.
LEMMA TakenLater ==
    ASSUME NEW r, NEW reply, Sound(r), r.kind \in Senders, NEW n \in Taken(r, reply)
    PROVE  Later(r, n)
<1>1. CASE r.kind = "chat"
  <2>1. n \in Raised(r) \/ n \in Settle(r, reply.status, reply.asks)
           \/ n = Deliver(r, "ok", reply.asks)
    BY <1>1 DEF Taken, TakenChat
  <2>. QED  BY <2>1, RaisedLater, SettleLater, DeliverLater
<1>2. CASE r.kind = "responses"
  <2>0. n \in TakenResponses(r, reply)
    BY <1>2 DEF Taken
  <2>1. CASE ~reply.json
    BY <2>0, <2>1, RaisedLater DEF TakenResponses
  <2>2. CASE reply.json /\ r.phase = "first"
    BY <2>0, <2>2, ResolveLater DEF TakenResponses
  <2>3. CASE reply.json /\ r.phase = "retrieve"
    BY <2>0, <2>3, ResolveLater DEF TakenResponses
  <2>4. CASE reply.json /\ r.phase = "recall"
    BY <2>0, <2>4, DeliverLater DEF TakenResponses
  <2>. QED  BY <2>1, <2>2, <2>3, <2>4 DEF Sound
<1>3. CASE r.kind = "backend"
  <2>1. n \in Raised(r) \/ n \in Resolve(r, reply.status, reply.asks)
           \/ n \in Resolve(r, "ok", reply.asks)
    BY <1>3 DEF Taken, TakenBackend
  <2>. QED  BY <2>1, RaisedLater, ResolveLater
<1>4. CASE r.kind = "passthrough"
  BY <1>4, AnsweredLater DEF Taken, TakenPassthrough
<1>. QED  BY <1>1, <1>2, <1>3, <1>4 DEF Senders

\* A call whose record is a later one stays unspoilt.
LEMMA LaterKeeps ==
    ASSUME AllUnspoilt, NEW c \in Calls, NEW n, Later(call[c], n),
           call' = [call EXCEPT ![c] = n],
           c \notin awaited',
           late'[c] => late[c] \/ Blank(call[c]),
           \A x \in Calls \ {c} : (x \in awaited' <=> x \in awaited) /\ late'[x] = late[x]
    PROVE  AllUnspoilt'
<1>1. DOMAIN call' = Calls /\ call'[c] = n /\ \A x \in Calls \ {c} : call'[x] = call[x]
  BY DEF AllUnspoilt
<1>2. Unspoilt(c)'
  BY <1>1 DEF AllUnspoilt, Unspoilt, Later, At, Past
<1>3. \A x \in Calls \ {c} : Unspoilt(x)'
  BY <1>1 DEF AllUnspoilt, Unspoilt, At
<1>. QED  BY <1>1, <1>2, <1>3 DEF AllUnspoilt

\* So it does when only others' records or the work of a thread change.
LEMMA QuietKeeps ==
    ASSUME AllUnspoilt, UNCHANGED <<call, awaited, late>>
    PROVE  AllUnspoilt'
BY DEF AllUnspoilt, Unspoilt, At

\* Into the executor, or past it, with nothing adopted yet.
LEMMA CompressKeeps ==
    ASSUME Books, AllUnspoilt, NEW c \in Calls, c \notin awaited, NEW r, Sound(r), Blank(r),
           Compress(c, r)
    PROVE  AllUnspoilt'
<1>1. CASE Submit(c) /\ Into(c, [r EXCEPT !.pc = "compressing"])
  <2>1. /\ DOMAIN call' = Calls /\ call'[c] = [r EXCEPT !.pc = "compressing"]
        /\ \A x \in Calls \ {c} : call'[x] = call[x]
    BY <1>1 DEF AllUnspoilt, Into
  <2>2. /\ late' = late
        /\ \A x \in Calls \ {c} : x \in awaited' <=> x \in awaited
    BY <1>1 DEF Submit
  <2>3. Unspoilt(c)'
    BY <2>1, <2>2 DEF Unspoilt, Sound, At, Fields, Blank, Past
  <2>4. \A x \in Calls \ {c} : Unspoilt(x)'
    BY <2>1, <2>2 DEF AllUnspoilt, Unspoilt, At
  <2>. QED  BY <2>1, <2>3, <2>4 DEF AllUnspoilt
<1>2. ASSUME NEW n \in Onward(r), Into(c, n), UNCHANGED executor PROVE AllUnspoilt'
  <2>1. /\ DOMAIN call' = Calls /\ call'[c] = n
        /\ \A x \in Calls \ {c} : call'[x] = call[x]
    BY <1>2 DEF AllUnspoilt, Into
  <2>2. Later(r, n)
    BY OnwardLater
  <2>3. Unspoilt(c)'
    BY <1>2, <2>1, <2>2 DEF Unspoilt, Later, At, Past, executor, flags
  <2>4. \A x \in Calls \ {c} : Unspoilt(x)'
    BY <1>2, <2>1 DEF AllUnspoilt, Unspoilt, At, executor, flags
  <2>. QED  BY <2>1, <2>3, <2>4 DEF AllUnspoilt
<1>. QED  BY <1>1, <1>2 DEF Compress

\* A call that arrives has adopted nothing, whichever way it goes.
LEMMA ArriveKeeps ==
    ASSUME Books, AllUnspoilt, NEW c \in Calls, Arrive(c)
    PROVE  AllUnspoilt'
<1>1. Sound(call[c]) /\ Blank(call[c]) /\ call[c].pc = "idle" /\ c \notin awaited
  BY DEF Arrive, AllUnspoilt, Unspoilt, At
<1>2. CASE ArriveFrame(c)
  <2>1. PICK n : Compress(c, [call[c] EXCEPT !.kind = "frame", !.items = n])
    BY <1>2 DEF ArriveFrame
  <2>2. DEFINE r == [call[c] EXCEPT !.kind = "frame", !.items = n]
  <2>3. Sound(r) /\ Blank(r)
    BY <1>1 DEF Sound, Fields, Senders, Blank
  <2>. QED  BY <1>1, <2>1, <2>3, CompressKeeps
<1>3. CASE ArriveChat(c)
  <2>1. PICK kind \in {"chat", "backend"}, mode \in {"json", "stream"} :
            Compress(c, [call[c] EXCEPT !.kind = kind, !.mode = mode])
    BY <1>3 DEF ArriveChat
  <2>2. DEFINE r == [call[c] EXCEPT !.kind = kind, !.mode = mode]
  <2>3. Sound(r) /\ Blank(r)
    BY <1>1 DEF Sound, Fields, Senders, Blank
  <2>. QED  BY <1>1, <2>1, <2>3, CompressKeeps
<1>4. CASE ArriveResponses(c)
  <2>1. PICK n, mode, stored :
            /\ Into(c, [call[c] EXCEPT !.kind = "responses", !.mode = mode, !.items = n,
                                       !.body = stored, !.pc = "memory"])
            /\ UNCHANGED executor
    BY <1>4 DEF ArriveResponses
  <2>2. DEFINE r == [call[c] EXCEPT !.kind = "responses", !.mode = mode, !.items = n,
                                    !.body = stored, !.pc = "memory"]
  <2>3. Sound(r) /\ Blank(r) /\ r.kind = "responses" /\ r.pc = "memory"
    BY <1>1 DEF Sound, Fields, Senders, Blank
  <2>4. /\ DOMAIN call' = Calls /\ call'[c] = r
        /\ \A x \in Calls \ {c} : call'[x] = call[x]
    BY <2>1 DEF AllUnspoilt, Into
  <2>5. Unspoilt(c)'
    BY <1>1, <2>1, <2>3, <2>4 DEF Unspoilt, At, Past, executor, flags
  <2>6. \A x \in Calls \ {c} : Unspoilt(x)'
    BY <2>1, <2>4 DEF AllUnspoilt, Unspoilt, At, executor, flags
  <2>. QED  BY <2>4, <2>5, <2>6 DEF AllUnspoilt
<1>5. CASE ArrivePassthrough(c)
  <2>1. PICK n : Compress(c, [call[c] EXCEPT !.kind = "passthrough", !.items = n])
    BY <1>5 DEF ArrivePassthrough
  <2>2. DEFINE r == [call[c] EXCEPT !.kind = "passthrough", !.items = n]
  <2>3. Sound(r) /\ Blank(r)
    BY <1>1 DEF Sound, Fields, Senders, Blank
  <2>. QED  BY <1>1, <2>1, <2>3, CompressKeeps
<1>6. CASE ArriveCompress(c)
  <2>1. DEFINE r == [call[c] EXCEPT !.kind = "compress"]
  <2>2. Sound(r) /\ Blank(r)
    BY <1>1 DEF Sound, Fields, Senders, Blank
  <2>. QED  BY <1>1, <1>6, <2>2, CompressKeeps DEF ArriveCompress
<1>. QED  BY <1>2, <1>3, <1>4, <1>5, <1>6 DEF Arrive

\* The one step that adopts: its caller waited, so it was not late.
LEMMA ResumeKeeps ==
    ASSUME Books, AllUnspoilt, NEW c \in Calls, Resume(c)
    PROVE  AllUnspoilt'
<1>. DEFINE r == IF work[c].ok THEN Adopt(c) ELSE call[c]
<1>1. PICK n \in Onward(r) : Into(c, n)
  BY DEF Resume
<1>2. Sound(r)
  BY DEF AllUnspoilt, Unspoilt, Adopt, Sound, Fields
<1>3. Later(r, n)
  BY <1>2, OnwardLater
<1>4. /\ DOMAIN call' = Calls /\ call'[c] = n
      /\ \A x \in Calls \ {c} : call'[x] = call[x]
  BY <1>1 DEF AllUnspoilt, Into
<1>5. /\ late' = late /\ ~late[c] /\ c \notin awaited'
      /\ \A x \in Calls \ {c} : x \in awaited' <=> x \in awaited
  BY DEF Resume, Return, Books, Flags, Consistent
<1>6. Unspoilt(c)'
  BY <1>3, <1>4, <1>5 DEF Unspoilt, Later, At, Past
<1>7. \A x \in Calls \ {c} : Unspoilt(x)'
  BY <1>4, <1>5 DEF AllUnspoilt, Unspoilt, At
<1>. QED  BY <1>4, <1>6, <1>7 DEF AllUnspoilt

\* Giving up: what was adopted before is nothing.
LEMMA DeadlineKeeps ==
    ASSUME Books, AllUnspoilt, NEW c \in Calls, Deadline(c)
    PROVE  AllUnspoilt'
<1>1. PICK n \in Onward(call[c]) : Into(c, n)
  BY DEF Deadline
<1>2. Sound(call[c]) /\ Blank(call[c])
  BY DEF Deadline, TimeOut, AllUnspoilt, Unspoilt
<1>3. Later(call[c], n)
  BY <1>2, OnwardLater
<1>4. /\ c \notin awaited'
      /\ \A x \in Calls \ {c} : (x \in awaited' <=> x \in awaited) /\ late'[x] = late[x]
  BY DEF Deadline, TimeOut, Set, Books, Flags
<1>. QED  BY <1>1, <1>2, <1>3, <1>4, LaterKeeps DEF Into

\* A caller cancelled while its job runs adopts nothing.
LEMMA CancelFrameKeeps ==
    ASSUME Books, AllUnspoilt, NEW c \in Calls, CancelFrame(c)
    PROVE  AllUnspoilt'
<1>1. Later(call[c], Answered(call[c], "here", {}))
  BY AnsweredLater DEF AllUnspoilt, Unspoilt
<1>2. /\ c \notin awaited' /\ late' = late
      /\ \A x \in Calls \ {c} : x \in awaited' <=> x \in awaited
  BY DEF CancelFrame, Abandon
<1>. QED  BY <1>1, <1>2, LaterKeeps DEF CancelFrame, Into

\* The steps of a handler outside the executor.
LEMMA LoopKeeps ==
    ASSUME AllUnspoilt, NEW c \in Calls, NEW n,
           ~At(c, "compressing"), Later(call[c], n), Into(c, n), UNCHANGED executor
    PROVE  AllUnspoilt'
<1>1. c \notin awaited
  BY DEF AllUnspoilt, Unspoilt
<1>. QED  BY <1>1, LaterKeeps DEF Into, executor, flags

\* What is not in the body cannot be sent.
LEMMA PostIsLater ==
    ASSUME NEW r, Sound(r), r.kind \in Senders
    PROVE  Later(r, [[r EXCEPT !.pc = "posting"] EXCEPT !.wire = Wire(r), !.marked = r.marked])
<1>1. Blank(r) => Wire(r).items = {} /\ (Wire(r).changes # {} => r.marked)
  BY DEF Blank, Wire, Nothing
<1>. QED  BY <1>1 DEF Later, Sound, Fields, Blank, Past

\* Nor by a stream that is handed on with its request.
LEMMA OpenIsLater ==
    ASSUME NEW r, Sound(r)
    PROVE  Later(r, [Answered(r, "here", {}) EXCEPT !.wire = Wire(r), !.marked = r.marked])
<1>1. Blank(r) => Wire(r).items = {} /\ (Wire(r).changes # {} => r.marked)
  BY DEF Blank, Wire, Nothing
<1>. QED  BY <1>1 DEF Answered, Fresh, Later, Sound, Fields, Blank, Past

\* The body is written.
LEMMA WriteKeeps ==
    ASSUME AllUnspoilt, NEW c \in Calls, Write(c)
    PROVE  AllUnspoilt'
<1>. DEFINE r == call[c]
            post == [[r EXCEPT !.pc = "posting"] EXCEPT !.wire = Wire(r), !.marked = r.marked]
            open == [Answered(r, "here", {}) EXCEPT !.wire = Wire(r), !.marked = r.marked]
<1>1. Sound(r) /\ r.kind \in Senders /\ ~At(c, "compressing")
  BY DEF Write, AllUnspoilt, Unspoilt, At, Past
<1>2. /\ UNCHANGED executor
      /\ Into(c, post) \/ Into(c, open) \/ \E n \in Raised(r) : Into(c, n)
  BY DEF Write
<1>3. Later(r, post) /\ Later(r, open) /\ \A n \in Raised(r) : Later(r, n)
  BY <1>1, PostIsLater, OpenIsLater, RaisedLater
<1>. HIDE DEF post, open
<1>. QED  BY <1>1, <1>2, <1>3, LoopKeeps

\* A request to the upstream and what becomes of its reply adopt nothing.
LEMMA PostKeeps ==
    ASSUME AllUnspoilt, NEW c \in Calls, Post(c)
    PROVE  AllUnspoilt'
<1>. DEFINE r == call[c]
            backoff == [r EXCEPT !.pc = "backoff"]
<1>1. Sound(r) /\ r.kind \in Senders /\ ~At(c, "compressing")
  BY DEF Post, AllUnspoilt, Unspoilt, At, Past
<1>2. Later(r, backoff)
  BY <1>1 DEF Later, Sound, Fields, Blank, Past
<1>3. \/ Into(c, backoff)
      \/ \E reply \in Replies : \E n \in Taken(r, reply) : Into(c, n)
      \/ \E n \in Raised(r) : Into(c, n)
  BY DEF Post
<1>4. UNCHANGED executor
  BY DEF Post
<1>5. CASE Into(c, backoff)
  BY <1>1, <1>2, <1>4, <1>5, LoopKeeps
<1>6. ASSUME NEW reply \in Replies, NEW n \in Taken(r, reply), Into(c, n) PROVE AllUnspoilt'
  <2>1. Later(r, n)
    BY <1>1, TakenLater
  <2>. QED  BY <1>1, <1>4, <1>6, <2>1, LoopKeeps
<1>7. ASSUME NEW n \in Raised(r), Into(c, n) PROVE AllUnspoilt'
  <2>1. Later(r, n)
    BY <1>1, RaisedLater
  <2>. QED  BY <1>1, <1>4, <1>7, <2>1, LoopKeeps
<1>. QED  BY <1>3, <1>5, <1>6, <1>7

\* A retry after a pause sends what was adopted before.
LEMMA BackoffKeeps ==
    ASSUME AllUnspoilt, NEW c \in Calls, Backoff(c)
    PROVE  AllUnspoilt'
<1>. DEFINE r == call[c]
<1>1. Sound(r) /\ r.kind \in Senders /\ ~At(c, "compressing")
  BY DEF Backoff, AllUnspoilt, Unspoilt, At, Past
<1>2. Later(r, Again(r))
  BY <1>1 DEF Again, Later, Sound, Fields, Blank, Past
<1>3. UNCHANGED executor /\ (Into(c, Again(r)) \/ \E n \in Taken(r, Stopped) : Into(c, n))
  BY DEF Backoff
<1>4. CASE Into(c, Again(r))
  BY <1>1, <1>2, <1>3, <1>4, LoopKeeps
<1>5. ASSUME NEW n \in Taken(r, Stopped), Into(c, n) PROVE AllUnspoilt'
  <2>1. Later(r, n)
    BY <1>1, TakenLater
  <2>. QED  BY <1>1, <1>3, <1>5, <2>1, LoopKeeps
<1>. QED  BY <1>3, <1>4, <1>5

\* Looking up what a reply asks for adopts nothing.
LEMMA RecallKeeps ==
    ASSUME AllUnspoilt, NEW c \in Calls, Recall(c)
    PROVE  AllUnspoilt'
<1>. DEFINE r == call[c]
            post == Send(r)
            give == Deliver(r, r.reply.status, r.reply.asks)
<1>1. Sound(r) /\ r.kind \in Senders /\ ~At(c, "compressing")
  BY DEF Recall, AllUnspoilt, Unspoilt, At, Past
<1>2. Later(r, post)
  BY <1>1, SendLater
<1>3. Later(r, give)
  BY <1>1, DeliverLater
<1>4. UNCHANGED executor /\ (Into(c, post) \/ Into(c, give))
  BY DEF Recall
<1>. QED  BY <1>1, <1>2, <1>3, <1>4, LoopKeeps

\* Memory put into a chat after its compression is no adoption.
LEMMA RememberChatKeeps ==
    ASSUME AllUnspoilt, NEW c \in Calls, RememberChat(c)
    PROVE  AllUnspoilt'
<1>. DEFINE r == call[c]
<1>1. Sound(r) /\ r.kind \in Senders /\ ~At(c, "compressing")
  BY DEF RememberChat, AllUnspoilt, Unspoilt, At, Senders
<1>2. /\ Sound(Edited(r)) /\ Edited(r).kind = r.kind /\ Edited(r).adopted = r.adopted
      /\ Blank(r) => Blank(Edited(r))
  BY <1>1, EditedIs
<1>3. Later(Edited(r), Send(Edited(r)))
  BY <1>1, <1>2, SendLater
<1>4. Later(r, Send(Edited(r)))
  BY <1>2, <1>3 DEF Later
<1>. QED  BY <1>1, <1>4, LoopKeeps DEF RememberChat

\* Memory put into a Responses call goes before its compression.
LEMMA RememberResponsesKeeps ==
    ASSUME Books, AllUnspoilt, NEW c \in Calls, RememberResponses(c)
    PROVE  AllUnspoilt'
<1>. DEFINE r == call[c]
<1>1. Sound(r) /\ Blank(r) /\ c \notin awaited
  BY DEF RememberResponses, AllUnspoilt, Unspoilt, At
<1>2. Sound(Edited(r)) /\ Blank(Edited(r))
  BY <1>1, EditedIs
<1>3. Compress(c, Edited(r)) \/ Compress(c, r)
  BY DEF RememberResponses
<1>. QED  BY <1>1, <1>2, <1>3, CompressKeeps

\* A thread's steps; the one that reaches into the caller's body adopts nothing.
LEMMA WorkerKeeps ==
    ASSUME AllUnspoilt, NEW c \in Calls, WorkerStep(c)
    PROVE  AllUnspoilt'
<1>1. CASE ShapeInPlace(c)
  <2>1. UNCHANGED <<awaited, late>>
    BY <1>1 DEF ShapeInPlace, executor, flags
  <2>2. CASE call' = call
    BY <2>1, <2>2, QuietKeeps
  <2>3. CASE call' = [call EXCEPT ![c].body = @ \cup {"shape"}]
    <3>1. /\ DOMAIN call' = Calls
          /\ call'[c] = [call[c] EXCEPT !.body = @ \cup {"shape"}]
          /\ \A x \in Calls \ {c} : call'[x] = call[x]
      BY <2>3 DEF AllUnspoilt
    <3>2. Unspoilt(c)'
      BY <2>1, <3>1 DEF AllUnspoilt, Unspoilt, Sound, At, Fields, Blank, Past
    <3>3. \A x \in Calls \ {c} : Unspoilt(x)'
      BY <2>1, <3>1 DEF AllUnspoilt, Unspoilt, At
    <3>. QED  BY <3>1, <3>2, <3>3 DEF AllUnspoilt
  <2>. QED  BY <1>1, <2>2, <2>3 DEF ShapeInPlace
<1>2. CASE Begin(c)
  BY <1>2, QuietKeeps DEF Begin, Start
<1>3. CASE Plan(c)
  BY <1>3, QuietKeeps DEF Plan, executor, flags
<1>4. ASSUME NEW i \in Items, CompressUnit(c, i) PROVE AllUnspoilt'
  BY <1>4, QuietKeeps DEF CompressUnit, executor, flags
<1>5. CASE StopAtBudget(c)
  BY <1>5, QuietKeeps DEF StopAtBudget, executor, flags
<1>6. CASE End(c)
  BY <1>6, QuietKeeps DEF End, Finish
<1>. QED  BY <1>1, <1>2, <1>3, <1>4, <1>5, <1>6 DEF WorkerStep

\* Every step keeps every call unspoilt.
LEMMA AllKept == Books /\ AllUnspoilt /\ [Next]_vars => AllUnspoilt'
<1>. SUFFICES ASSUME Books, AllUnspoilt, [Next]_vars PROVE AllUnspoilt'
  OBVIOUS
<1>1. ASSUME NEW c \in Calls, Refuse(c) \/ AnswerFromCache(c) PROVE AllUnspoilt'
  <2>1. PICK status, asks : Into(c, Answered(call[c], status, asks))
    BY <1>1 DEF Refuse, AnswerFromCache
  <2>2. UNCHANGED executor /\ ~At(c, "compressing")
    BY <1>1 DEF Refuse, AnswerFromCache, At
  <2>3. Later(call[c], Answered(call[c], status, asks))
    BY AnsweredLater DEF AllUnspoilt, Unspoilt
  <2>. QED  BY <2>1, <2>2, <2>3, LoopKeeps
<1>2. ASSUME NEW c \in Calls, Arrive(c) PROVE AllUnspoilt'
  BY <1>2, ArriveKeeps
<1>3. ASSUME NEW c \in Calls, HandlerStep(c) PROVE AllUnspoilt'
  BY <1>3, RememberChatKeeps, RememberResponsesKeeps, ResumeKeeps, DeadlineKeeps, WriteKeeps,
     PostKeeps, BackoffKeeps, RecallKeeps DEF HandlerStep
<1>4. ASSUME NEW c \in Calls, CancelFrame(c) PROVE AllUnspoilt'
  BY <1>4, CancelFrameKeeps
<1>5. ASSUME NEW c \in Calls, WorkerStep(c) PROVE AllUnspoilt'
  BY <1>5, WorkerKeeps
<1>6. CASE Take
  BY <1>6, QuietKeeps DEF Take, Pick
<1>7. CASE Shutdown
  BY <1>7, QuietKeeps DEF Shutdown, executor, flags
<1>8. ASSUME NEW i \in Items, Evict(i) PROVE AllUnspoilt'
  BY <1>8, QuietKeeps DEF Evict, executor, flags
<1>9. CASE UNCHANGED vars
  BY <1>9, QuietKeeps DEF vars, executor, flags
<1>. QED  BY <1>1, <1>2, <1>3, <1>4, <1>5, <1>6, <1>7, <1>8, <1>9 DEF Next

\* A call that has not begun has adopted nothing.
LEMMA CallsStartUnspoilt == Init => AllUnspoilt
BY DEF Init, ExecutorInit, AllUnspoilt, Unspoilt, Sound, Fresh, Fields, Senders, At, Blank,
      Past, Nothing

\* For any number of calls and workers and any conversation: nothing a worker
\* still compresses for a caller that gave up is in the body of that call or in what
\* it sends, and the dictionary that worker may shape is sent only in a body that is
\* written anew for another reason.
THEOREM LateWorkIsUnused == Spec => []LateWorkUnused
<1>1. AllUnspoilt => LateWorkUnused
  BY DEF AllUnspoilt, Unspoilt, Blank, LateWorkUnused
<1>. QED  BY <1>1, CallsStartUnspoilt, AllKept, CallsKeepBooks, PTL DEF Spec

-----------------------------------------------------------------------------
(* Every step of a handler comes nearer to its answer. *)

\* A record of a call in which attempts and rounds are within their limits, only
\* a Responses call is buffered, and nothing that asks for a retrieval is kept
\* for it.
Proper(r) ==
    /\ r.attempt \in 1 .. Attempts
    /\ r.round \in 0 .. Rounds
    /\ r.pc = "backoff" => r.attempt < Attempts
    /\ r.kind = "backend" => r.phase # "recall"
    /\ r.pc = "idle" => r.mode # "buffered" /\ r.phase = "first"
    /\ r.mode = "buffered" => r.kind = "responses"
    /\ r.mode = "buffered" \/ r.pc # "done" => "retrieve" \notin r.answer.asks
    /\ r.reply.status = "ok" \/ "retrieve" \notin r.reply.asks

\* n may follow r.
ComesAfter(r, n) ==
    /\ Proper(n)
    /\ r.pc # "idle" => Nearer(n, r)
    /\ r.pc = "backoff" /\ n.pc = "posting" => n.wire = r.wire

\* Two records agree in some fields.
EqualIn(r, n, S) == \A f \in S : n[f] = r[f]

\* The bounds are numbers.
LEMMA BoundsAreNat == Attempts \in Nat \ {0} /\ Rounds \in Nat \ {0}
BY CallsAssumption

\* What is left of a call, place by place.
LEMMA StepsAt ==
    ASSUME NEW r
    PROVE  /\ r.pc = "backoff" => Steps(r) = 2 * (Attempts - r.attempt)
           /\ r.pc = "posting" => Steps(r) = 2 * (Attempts - r.attempt) + 1
           /\ r.pc = "sending" => Steps(r) = 2 * (Attempts - r.attempt) + 2
           /\ r.pc = "memory" /\ r.kind = "responses" => Steps(r) = 2 * Attempts + 3
           /\ r.pc = "memory" /\ r.kind # "responses" => Steps(r) = 2 * Attempts + 1
           /\ r.pc \in {"compressing", "recalling"} => Steps(r) = 2 * Attempts + 2
<1>1. CASE r.pc = "backoff"
  BY <1>1 DEF Steps
<1>2. CASE r.pc = "posting"
  BY <1>2 DEF Steps
<1>3. CASE r.pc = "memory"
  BY <1>3 DEF Steps
<1>4. CASE r.pc \in {"compressing", "recalling"}
  BY <1>4 DEF Steps
<1>5. CASE r.pc = "sending"
  BY <1>5 DEF Steps
<1>. QED  BY <1>1, <1>2, <1>3, <1>4, <1>5

\* An answer that asks a buffered client for nothing ends the call properly.
LEMMA AnsweredFollows ==
    ASSUME NEW r, NEW status, NEW asks, Sound(r), Proper(r), r.pc # "done",
           r.mode = "buffered" => "retrieve" \notin asks
    PROVE  ComesAfter(r, Answered(r, status, asks)) /\ Answered(r, status, asks).pc = "done"
<1>. DEFINE n == Answered(r, status, asks)
<1>1. /\ n.pc = "done" /\ n.kind = r.kind /\ n.mode = r.mode /\ n.phase = "first"
      /\ n.attempt = 1 /\ n.round = 0 /\ n.reply = NoReply
      /\ n.answer = [status |-> status, asks |-> asks \cap {"retrieve"}]
  BY DEF Answered, Fresh
<1>2. Proper(n)
  BY <1>1, BoundsAreNat DEF Proper, NoReply
<1>3. Nearer(n, r)
  BY <1>1 DEF Nearer
<1>. QED  BY <1>1, <1>2, <1>3 DEF ComesAfter

\* Delivering a reply that asks for something only if it is "ok".
LEMMA DeliverFollows ==
    ASSUME NEW r, NEW status, NEW asks, Sound(r), Proper(r), r.pc # "done",
           status = "ok" \/ "retrieve" \notin asks
    PROVE  ComesAfter(r, Deliver(r, status, asks)) /\ Deliver(r, status, asks).pc = "done"
BY AnsweredFollows DEF Deliver

\* The body is together: from the compression, the memory or the memory's tools,
\* one step nearer.
LEMMA SendFollows ==
    ASSUME NEW r, Sound(r), Proper(r), r.pc \in {"idle", "memory", "compressing", "recalling"}
    PROVE  ComesAfter(r, Send(r))
<1>. DEFINE out == Send(r)
<1>1. out.pc = "sending" /\ EqualIn(r, out, Fields \ {"pc"})
  BY DEF Send, Sound, Fields, EqualIn
<1>2. Proper(out)
  BY <1>1 DEF Proper, EqualIn, Fields
<1>3. Continuations(out) = Continuations(r)
  BY <1>1 DEF Continuations, EqualIn, Fields
<1>4. Steps(out) = 2 * (Attempts - r.attempt) + 2
  BY <1>1, StepsAt DEF EqualIn, Fields
<1>5. CASE r.pc = "idle"
  BY <1>1, <1>2, <1>5 DEF ComesAfter
<1>6. CASE r.pc \in {"memory", "compressing", "recalling"}
  <2>1. \/ Steps(r) = 2 * Attempts + 3 \/ Steps(r) = 2 * Attempts + 1
        \/ Steps(r) = 2 * Attempts + 2
    BY <1>6, StepsAt
  <2>2. Steps(out) < Steps(r)
    BY <1>4, <2>1, BoundsAreNat DEF Proper
  <2>. QED  BY <1>1, <1>2, <1>3, <1>6, <2>2 DEF ComesAfter, Nearer
<1>. QED  BY <1>5, <1>6

\* Marking a body changes nothing that is counted or kept here.
LEMMA SameFollows ==
    ASSUME NEW r, NEW s, NEW n, EqualIn(r, s, Fields \ {"adopted", "marked"}),
           ComesAfter(s, n)
    PROVE  ComesAfter(r, n)
<1>1. /\ s.pc = r.pc /\ s.phase = r.phase /\ s.attempt = r.attempt /\ s.round = r.round
      /\ s.kind = r.kind /\ s.wire = r.wire
  BY DEF EqualIn, Fields
<1>2. Continuations(s) = Continuations(r) /\ Steps(s) = Steps(r)
  BY <1>1, Zenon DEF Continuations, Steps
<1>. QED  BY <1>1, <1>2 DEF ComesAfter, Nearer

\* What follows the compression, its failure, or a bypass of it.
LEMMA OnwardFollows ==
    ASSUME NEW r, Sound(r), Proper(r), NEW n \in Onward(r),
           \/ r.pc \in {"idle", "compressing"}
           \/ r.pc = "memory" /\ r.kind = "responses"
    PROVE  ComesAfter(r, n)
<1>1. CASE r.kind = "responses"
  <2>1. n \in {Send(Edited(r)), Send(r)}
    BY <1>1 DEF Onward, Shape
  <2>2. CASE n = Send(r)
    BY <2>2, SendFollows
  <2>3. CASE n = Send(Edited(r))
    <3>1. Sound(Edited(r)) /\ EqualIn(r, Edited(r), Fields \ {"adopted", "marked"})
      BY DEF Edited, Sound, Fields, EqualIn
    <3>2. Proper(Edited(r)) /\ Edited(r).pc \in {"idle", "memory", "compressing"}
      BY <3>1 DEF Proper, EqualIn, Fields
    <3>3. ComesAfter(Edited(r), n)
      BY <2>3, <3>1, <3>2, SendFollows
    <3>. QED  BY <3>1, <3>2, <3>3, SameFollows
  <2>. QED  BY <2>1, <2>2, <2>3
<1>2. CASE r.kind = "passthrough"
  BY <1>2, SendFollows DEF Onward
<1>3. CASE r.kind \in {"chat", "backend"}
  <2>1. n = [r EXCEPT !.pc = "memory"]
    BY <1>3 DEF Onward, SettleMessages
  <2>2. n.pc = "memory" /\ EqualIn(r, n, Fields \ {"pc"})
    BY <2>1 DEF Sound, Fields, EqualIn
  <2>3. Proper(n)
    BY <2>2 DEF Proper, EqualIn, Fields
  <2>4. CASE r.pc = "compressing"
    <3>1. Steps(r) = 2 * Attempts + 2 /\ Steps(n) = 2 * Attempts + 1
      BY <1>3, <2>2, <2>4, StepsAt DEF EqualIn, Fields
    <3>2. Continuations(n) = Continuations(r)
      BY <2>2 DEF Continuations, EqualIn, Fields
    <3>3. Nearer(n, r)
      BY <2>4, <3>1, <3>2, BoundsAreNat DEF Nearer
    <3>. QED  BY <2>3, <2>4, <3>3 DEF ComesAfter
  <2>. QED  BY <1>3, <2>3, <2>4 DEF ComesAfter
<1>4. CASE r.kind \in {"frame", "compress"}
  BY <1>4, AnsweredFollows DEF Onward
<1>. QED  BY <1>1, <1>2, <1>3, <1>4 DEF Sound, Senders

-----------------------------------------------------------------------------
(* From a reply to what is made of it. *)

\* A continuation is a call of the same client with all its attempts.
LEMMA ContinueIs ==
    ASSUME NEW r, NEW phase, Sound(r)
    PROVE  LET n == Continue(r, phase) IN
           /\ DOMAIN n = Fields
           /\ n.pc = "sending" /\ n.phase = phase /\ n.attempt = 1
           /\ EqualIn(r, n, {"kind", "mode", "round", "reply", "answer"})
BY DEF Continue, Sound, Fields, EqualIn

\* The memory's tools may be run for a reply, if they have not been.
LEMMA SettleFollows ==
    ASSUME NEW r, NEW status, NEW asks, Sound(r), Proper(r), r.pc \in {"posting", "backoff"},
           r.phase # "recall", status = "ok" \/ "retrieve" \notin asks,
           NEW n \in Settle(r, status, asks)
    PROVE  /\ Proper(n) /\ Nearer(n, r)
           /\ n.pc = "done" \/ "recall" \in asks
<1>. DEFINE next == Continue(r, "recall")
            recall == [next EXCEPT !.pc = "recalling", !.round = 0,
                                   !.reply = [status |-> status, asks |-> asks]]
<1>1. \/ n = Deliver(r, status, asks)
      \/ /\ n = recall
         /\ r.kind \in {"chat", "responses"} /\ status = "ok" /\ "recall" \in asks
  BY DEF Settle
<1>2. CASE n = Deliver(r, status, asks)
  BY <1>2, DeliverFollows DEF ComesAfter
<1>3. CASE /\ n = recall
           /\ r.kind \in {"chat", "responses"} /\ status = "ok" /\ "recall" \in asks
  <2>1. /\ n.pc = "recalling" /\ n.round = 0 /\ n.phase = "recall" /\ n.attempt = 1
        /\ n.reply = [status |-> status, asks |-> asks]
        /\ n.kind = r.kind /\ n.mode = r.mode /\ n.answer = r.answer
    BY <1>3, ContinueIs DEF EqualIn, Fields
  <2>2. Proper(n)
    BY <1>3, <2>1, BoundsAreNat DEF Proper
  <2>3. Continuations(n) = 0 /\ Continuations(r) = 1 + Rounds - r.round
    BY <2>1 DEF Continuations
  <2>4. 0 < 1 + Rounds - r.round
    BY BoundsAreNat DEF Proper
  <2>5. Nearer(n, r)
    BY <2>3, <2>4 DEF Nearer
  <2>. QED  BY <1>3, <2>2, <2>5
<1>. QED  BY <1>1, <1>2, <1>3

\* Retrievals may be resolved for it, as long as there are rounds left.
LEMMA ResolveFollows ==
    ASSUME NEW r, NEW status, NEW asks, Sound(r), Proper(r), r.pc \in {"posting", "backoff"},
           r.phase # "recall", status = "ok" \/ "retrieve" \notin asks,
           NEW n \in Resolve(r, status, asks)
    PROVE  /\ Proper(n) /\ Nearer(n, r)
           /\ n.pc = "done" \/ asks # {}
<1>1. \/ n \in Settle(r, status, asks)
      \/ n = Refetch(r) /\ r.round < Rounds /\ "retrieve" \in asks
  BY DEF Resolve
<1>2. CASE n \in Settle(r, status, asks)
  BY <1>2, SettleFollows
<1>3. CASE n = Refetch(r) /\ r.round < Rounds /\ "retrieve" \in asks
  <2>1. /\ n.pc = "sending" /\ n.round = r.round + 1 /\ n.phase = "retrieve" /\ n.attempt = 1
        /\ n.reply = r.reply /\ n.kind = r.kind /\ n.mode = r.mode /\ n.answer = r.answer
    BY <1>3, ContinueIs DEF Refetch, EqualIn, Fields
  <2>2. Proper(n)
    BY <1>3, <2>1, BoundsAreNat DEF Proper
  <2>3. Continuations(n) = 1 + Rounds - (r.round + 1) /\ Continuations(r) = 1 + Rounds - r.round
    BY <2>1 DEF Continuations
  <2>4. Continuations(n) < Continuations(r)
    BY <2>3, BoundsAreNat DEF Proper
  <2>5. Nearer(n, r)
    BY <2>4 DEF Nearer
  <2>. QED  BY <1>3, <2>2, <2>5
<1>. QED  BY <1>1, <1>2, <1>3

\* An exception answers the call.
LEMMA RaisedFollows ==
    ASSUME NEW r, Sound(r), Proper(r), r.pc # "done", NEW n \in Raised(r)
    PROVE  ComesAfter(r, n) /\ n.pc = "done"
<1>1. n = Deliver(r, r.reply.status, r.reply.asks) \/ n = Answered(r, "error", {})
  BY DEF Raised
<1>2. CASE n = Deliver(r, r.reply.status, r.reply.asks)
  BY <1>2, DeliverFollows DEF Proper
<1>3. CASE n = Answered(r, "error", {})
  BY <1>3, AnsweredFollows
<1>. QED  BY <1>1, <1>2, <1>3

\* Whatever is made of a reply that asks for something only if it is "ok".
LEMMA TakenFollows ==
    ASSUME NEW r, NEW reply, Sound(r), Proper(r), r.kind \in Senders,
           r.pc \in {"posting", "backoff"},
           reply.status = "ok" \/ "retrieve" \notin reply.asks,
           NEW n \in Taken(r, reply)
    PROVE  /\ Proper(n) /\ Nearer(n, r)
           /\ n.pc = "done" \/ reply.asks # {}
<1>0. r.pc # "done"
  OBVIOUS
<1>1. CASE n \in Raised(r)
  BY <1>0, <1>1, RaisedFollows DEF ComesAfter
<1>2. CASE r.phase # "recall"
           /\ (n \in Settle(r, reply.status, reply.asks) \/ n \in Resolve(r, reply.status, reply.asks))
  BY <1>2, SettleFollows, ResolveFollows
<1>3. CASE r.phase # "recall" /\ n \in Resolve(r, "ok", reply.asks)
  BY <1>3, ResolveFollows
<1>4. CASE n = Deliver(r, "ok", reply.asks) \/ n = Deliver(r, reply.status, reply.asks)
  BY <1>0, <1>4, DeliverFollows DEF ComesAfter
<1>5. CASE r.kind = "passthrough" /\ n = Answered(r, reply.status, reply.asks)
  <2>1. r.mode # "buffered"
    BY <1>5 DEF Proper
  <2>. QED  BY <1>0, <1>5, <2>1, AnsweredFollows DEF ComesAfter
<1>6. CASE r.kind = "chat"
  BY <1>1, <1>2, <1>4, <1>6 DEF Taken, TakenChat
<1>7. CASE r.kind = "responses"
  <2>0. n \in TakenResponses(r, reply)
    BY <1>7 DEF Taken
  <2>1. CASE ~reply.json
    BY <1>1, <2>0, <2>1 DEF TakenResponses
  <2>2. CASE reply.json /\ r.phase = "first"
    BY <1>2, <2>0, <2>2 DEF TakenResponses
  <2>3. CASE reply.json /\ r.phase = "retrieve"
    BY <1>3, <2>0, <2>3 DEF TakenResponses
  <2>4. CASE reply.json /\ r.phase = "recall"
    BY <1>4, <2>0, <2>4 DEF TakenResponses
  <2>. QED  BY <2>1, <2>2, <2>3, <2>4 DEF Sound
<1>8. CASE r.kind = "backend"
  <2>1. r.phase # "recall"
    BY <1>8 DEF Proper
  <2>. QED  BY <1>1, <1>2, <1>3, <1>8, <2>1 DEF Taken, TakenBackend
<1>9. CASE r.kind = "passthrough"
  BY <1>5, <1>9 DEF Taken, TakenPassthrough
<1>. QED  BY <1>6, <1>7, <1>8, <1>9 DEF Senders

-----------------------------------------------------------------------------
(* The steps of a call. *)

AllProper == \A c \in Calls : Proper(call[c])

\* A call takes a step of its own, or its body alone is changed under it.
Progress(c) ==
    \/ ComesAfter(call[c], call'[c])
    \/ EqualIn(call[c], call'[c], Fields \ {"body"})

\* One call takes a step.
LEMMA IntoProgresses ==
    ASSUME AllUnspoilt, NEW c \in Calls, NEW n, Into(c, n), ComesAfter(call[c], n)
    PROVE  \A x \in Calls : Progress(x)
<1>1. call'[c] = n /\ \A x \in Calls \ {c} : call'[x] = call[x]
  BY DEF Into, AllUnspoilt
<1>2. \A x \in Calls \ {c} : EqualIn(call[x], call'[x], Fields \ {"body"})
  BY <1>1 DEF EqualIn
<1>. QED  BY <1>1, <1>2 DEF Progress

\* Nobody takes one.
LEMMA QuietProgresses ==
    ASSUME UNCHANGED call
    PROVE  \A x \in Calls : Progress(x)
BY DEF Progress, EqualIn

\* Into the executor or past it, from an arrival or from the memory.
LEMMA CompressProgresses ==
    ASSUME AllUnspoilt, NEW c \in Calls, NEW r, Sound(r), Proper(r), Compress(c, r),
           \/ call[c].pc = "idle" /\ r.pc = "idle"
           \/ /\ r.pc = "memory" /\ r.kind = "responses"
              /\ EqualIn(call[c], r, Fields \ {"adopted", "marked"})
    PROVE  \A x \in Calls : Progress(x)
<1>1. ASSUME NEW n, ComesAfter(r, n) PROVE ComesAfter(call[c], n)
  <2>1. CASE call[c].pc = "idle"
    BY <1>1, <2>1 DEF ComesAfter
  <2>2. CASE EqualIn(call[c], r, Fields \ {"adopted", "marked"})
    BY <1>1, <2>2, SameFollows
  <2>. QED  BY <2>1, <2>2
<1>2. CASE Into(c, [r EXCEPT !.pc = "compressing"])
  <2>. DEFINE n == [r EXCEPT !.pc = "compressing"]
  <2>1. n.pc = "compressing" /\ EqualIn(r, n, Fields \ {"pc"})
    BY DEF Sound, Fields, EqualIn
  <2>2. Proper(n)
    BY <2>1 DEF Proper, EqualIn, Fields
  <2>3. ComesAfter(r, n)
    <3>1. CASE r.pc = "idle"
      BY <2>2, <3>1 DEF ComesAfter
    <3>2. CASE r.pc = "memory" /\ r.kind = "responses"
      <4>1. Steps(r) = 2 * Attempts + 3 /\ Steps(n) = 2 * Attempts + 2
        BY <2>1, <3>2, StepsAt
      <4>2. Continuations(n) = Continuations(r)
        BY <2>1 DEF Continuations, EqualIn, Fields
      <4>3. Nearer(n, r)
        BY <3>2, <4>1, <4>2, BoundsAreNat DEF Nearer
      <4>. QED  BY <2>2, <3>2, <4>3 DEF ComesAfter
    <3>. QED  BY <3>1, <3>2
  <2>. QED  BY <1>1, <1>2, <2>3, IntoProgresses
<1>3. ASSUME NEW n \in Onward(r), Into(c, n) PROVE \A x \in Calls : Progress(x)
  <2>1. ComesAfter(r, n)
    BY OnwardFollows
  <2>. QED  BY <1>1, <1>3, <2>1, IntoProgresses
<1>. QED  BY <1>2, <1>3 DEF Compress

\* An arrival of any kind.
LEMMA ArriveProgresses ==
    ASSUME AllUnspoilt, AllProper, NEW c \in Calls, Arrive(c)
    PROVE  \A x \in Calls : Progress(x)
<1>1. Sound(call[c]) /\ Proper(call[c]) /\ call[c].pc = "idle"
  BY DEF Arrive, AllUnspoilt, Unspoilt, AllProper, At
<1>2. CASE ArriveFrame(c)
  <2>1. PICK n : Compress(c, [call[c] EXCEPT !.kind = "frame", !.items = n])
    BY <1>2 DEF ArriveFrame
  <2>. DEFINE r == [call[c] EXCEPT !.kind = "frame", !.items = n]
  <2>2. r.kind = "frame" /\ Sound(r) /\ EqualIn(call[c], r, Fields \ {"kind", "items"})
    BY <1>1 DEF Sound, Fields, Senders, EqualIn
  <2>3. Proper(r) /\ r.pc = "idle"
    BY <1>1, <2>2 DEF Proper, EqualIn, Fields
  <2>. QED  BY <1>1, <2>1, <2>2, <2>3, CompressProgresses
<1>3. CASE ArriveChat(c)
  <2>1. PICK kind \in {"chat", "backend"}, mode \in {"json", "stream"} :
            Compress(c, [call[c] EXCEPT !.kind = kind, !.mode = mode])
    BY <1>3 DEF ArriveChat
  <2>. DEFINE r == [call[c] EXCEPT !.kind = kind, !.mode = mode]
  <2>2. r.kind = kind /\ r.mode = mode /\ Sound(r) /\ EqualIn(call[c], r, Fields \ {"kind", "mode"})
    BY <1>1 DEF Sound, Fields, Senders, EqualIn
  <2>3. Proper(r) /\ r.pc = "idle"
    BY <1>1, <2>2 DEF Proper, EqualIn, Fields
  <2>. QED  BY <1>1, <2>1, <2>2, <2>3, CompressProgresses
<1>4. CASE ArriveResponses(c)
  <2>1. PICK n, mode, stored :
            Into(c, [call[c] EXCEPT !.kind = "responses", !.mode = mode, !.items = n,
                                    !.body = stored, !.pc = "memory"])
    BY <1>4 DEF ArriveResponses
  <2>. DEFINE r == [call[c] EXCEPT !.kind = "responses", !.mode = mode, !.items = n,
                                   !.body = stored, !.pc = "memory"]
  <2>2. /\ r.kind = "responses" /\ r.pc = "memory"
        /\ EqualIn(call[c], r, Fields \ {"kind", "mode", "items", "body", "pc"})
    BY <1>1 DEF Sound, Fields, EqualIn
  <2>3. Proper(r)
    BY <1>1, <2>2 DEF Proper, EqualIn, Fields
  <2>4. ComesAfter(call[c], r)
    BY <1>1, <2>3 DEF ComesAfter
  <2>. QED  BY <2>1, <2>4, IntoProgresses
<1>5. CASE ArrivePassthrough(c)
  <2>1. PICK n : Compress(c, [call[c] EXCEPT !.kind = "passthrough", !.items = n])
    BY <1>5 DEF ArrivePassthrough
  <2>. DEFINE r == [call[c] EXCEPT !.kind = "passthrough", !.items = n]
  <2>2. r.kind = "passthrough" /\ Sound(r) /\ EqualIn(call[c], r, Fields \ {"kind", "items"})
    BY <1>1 DEF Sound, Fields, Senders, EqualIn
  <2>3. Proper(r) /\ r.pc = "idle"
    BY <1>1, <2>2 DEF Proper, EqualIn, Fields
  <2>. QED  BY <1>1, <2>1, <2>2, <2>3, CompressProgresses
<1>6. CASE ArriveCompress(c)
  <2>. DEFINE r == [call[c] EXCEPT !.kind = "compress"]
  <2>1. r.kind = "compress" /\ Sound(r) /\ EqualIn(call[c], r, Fields \ {"kind"})
    BY <1>1 DEF Sound, Fields, Senders, EqualIn
  <2>2. Proper(r) /\ r.pc = "idle"
    BY <1>1, <2>1 DEF Proper, EqualIn, Fields
  <2>. QED  BY <1>1, <1>6, <2>1, <2>2, CompressProgresses DEF ArriveCompress
<1>. QED  BY <1>2, <1>3, <1>4, <1>5, <1>6 DEF Arrive

\* The body is written, and sent unless the way to the upstream fails first.
LEMMA WriteProgresses ==
    ASSUME AllUnspoilt, AllProper, NEW c \in Calls, Write(c)
    PROVE  \A x \in Calls : Progress(x)
<1>. DEFINE r == call[c]
            post == [[r EXCEPT !.pc = "posting"] EXCEPT !.wire = Wire(r), !.marked = r.marked]
            open == [Answered(r, "here", {}) EXCEPT !.wire = Wire(r), !.marked = r.marked]
<1>1. Sound(r) /\ Proper(r) /\ r.pc = "sending" /\ r.pc # "done" /\ r.pc # "idle"
  BY DEF Write, AllUnspoilt, Unspoilt, AllProper, At
<1>2. Into(c, post) \/ Into(c, open) \/ \E n \in Raised(r) : Into(c, n)
  BY DEF Write
<1>3. CASE Into(c, post)
  <2>1. post.pc = "posting" /\ EqualIn(r, post, Fields \ {"pc", "wire"})
    BY <1>1 DEF Sound, Fields, EqualIn
  <2>. HIDE DEF post
  <2>2. Proper(post)
    BY <1>1, <2>1 DEF Proper, EqualIn, Fields
  <2>3. Steps(r) = 2 * (Attempts - r.attempt) + 2 /\ Steps(post) = 2 * (Attempts - r.attempt) + 1
    BY <1>1, <2>1, StepsAt DEF EqualIn, Fields
  <2>4. Steps(post) < Steps(r)
    BY <1>1, <2>3, BoundsAreNat DEF Proper
  <2>5. Continuations(post) = Continuations(r)
    BY <2>1 DEF Continuations, EqualIn, Fields
  <2>6. ComesAfter(r, post)
    BY <1>1, <2>2, <2>4, <2>5 DEF ComesAfter, Nearer
  <2>. QED  BY <1>3, <2>6, IntoProgresses
<1>4. CASE Into(c, open)
  <2>. DEFINE n == Answered(r, "here", {})
  <2>1. ComesAfter(r, n) /\ n.pc = "done" /\ Sound(n)
    BY <1>1, AnsweredFollows, AnsweredLater DEF Later
  <2>2. EqualIn(n, open, Fields \ {"wire", "marked"})
    BY <2>1 DEF Sound, Fields, EqualIn
  <2>. HIDE DEF n, open
  <2>3. Proper(open) /\ open.pc = "done"
    BY <2>1, <2>2 DEF ComesAfter, Proper, EqualIn, Fields
  <2>4. ComesAfter(r, open)
    BY <1>1, <2>3 DEF ComesAfter, Nearer
  <2>. QED  BY <1>4, <2>4, IntoProgresses
<1>5. ASSUME NEW n \in Raised(r), Into(c, n) PROVE \A x \in Calls : Progress(x)
  <2>1. ComesAfter(r, n)
    BY <1>1, RaisedFollows
  <2>. QED  BY <1>5, <2>1, IntoProgresses
<1>. QED  BY <1>2, <1>3, <1>4, <1>5

\* A request and what becomes of its reply.
LEMMA PostProgresses ==
    ASSUME AllUnspoilt, AllProper, NEW c \in Calls, Post(c)
    PROVE  \A x \in Calls : Progress(x)
<1>. DEFINE r == call[c]
            backoff == [r EXCEPT !.pc = "backoff"]
<1>1. Sound(r) /\ Proper(r) /\ r.kind \in Senders /\ r.pc = "posting"
  BY DEF Post, AllUnspoilt, Unspoilt, AllProper, At, Past
<1>2. \/ ~LastAttempt(r) /\ Into(c, backoff)
      \/ \E reply \in Replies : \E n \in Taken(r, reply) : Into(c, n)
      \/ \E n \in Raised(r) : Into(c, n)
  BY DEF Post
<1>3. CASE ~LastAttempt(r) /\ Into(c, backoff)
  <2>1. backoff.pc = "backoff" /\ EqualIn(r, backoff, Fields \ {"pc"})
    BY <1>1 DEF Sound, Fields, EqualIn
  <2>2. r.attempt < Attempts
    BY <1>1, <1>3, BoundsAreNat DEF LastAttempt, Proper
  <2>3. Proper(backoff)
    BY <1>1, <2>1, <2>2 DEF Proper, EqualIn, Fields
  <2>4. Steps(r) = 2 * (Attempts - r.attempt) + 1 /\ Steps(backoff) = 2 * (Attempts - r.attempt)
    BY <1>1, <2>1, StepsAt DEF EqualIn, Fields
  <2>5. Steps(backoff) < Steps(r)
    BY <1>1, <2>4, BoundsAreNat DEF Proper
  <2>6. Continuations(backoff) = Continuations(r)
    BY <2>1 DEF Continuations, EqualIn, Fields
  <2>7. ComesAfter(r, backoff)
    BY <1>1, <2>3, <2>5, <2>6 DEF ComesAfter, Nearer
  <2>. QED  BY <1>3, <2>7, IntoProgresses
<1>4. ASSUME NEW reply \in Replies, NEW n \in Taken(r, reply), Into(c, n)
      PROVE  \A x \in Calls : Progress(x)
  <2>1. reply.status = "ok" \/ "retrieve" \notin reply.asks
    BY DEF Replies
  <2>2. ComesAfter(r, n)
    BY <1>1, <2>1, TakenFollows DEF ComesAfter
  <2>. QED  BY <1>4, <2>2, IntoProgresses
<1>5. ASSUME NEW n \in Raised(r), Into(c, n) PROVE \A x \in Calls : Progress(x)
  <2>1. ComesAfter(r, n)
    BY <1>1, RaisedFollows
  <2>. QED  BY <1>5, <2>1, IntoProgresses
<1>. QED  BY <1>2, <1>3, <1>4, <1>5

\* The next attempt, with the bytes of the last, or the shutdown's answer.
LEMMA BackoffProgresses ==
    ASSUME AllUnspoilt, AllProper, NEW c \in Calls, Backoff(c)
    PROVE  \A x \in Calls : Progress(x)
<1>. DEFINE r == call[c]
<1>1. Sound(r) /\ Proper(r) /\ r.kind \in Senders /\ r.pc = "backoff"
  BY DEF Backoff, AllUnspoilt, Unspoilt, AllProper, At, Past
<1>2. Into(c, Again(r)) \/ \E n \in Taken(r, Stopped) : Into(c, n)
  BY DEF Backoff
<1>3. CASE Into(c, Again(r))
  <2>. DEFINE n == Again(r)
  <2>1. /\ n.pc = "posting" /\ n.attempt = r.attempt + 1
        /\ EqualIn(r, n, Fields \ {"pc", "attempt"})
    BY <1>1 DEF Again, Sound, Fields, EqualIn
  <2>2. Proper(n)
    BY <1>1, <2>1, BoundsAreNat DEF Proper, EqualIn, Fields
  <2>3. /\ Steps(r) = 2 * (Attempts - r.attempt)
        /\ Steps(n) = 2 * (Attempts - (r.attempt + 1)) + 1
    BY <1>1, <2>1, StepsAt
  <2>4. Steps(n) < Steps(r)
    BY <1>1, <2>3, BoundsAreNat DEF Proper
  <2>5. Continuations(n) = Continuations(r) /\ n.wire = r.wire
    BY <2>1 DEF Continuations, EqualIn, Fields
  <2>6. ComesAfter(r, n)
    BY <1>1, <2>2, <2>4, <2>5 DEF ComesAfter, Nearer
  <2>. QED  BY <1>3, <2>6, IntoProgresses
<1>4. ASSUME NEW n \in Taken(r, Stopped), Into(c, n) PROVE \A x \in Calls : Progress(x)
  <2>1. Stopped.asks = {}
    BY DEF Stopped
  <2>2. Proper(n) /\ Nearer(n, r) /\ n.pc = "done"
    BY <1>1, <2>1, TakenFollows
  <2>3. ComesAfter(r, n)
    BY <2>2 DEF ComesAfter
  <2>. QED  BY <1>4, <2>3, IntoProgresses
<1>. QED  BY <1>2, <1>3, <1>4

\* The memory's tools have been run, or could not be.
LEMMA RecallProgresses ==
    ASSUME AllUnspoilt, AllProper, NEW c \in Calls, Recall(c)
    PROVE  \A x \in Calls : Progress(x)
<1>. DEFINE r == call[c]
            post == Send(r)
            give == Deliver(r, r.reply.status, r.reply.asks)
<1>1. Sound(r) /\ Proper(r) /\ r.pc = "recalling" /\ r.pc # "done"
  BY DEF Recall, AllUnspoilt, Unspoilt, AllProper, At
<1>2. Into(c, post) \/ Into(c, give)
  BY DEF Recall
<1>3. CASE Into(c, post)
  <2>1. ComesAfter(r, post)
    BY <1>1, SendFollows
  <2>. QED  BY <1>3, <2>1, IntoProgresses
<1>4. CASE Into(c, give)
  <2>1. ComesAfter(r, give)
    BY <1>1, DeliverFollows DEF Proper
  <2>. QED  BY <1>4, <2>1, IntoProgresses
<1>. QED  BY <1>2, <1>3, <1>4

\* A chat's memory is read and its body written.
LEMMA RememberChatProgresses ==
    ASSUME AllUnspoilt, AllProper, NEW c \in Calls, RememberChat(c)
    PROVE  \A x \in Calls : Progress(x)
<1>. DEFINE r == call[c]
<1>1. Sound(r) /\ Proper(r) /\ r.pc = "memory"
  BY DEF RememberChat, AllUnspoilt, Unspoilt, AllProper, At
<1>2. Sound(Edited(r)) /\ EqualIn(r, Edited(r), Fields \ {"adopted", "marked"})
  BY <1>1 DEF Edited, Sound, Fields, EqualIn
<1>3. Proper(Edited(r)) /\ Edited(r).pc = "memory"
  BY <1>1, <1>2 DEF Proper, EqualIn, Fields
<1>4. ComesAfter(Edited(r), Send(Edited(r)))
  BY <1>2, <1>3, SendFollows
<1>5. ComesAfter(r, Send(Edited(r)))
  BY <1>2, <1>4, SameFollows
<1>. QED  BY <1>5, IntoProgresses DEF RememberChat

\* A Responses call's memory is read, and its compression asked for.
LEMMA RememberResponsesProgresses ==
    ASSUME AllUnspoilt, AllProper, NEW c \in Calls, RememberResponses(c)
    PROVE  \A x \in Calls : Progress(x)
<1>. DEFINE r == call[c]
<1>1. Sound(r) /\ Proper(r) /\ r.pc = "memory" /\ r.kind = "responses"
  BY DEF RememberResponses, AllUnspoilt, Unspoilt, AllProper, At
<1>2. Sound(Edited(r)) /\ EqualIn(r, Edited(r), Fields \ {"adopted", "marked"})
  BY <1>1 DEF Edited, Sound, Fields, EqualIn
<1>3. Proper(Edited(r)) /\ Edited(r).pc = "memory" /\ Edited(r).kind = "responses"
  BY <1>1, <1>2 DEF Proper, EqualIn, Fields
<1>4. EqualIn(r, r, Fields \ {"adopted", "marked"})
  BY DEF EqualIn
<1>5. Compress(c, Edited(r)) \/ Compress(c, r)
  BY DEF RememberResponses
<1>. QED  BY <1>1, <1>2, <1>3, <1>4, <1>5, CompressProgresses

\* The compression is over, with its result, without one, or given up.
LEMMA WaitProgresses ==
    ASSUME AllUnspoilt, AllProper, NEW c \in Calls,
           Resume(c) \/ Deadline(c) \/ CancelFrame(c)
    PROVE  \A x \in Calls : Progress(x)
<1>1. Sound(call[c]) /\ Proper(call[c]) /\ call[c].pc = "compressing" /\ call[c].pc # "done"
  BY DEF Resume, Return, Deadline, TimeOut, CancelFrame, Abandon, AllUnspoilt, Unspoilt,
         AllProper, At
<1>2. CASE Resume(c)
  <2>. DEFINE r == IF work[c].ok THEN Adopt(c) ELSE call[c]
  <2>1. PICK n \in Onward(r) : Into(c, n)
    BY <1>2 DEF Resume
  <2>2. Sound(r) /\ EqualIn(call[c], r, Fields \ {"adopted", "marked"})
    BY <1>1 DEF Adopt, Sound, Fields, EqualIn
  <2>3. Proper(r) /\ r.pc = "compressing"
    BY <1>1, <2>2 DEF Proper, EqualIn, Fields
  <2>4. ComesAfter(r, n)
    BY <2>2, <2>3, OnwardFollows
  <2>5. ComesAfter(call[c], n)
    BY <2>2, <2>4, SameFollows
  <2>. QED  BY <2>1, <2>5, IntoProgresses
<1>3. CASE Deadline(c)
  <2>1. PICK n \in Onward(call[c]) : Into(c, n)
    BY <1>3 DEF Deadline
  <2>2. ComesAfter(call[c], n)
    BY <1>1, OnwardFollows
  <2>. QED  BY <2>1, <2>2, IntoProgresses
<1>4. CASE CancelFrame(c)
  <2>1. ComesAfter(call[c], Answered(call[c], "here", {}))
    BY <1>1, AnsweredFollows
  <2>. QED  BY <1>4, <2>1, IntoProgresses DEF CancelFrame
<1>. QED  BY <1>2, <1>3, <1>4

\* A thread changes no more of a call than its body.
LEMMA WorkerProgresses ==
    ASSUME AllUnspoilt, NEW c \in Calls, WorkerStep(c)
    PROVE  \A x \in Calls : Progress(x)
<1>1. CASE ShapeInPlace(c)
  <2>1. call' = call \/ call' = [call EXCEPT ![c].body = @ \cup {"shape"}]
    BY <1>1 DEF ShapeInPlace
  <2>2. CASE call' = [call EXCEPT ![c].body = @ \cup {"shape"}]
    <3>1. /\ call'[c] = [call[c] EXCEPT !.body = @ \cup {"shape"}]
          /\ \A x \in Calls \ {c} : call'[x] = call[x]
      BY <2>2 DEF AllUnspoilt
    <3>2. EqualIn(call[c], call'[c], Fields \ {"body"})
      BY <3>1 DEF AllUnspoilt, Unspoilt, Sound, Fields, EqualIn
    <3>3. \A x \in Calls \ {c} : EqualIn(call[x], call'[x], Fields \ {"body"})
      BY <3>1 DEF EqualIn
    <3>. QED  BY <3>2, <3>3 DEF Progress
  <2>. QED  BY <2>1, <2>2, QuietProgresses
<1>2. CASE ~ShapeInPlace(c)
  <2>1. UNCHANGED call
    BY <1>2 DEF WorkerStep, Begin, Plan, CompressUnit, StopAtBudget, End, Items
  <2>. QED  BY <2>1, QuietProgresses
<1>. QED  BY <1>1, <1>2

\* Whatever happens, every call takes a step of its own or keeps all but its body.
LEMMA AllProgress ==
    ASSUME AllUnspoilt, AllProper, [Next]_vars
    PROVE  \A x \in Calls : Progress(x)
<1>1. ASSUME NEW c \in Calls, Refuse(c) \/ AnswerFromCache(c) PROVE \A x \in Calls : Progress(x)
  <2>1. Sound(call[c]) /\ Proper(call[c]) /\ call[c].pc = "idle" /\ call[c].mode # "buffered"
    BY <1>1 DEF Refuse, AnswerFromCache, AllUnspoilt, Unspoilt, AllProper, Proper, At
  <2>2. PICK status, asks : Into(c, Answered(call[c], status, asks))
    BY <1>1 DEF Refuse, AnswerFromCache
  <2>3. ComesAfter(call[c], Answered(call[c], status, asks))
    BY <2>1, AnsweredFollows
  <2>. QED  BY <2>2, <2>3, IntoProgresses
<1>2. ASSUME NEW c \in Calls, Arrive(c) PROVE \A x \in Calls : Progress(x)
  BY <1>2, ArriveProgresses
<1>3. ASSUME NEW c \in Calls, HandlerStep(c) \/ CancelFrame(c)
      PROVE  \A x \in Calls : Progress(x)
  BY <1>3, RememberChatProgresses, RememberResponsesProgresses, WaitProgresses,
     WriteProgresses, PostProgresses, BackoffProgresses, RecallProgresses DEF HandlerStep
<1>4. ASSUME NEW c \in Calls, WorkerStep(c) PROVE \A x \in Calls : Progress(x)
  BY <1>4, WorkerProgresses
<1>5. CASE Take \/ Shutdown \/ UNCHANGED vars
  BY <1>5, QuietProgresses DEF Take, Shutdown, vars
<1>6. ASSUME NEW i \in Items, Evict(i) PROVE \A x \in Calls : Progress(x)
  BY <1>6, QuietProgresses DEF Evict
<1>. QED  BY <1>1, <1>2, <1>3, <1>4, <1>5, <1>6 DEF Next

\* The records stay proper.
LEMMA ProperKept ==
    ASSUME AllUnspoilt, AllProper, [Next]_vars
    PROVE  AllProper'
<1>. SUFFICES ASSUME NEW c \in Calls PROVE Proper(call'[c])
  BY DEF AllProper
<1>1. Proper(call[c]) /\ Progress(c)
  BY AllProgress DEF AllProper
<1>2. CASE EqualIn(call[c], call'[c], Fields \ {"body"})
  BY <1>1, <1>2 DEF Proper, EqualIn, Fields
<1>. QED  BY <1>1, <1>2 DEF Progress, ComesAfter

\* In every state the records of all calls are sound and proper.
LEMMA CallsStayProper == Spec => [](AllUnspoilt /\ AllProper)
<1>1. Init => AllUnspoilt /\ AllProper
  <2>. SUFFICES ASSUME Init PROVE AllUnspoilt /\ AllProper
    OBVIOUS
  <2>1. AllUnspoilt
    BY CallsStartUnspoilt
  <2>2. AllProper
    BY BoundsAreNat DEF Init, AllProper, Proper, Fresh, NoReply
  <2>. QED  BY <2>1, <2>2
<1>2. AllProper /\ AllUnspoilt /\ [Next]_vars => AllProper'
  BY ProperKept
<1>. QED  BY <1>1, <1>2, AllKept, CallsKeepBooks, PTL DEF Spec

\* For any limits of attempts and rounds and any number of calls and workers,
\* every step of a handler leaves less to do than there was.
THEOREM EveryCallWindsDown == Spec => CallsWindDown
<1>1. AllUnspoilt /\ AllProper /\ [Next]_vars
        => [\A c \in Calls : call[c].pc # "idle" /\ Moves(c) => Nearer(call'[c], call[c])]_vars
  <2>. SUFFICES ASSUME AllUnspoilt, AllProper, [Next]_vars, NEW c \in Calls,
                       call[c].pc # "idle", Moves(c)
                PROVE  Nearer(call'[c], call[c])
    OBVIOUS
  <2>1. Progress(c)
    BY AllProgress
  <2>2. DOMAIN call[c] = Fields
    BY DEF AllUnspoilt, Unspoilt, Sound
  <2>3. ~EqualIn(call[c], call'[c], Fields \ {"body"})
    BY <2>2 DEF Moves, EqualIn
  <2>. QED  BY <2>1, <2>3 DEF Progress, ComesAfter
<1>. QED  BY <1>1, CallsStayProper, PTL DEF Spec, CallsWindDown

\* Whatever the reply and the number of attempts, and whatever a thread does to
\* the body in between, a second attempt sends the bytes of the first.
THEOREM RetriesRepeatTheBytes == Spec => RetriesSendTheSame
<1>1. AllUnspoilt /\ AllProper /\ [Next]_vars
        => [\A c \in Calls : At(c, "backoff") /\ At(c, "posting")'
                               => call'[c].wire = call[c].wire]_vars
  <2>. SUFFICES ASSUME AllUnspoilt, AllProper, [Next]_vars, NEW c \in Calls,
                       At(c, "backoff"), At(c, "posting")'
                PROVE  call'[c].wire = call[c].wire
    OBVIOUS
  <2>1. Progress(c)
    BY AllProgress
  <2>2. CASE EqualIn(call[c], call'[c], Fields \ {"body"})
    BY <2>2 DEF EqualIn, Fields
  <2>. QED  BY <2>1, <2>2 DEF Progress, ComesAfter, At
<1>. QED  BY <1>1, CallsStayProper, PTL DEF Spec, RetriesSendTheSame

\* However many rounds and continuations a buffered stream goes through, what
\* its client gets contains no retrieval to answer.
THEOREM BufferedAnswersAskNothing == Spec => []BufferedNeverAsks
<1>1. AllProper => BufferedNeverAsks
  BY DEF AllProper, Proper, BufferedNeverAsks
<1>. QED  BY <1>1, CallsStayProper, PTL

-----------------------------------------------------------------------------
(* The items of a conversation. *)

\* A set of numbers that is not empty has a least one.
LEMMA Least ==
    ASSUME NEW N \in SUBSET Nat, N # {}
    PROVE  \E n \in N : \A k \in N : n <= k
<1> DEFINE R == OpToRel(<, Nat)
<1>1. IsWellFoundedOn(R, Nat)
  BY NatLessThanWellFounded
<1>2. \A x \in Nat, y \in Nat : <<x, y>> \in R <=> x < y
  BY DEF OpToRel
<1> HIDE DEF R
<1>3. PICK n \in N : \A k \in N : ~(<<k, n>> \in R)
  BY <1>1, WFMin
<1>4. \A k \in N : ~(k < n)
  BY <1>2, <1>3
<1>5. n \in Nat /\ \A k \in N : k \in Nat
  OBVIOUS
<1>6. QED
  BY <1>4, <1>5

HasMax(S) == \E m \in S : \A y \in S : m >= y

\* A finite set of numbers that is not empty has a largest.
LEMMA FiniteHasMax ==
    ASSUME NEW S \in SUBSET Nat, IsFiniteSet(S), S # {}
    PROVE  HasMax(S)
<1> DEFINE Bad(T) == T \in SUBSET Nat /\ IsFiniteSet(T) /\ T # {} /\ ~HasMax(T)
           N == {Cardinality(T) : T \in {U \in SUBSET Nat : Bad(U)}}
<1> SUFFICES ASSUME Bad(S) PROVE FALSE
  OBVIOUS
<1>1. N \in SUBSET Nat /\ N # {}
  BY FS_CardinalityType
<1>2. PICK n \in N : \A k \in N : n <= k
  BY <1>1, Least
<1>3. PICK T \in SUBSET Nat : Bad(T) /\ Cardinality(T) = n
  OBVIOUS
<1>4. PICK x \in T : TRUE
  BY <1>3
<1>5. /\ T \ {x} \in SUBSET Nat /\ IsFiniteSet(T \ {x})
      /\ Cardinality(T \ {x}) = Cardinality(T) - 1 /\ Cardinality(T) \in Nat
  BY <1>3, <1>4, FS_RemoveElement, FS_CardinalityType
<1>6. ~Bad(T \ {x})
  <2> SUFFICES ASSUME Bad(T \ {x}) PROVE FALSE
    OBVIOUS
  <2>1. Cardinality(T \ {x}) \in N
    OBVIOUS
  <2>2. n <= Cardinality(T) - 1
    BY <1>2, <1>5, <2>1
  <2>3. QED
    BY <1>3, <1>5, <2>2
<1>7. T \ {x} = {} \/ HasMax(T \ {x})
  BY <1>5, <1>6
<1>8. HasMax(T)
  <2>1. CASE T \ {x} = {}
    <3>1. T = {x} /\ x \in Nat
      BY <1>3, <1>4, <2>1
    <3>2. QED
      BY <3>1 DEF HasMax
  <2>2. CASE HasMax(T \ {x})
    <3>1. PICK m \in T \ {x} : \A y \in T \ {x} : m >= y
      BY <2>2 DEF HasMax
    <3>2. m \in Nat /\ x \in Nat /\ m \in T
      BY <1>3, <1>4, <3>1
    <3>3. CASE m >= x
      BY <3>1, <3>2, <3>3 DEF HasMax
    <3>4. CASE x > m
      <4>1. \A y \in T : y \in Nat /\ x >= y
        BY <1>3, <3>1, <3>2, <3>4
      <4>2. QED
        BY <1>4, <4>1 DEF HasMax
    <3>5. QED
      BY <3>2, <3>3, <3>4
  <2>3. QED
    BY <1>7, <2>1, <2>2
<1>9. QED
  BY <1>3, <1>8

\* Max is that one.
LEMMA MaxIs ==
    ASSUME NEW S \in SUBSET Nat, IsFiniteSet(S), S # {}
    PROVE  Max(S) \in S /\ \A y \in S : y <= Max(S)
<1>1. PICK m \in S : \A y \in S : m >= y
  BY FiniteHasMax DEF HasMax
<1>2. Max(S) \in S /\ \A y \in S : Max(S) >= y
  BY <1>1 DEF Max
<1>3. QED
  BY <1>2

\* The items are the numbers up to the longest conversation.
LEMMA ItemsAre ==
    /\ Items = 1 .. Max(Lengths) /\ Max(Lengths) \in Nat \ {0}
    /\ Lengths \subseteq Items /\ 1 \in Items /\ 0 \notin Items
<1>1. Lengths \in SUBSET Nat /\ IsFiniteSet(Lengths) /\ 1 \in Lengths /\ 0 \notin Lengths
  BY CallsAssumption
<1>2. Max(Lengths) \in Lengths /\ \A n \in Lengths : n <= Max(Lengths)
  BY <1>1, MaxIs
<1>3. Max(Lengths) \in Nat \ {0} /\ \A n \in Lengths : n \in Nat \ {0}
  BY <1>1, <1>2
<1>4. Items = 1 .. Max(Lengths)
  BY DEF Items
<1> HIDE DEF Items
<1>5. \A n \in Lengths : n \in 1 .. Max(Lengths)
  BY <1>2, <1>3
<1>6. 0 \notin 1 .. Max(Lengths)
  BY <1>3
<1>7. QED
  BY <1>1, <1>3, <1>4, <1>5, <1>6

\* What a worker may compress or replay are items of its call.
LEMMA SlotsAreItems ==
    ASSUME NEW n \in Items
    PROVE  Eligible(n) \subseteq Items /\ History(n) \subseteq Items
<1>1. n \in Nat \ {0} /\ 1 .. n \subseteq Items
  BY ItemsAre
<1>2. Users(n) \in SUBSET Nat /\ Users(n) \subseteq Items /\ IsFiniteSet(Users(n))
  <2>1. IsFiniteSet(1 .. n) /\ Users(n) \subseteq 1 .. n
    BY <1>1, FS_Interval DEF Users
  <2>2. 1 .. n \subseteq Nat
    BY <1>1
  <2>3. QED
    BY <1>1, <2>1, <2>2, FS_Subset
<1>3. 1 \in Users(n)
  BY <1>1, CallsAssumption DEF Users
<1>4. Live(n) \in Items
  BY <1>2, <1>3, MaxIs DEF Live
<1>5. QED
  BY <1>1, <1>2, <1>4 DEF Eligible, History

-----------------------------------------------------------------------------
(* The types of a record. *)

\* The fields of a record that TypeOK speaks of and Proper does not.
Typed(r) ==
    /\ r.pc \in Past \cup {"idle", "memory", "compressing", "done"}
    /\ r.mode \in {"json", "stream", "buffered"} /\ r.items \in Items
    /\ r.body \subseteq Changes /\ r.marked \in BOOLEAN
    /\ r.adopted \subseteq {0} \cup Items
    /\ r.reply \in Record({"none", "ok"}) /\ r.answer \in Record(Statuses)

\* n is r further on: with the same items.
Stays(r, n) == Typed(n) /\ n.items = r.items

\* An answered call keeps its items and its types.
LEMMA AnsweredStays ==
    ASSUME NEW r, Typed(r), NEW status \in Statuses, NEW asks \in Asks
    PROVE  Stays(r, Answered(r, status, asks))
<1> DEFINE n == Answered(r, status, asks)
<1>1. /\ n.pc = "done" /\ n.mode = r.mode /\ n.items = r.items /\ n.body = {}
      /\ n.marked = FALSE /\ n.adopted = {} /\ n.reply = NoReply
      /\ n.answer = [status |-> status, asks |-> asks \cap {"retrieve"}]
  BY DEF Answered, Fresh
<1>2. n.reply \in Record({"none", "ok"}) /\ n.answer \in Record(Statuses)
  <2>1. {} \in Asks /\ asks \cap {"retrieve"} \in Asks
    BY DEF Asks
  <2>2. QED
    BY <1>1, <2>1 DEF Record, NoReply
<1> HIDE DEF n
<1>3. Stays(r, n)
  BY <1>1, <1>2 DEF Stays, Typed, Past
<1>4. QED
  BY <1>3 DEF n

\* So does one that is answered after the check of what is left to ask.
LEMMA DeliverStays ==
    ASSUME NEW r, Typed(r), NEW status \in Statuses, NEW asks \in Asks
    PROVE  Stays(r, Deliver(r, status, asks))
<1>1. "error" \in Statuses /\ {} \in Asks
  BY DEF Statuses, Asks
<1>2. QED
  BY <1>1, AnsweredStays DEF Deliver

\* So does one whose body is together.
LEMMA SendStays ==
    ASSUME NEW r, Sound(r), Typed(r)
    PROVE  Stays(r, Send(r))
<1> DEFINE n == Send(r)
<1>1. /\ n.pc = "sending" /\ n.mode = r.mode /\ n.items = r.items /\ n.body = r.body
      /\ n.marked = r.marked /\ n.adopted = r.adopted /\ n.reply = r.reply
      /\ n.answer = r.answer
  BY DEF Send, Sound, Fields
<1>2. QED
  BY <1>1 DEF Stays, Typed, Past

\* So does one whose body is marked.
LEMMA EditedStays ==
    ASSUME NEW r, Sound(r), Typed(r)
    PROVE  Stays(r, Edited(r)) /\ Sound(Edited(r))
<1> DEFINE n == Edited(r)
<1>1. /\ n.pc = r.pc /\ n.mode = r.mode /\ n.items = r.items /\ n.body = r.body
      /\ n.marked = TRUE /\ n.adopted = r.adopted /\ n.reply = r.reply
      /\ n.answer = r.answer
  BY DEF Edited, Sound, Fields
<1>2. Sound(n)
  BY DEF Edited, Sound, Fields
<1> HIDE DEF n
<1>3. Stays(r, n)
  BY <1>1 DEF Stays, Typed, Past
<1>4. QED
  BY <1>2, <1>3 DEF n

\* So does one that goes on after its compression.
LEMMA OnwardStays ==
    ASSUME NEW r, Sound(r), Typed(r), NEW n \in Onward(r)
    PROVE  Stays(r, n)
<1>1. CASE r.kind = "responses"
  <2>1. n \in {Send(Edited(r)), Send(r)}
    BY <1>1 DEF Onward, Shape
  <2>2. Stays(Edited(r), Send(Edited(r))) /\ Stays(r, Edited(r)) /\ Stays(r, Send(r))
    BY EditedStays, SendStays DEF Stays
  <2>3. QED
    BY <2>1, <2>2 DEF Stays
<1>2. CASE r.kind = "passthrough"
  BY <1>2, SendStays DEF Onward
<1>3. CASE r.kind \in {"chat", "backend"}
  <2>1. n = [r EXCEPT !.pc = "memory"]
    BY <1>3 DEF Onward, SettleMessages
  <2>2. /\ n.pc = "memory" /\ n.mode = r.mode /\ n.items = r.items /\ n.body = r.body
        /\ n.marked = r.marked /\ n.adopted = r.adopted /\ n.reply = r.reply
        /\ n.answer = r.answer
    BY <2>1 DEF Sound, Fields
  <2>3. QED
    BY <2>2 DEF Stays, Typed, Past
<1>4. CASE r.kind \in {"frame", "compress"}
  <2>1. "here" \in Statuses /\ {} \in Asks
    BY DEF Statuses, Asks
  <2>2. QED
    BY <1>4, <2>1, AnsweredStays DEF Onward
<1>5. QED
  BY <1>1, <1>2, <1>3, <1>4 DEF Sound, Senders

\* A continuation, at whatever place and in whatever round, with a reply in hand.
LEMMA ContinueStays ==
    ASSUME NEW r, Sound(r), Typed(r), NEW phase \in {"retrieve", "recall"}
    PROVE  Stays(r, Continue(r, phase)) /\ DOMAIN Continue(r, phase) = Fields
<1> DEFINE n == Continue(r, phase)
<1>1. /\ n.pc = "sending" /\ n.mode = r.mode /\ n.items = r.items /\ n.body = r.body
      /\ n.marked = TRUE /\ n.adopted = r.adopted /\ n.reply = r.reply
      /\ n.answer = r.answer /\ DOMAIN n = Fields
  BY DEF Continue, Sound, Fields
<1> HIDE DEF n
<1>2. Stays(r, n)
  BY <1>1 DEF Stays, Typed, Past
<1>3. QED
  BY <1>1, <1>2 DEF n

\* So does one that is settled or goes on with the memory's tools.
LEMMA SettleStays ==
    ASSUME NEW r, Sound(r), Typed(r), NEW status \in Statuses, NEW asks \in Asks,
           NEW n \in Settle(r, status, asks)
    PROVE  Stays(r, n)
<1> DEFINE next == Continue(r, "recall")
           recall == [next EXCEPT !.pc = "recalling", !.round = 0,
                                  !.reply = [status |-> status, asks |-> asks]]
<1>1. n = Deliver(r, status, asks) \/ (n = recall /\ status = "ok")
  BY DEF Settle
<1>2. Stays(r, next) /\ DOMAIN next = Fields
  BY ContinueStays
<1>3. ASSUME n = recall, status = "ok" PROVE Stays(r, n)
  <2> HIDE DEF next
  <2>1. /\ n.pc = "recalling" /\ n.mode = next.mode /\ n.items = next.items
        /\ n.body = next.body /\ n.marked = next.marked /\ n.adopted = next.adopted
        /\ n.reply = [status |-> status, asks |-> asks] /\ n.answer = next.answer
    BY <1>2, <1>3 DEF Fields
  <2>2. n.reply \in Record({"none", "ok"})
    BY <1>3, <2>1 DEF Record
  <2>3. QED
    BY <1>2, <2>1, <2>2 DEF Stays, Typed, Past
<1>4. QED
  BY <1>1, <1>3, DeliverStays

\* So does one that retrieves what a reply asks for.
LEMMA ResolveStays ==
    ASSUME NEW r, Sound(r), Typed(r), NEW status \in Statuses, NEW asks \in Asks,
           NEW n \in Resolve(r, status, asks)
    PROVE  Stays(r, n)
<1> DEFINE next == Continue(r, "retrieve")
<1>1. n \in Settle(r, status, asks) \/ n = [next EXCEPT !.round = @ + 1]
  BY DEF Resolve, Refetch
<1>2. Stays(r, next) /\ DOMAIN next = Fields
  BY ContinueStays
<1>3. ASSUME n = [next EXCEPT !.round = @ + 1] PROVE Stays(r, n)
  <2> HIDE DEF next
  <2>1. /\ n.pc = next.pc /\ n.mode = next.mode /\ n.items = next.items
        /\ n.body = next.body /\ n.marked = next.marked /\ n.adopted = next.adopted
        /\ n.reply = next.reply /\ n.answer = next.answer
    BY <1>2, <1>3 DEF Fields
  <2>2. QED
    BY <1>2, <2>1 DEF Stays, Typed, Past
<1>4. QED
  BY <1>1, <1>3, SettleStays

\* A reply that is kept has a known status and known tools.
LEMMA ReplyTyped ==
    ASSUME NEW r, Typed(r)
    PROVE  r.reply.status \in Statuses /\ r.reply.asks \in Asks
BY DEF Typed, Past, Record, Statuses

\* An exception keeps items and types.
LEMMA RaisedStays ==
    ASSUME NEW r, Sound(r), Typed(r), NEW n \in Raised(r)
    PROVE  Stays(r, n)
<1>1. "error" \in Statuses /\ {} \in Asks
  BY DEF Statuses, Asks
<1>2. QED
  BY <1>1, AnsweredStays, DeliverStays, ReplyTyped DEF Raised

\* So does whatever is made of a reply.
LEMMA TakenStays ==
    ASSUME NEW r, Sound(r), Typed(r), r.kind \in Senders,
           NEW reply \in Replies \cup {Stopped}, NEW n \in Taken(r, reply)
    PROVE  Stays(r, n)
<1>1. reply.status \in Statuses /\ reply.asks \in Asks /\ "ok" \in Statuses
  <2>1. CASE reply \in Replies
    BY <2>1 DEF Replies, Statuses, Errors, Asks
  <2>2. CASE reply = Stopped
    BY <2>2 DEF Stopped, Statuses, Asks
  <2>3. QED
    BY <2>1, <2>2 DEF Statuses
<1>2. CASE r.kind = "chat"
  <2>1. n \in Raised(r) \/ n \in Settle(r, reply.status, reply.asks)
           \/ n = Deliver(r, "ok", reply.asks)
    BY <1>2 DEF Taken, TakenChat
  <2>2. QED
    BY <1>1, <2>1, RaisedStays, SettleStays, DeliverStays
<1>3. CASE r.kind = "responses"
  <2>1. n \in TakenResponses(r, reply)
    BY <1>3 DEF Taken
  <2>2. CASE ~reply.json
    BY <2>1, <2>2, RaisedStays DEF TakenResponses
  <2>3. CASE reply.json /\ r.phase = "first"
    BY <1>1, <2>1, <2>3, ResolveStays DEF TakenResponses
  <2>4. CASE reply.json /\ r.phase = "retrieve"
    BY <1>1, <2>1, <2>4, ResolveStays DEF TakenResponses
  <2>5. CASE reply.json /\ r.phase = "recall"
    BY <1>1, <2>1, <2>5, DeliverStays DEF TakenResponses
  <2>6. QED
    BY <2>2, <2>3, <2>4, <2>5 DEF Sound
<1>4. CASE r.kind = "backend"
  <2>1. n \in Raised(r) \/ n \in Resolve(r, reply.status, reply.asks)
           \/ n \in Resolve(r, "ok", reply.asks)
    BY <1>4 DEF Taken, TakenBackend
  <2>2. QED
    BY <1>1, <2>1, RaisedStays, ResolveStays
<1>5. CASE r.kind = "passthrough"
  BY <1>1, <1>5, AnsweredStays DEF Taken, TakenPassthrough
<1>6. QED
  BY <1>2, <1>3, <1>4, <1>5 DEF Senders

-----------------------------------------------------------------------------
(* Older user texts are only replayed. *)

WorkFields == {"task", "todo", "done", "shaped", "ok"}

\* The history of a call: what it adopted or is about to adopt of its older user
\* texts has lived, and its worker is to compress none of them.
Replays(c) ==
    /\ Typed(call[c])
    /\ DOMAIN work[c] = WorkFields
    /\ work[c].shaped \in BOOLEAN
    /\ work[c].done \subseteq {0} \cup Items
    /\ work[c].todo \subseteq Eligible(call[c].items)
    /\ call[c].adopted \cap History(call[c].items) \subseteq lived
    /\ work[c].done \cap History(call[c].items) \subseteq lived
    /\ call[c].pc = "idle" => job[c] = "none" /\ work[c].todo = {} /\ work[c].done = {}
    /\ call[c].pc = "compressing" => c \in awaited

Replayed ==
    /\ DOMAIN work = Calls
    /\ cache \subseteq lived /\ lived \subseteq Items
    /\ \A c \in Calls : Replays(c)

\* A step of one call or its worker leaves the others their replays.
LEMMA OneReplays ==
    ASSUME Replayed, NEW c \in Calls, Replays(c)',
           DOMAIN work' = Calls, cache' \subseteq lived', lived \subseteq lived', lived' \subseteq Items,
           \A x \in Calls \ {c} : /\ call'[x] = call[x] /\ work'[x] = work[x]
                                  /\ job'[x] = job[x] /\ (x \in awaited' <=> x \in awaited)
    PROVE  Replayed'
<1>1. ASSUME NEW x \in Calls \ {c} PROVE Replays(x)'
  <2>1. Replays(x)
    BY DEF Replayed
  <2>2. /\ call'[x] = call[x] /\ work'[x] = work[x]
        /\ job'[x] = job[x] /\ (x \in awaited' <=> x \in awaited)
    OBVIOUS
  <2>3. QED
    BY <2>1, <2>2 DEF Replays
<1>2. QED
  BY <1>1 DEF Replayed

\* w may be what a worker has of a call n, when l has lived.
Working(n, w, l) ==
    /\ DOMAIN w = WorkFields
    /\ w.shaped \in BOOLEAN
    /\ w.done \subseteq {0} \cup Items
    /\ w.todo \subseteq Eligible(n.items)
    /\ w.done \cap History(n.items) \subseteq l

\* A call that has arrived, and its work, are replaced.
LEMMA StepReplays ==
    ASSUME Replayed, NEW c \in Calls, NEW n, NEW w,
           call'[c] = n, work'[c] = w, DOMAIN work' = Calls,
           Typed(n), n.pc # "idle", n.pc = "compressing" => c \in awaited',
           n.adopted \cap History(n.items) \subseteq lived', Working(n, w, lived'),
           cache' \subseteq lived', lived \subseteq lived', lived' \subseteq Items,
           \A x \in Calls \ {c} : /\ call'[x] = call[x] /\ work'[x] = work[x]
                                  /\ job'[x] = job[x] /\ (x \in awaited' <=> x \in awaited)
    PROVE  Replayed'
<1>1. Replays(c)'
  BY DEF Replays, Working
<1>2. QED
  BY <1>1, OneReplays

\* What a call's worker has, the call going on with the same items.
LEMMA SameWorking ==
    ASSUME Replayed, NEW c \in Calls, NEW n, n.items = call[c].items
    PROVE  /\ Working(n, work[c], lived) /\ Typed(call[c])
           /\ call[c].adopted \cap History(n.items) \subseteq lived
           /\ cache \subseteq lived /\ lived \subseteq Items /\ DOMAIN work = Calls
BY DEF Replayed, Replays, Working

\* No work at all is always in order.
LEMMA IdleWorks ==
    ASSUME NEW n, NEW l
    PROVE  Working(n, Idle, l)
BY DEF Working, Idle, WorkFields

\* A step of the handler with its worker left alone.
LEMMA LoopReplays ==
    ASSUME Replayed, AllUnspoilt, NEW c \in Calls, NEW n,
           Later(call[c], n), Stays(call[c], n), Into(c, n), UNCHANGED <<executor, work, shared>>
    PROVE  Replayed'
<1>1. /\ Working(n, work[c], lived)
      /\ call[c].adopted \cap History(n.items) \subseteq lived
      /\ cache \subseteq lived /\ lived \subseteq Items /\ DOMAIN work = Calls
  BY SameWorking DEF Stays
<1>2. n.adopted \cap History(n.items) \subseteq lived /\ n.pc \notin {"idle", "compressing"}
  BY <1>1 DEF Later, Past
<1>3. call'[c] = n /\ \A x \in Calls \ {c} : call'[x] = call[x]
  BY DEF Into, AllUnspoilt
<1>4. UNCHANGED <<awaited, job, work, cache, lived>>
  BY DEF executor, flags, shared
<1>5. QED
  BY <1>1, <1>2, <1>3, <1>4, StepReplays DEF Stays

\* Nobody's call, work or job changes, but for a job that has been submitted.
LEMMA QuietReplays ==
    ASSUME Replayed, UNCHANGED <<call, work, awaited, lived>>, cache' \subseteq cache,
           \A x \in Calls : job[x] = "none" => job'[x] = "none"
    PROVE  Replayed'
<1>1. ASSUME NEW x \in Calls PROVE Replays(x)'
  BY DEF Replayed, Replays
<1>2. QED
  BY <1>1 DEF Replayed

\* Into the executor or past it, with nothing adopted and no work yet.
LEMMA CompressReplays ==
    ASSUME Replayed, AllUnspoilt, NEW c \in Calls, NEW r, Sound(r), Typed(r), r.adopted = {},
           Working(r, work[c], lived), Compress(c, r), UNCHANGED <<work, shared>>
    PROVE  Replayed'
<1>1. UNCHANGED <<work, cache, lived>> /\ cache \subseteq lived /\ lived \subseteq Items
      /\ DOMAIN work = Calls
  BY DEF shared, Replayed
<1>2. CASE Submit(c) /\ Into(c, [r EXCEPT !.pc = "compressing"])
  <2> DEFINE n == [r EXCEPT !.pc = "compressing"]
  <2>1. /\ n.pc = "compressing" /\ n.mode = r.mode /\ n.items = r.items /\ n.body = r.body
        /\ n.marked = r.marked /\ n.adopted = {} /\ n.reply = r.reply
        /\ n.answer = r.answer
    BY DEF Sound, Fields
  <2>2. call'[c] = n /\ \A x \in Calls \ {c} : call'[x] = call[x]
    BY <1>2 DEF Into, AllUnspoilt
  <2>3. /\ c \in awaited'
        /\ \A x \in Calls \ {c} : job'[x] = job[x] /\ (x \in awaited' <=> x \in awaited)
    BY <1>2 DEF Submit, Set
  <2> HIDE DEF n
  <2>4. Typed(n) /\ Working(n, work[c], lived)
    BY <2>1 DEF Typed, Past, Working
  <2>5. QED
    BY <1>1, <2>1, <2>2, <2>3, <2>4, StepReplays
<1>3. ASSUME NEW n \in Onward(r), Into(c, n), UNCHANGED executor PROVE Replayed'
  <2>1. Later(r, n) /\ Stays(r, n)
    BY OnwardLater, OnwardStays
  <2>2. n.adopted = {} /\ n.pc \notin {"idle", "compressing"} /\ Typed(n)
    BY <2>1 DEF Later, Stays, Past
  <2>3. Working(n, work[c], lived)
    BY <2>1 DEF Stays, Working
  <2>4. call'[c] = n /\ \A x \in Calls \ {c} : call'[x] = call[x]
    BY <1>3 DEF Into, AllUnspoilt
  <2>5. UNCHANGED <<awaited, job>>
    BY <1>3 DEF executor, flags
  <2>6. QED
    BY <1>1, <2>2, <2>3, <2>4, <2>5, StepReplays
<1>4. QED
  BY <1>2, <1>3 DEF Compress

\* A call that has yet to arrive has no work and nothing adopted.
LEMMA BeforeArrival ==
    ASSUME Replayed, AllUnspoilt, NEW c \in Calls, At(c, "idle"), NEW n
    PROVE  /\ Sound(call[c]) /\ Typed(call[c]) /\ call[c].adopted = {}
           /\ Working(n, work[c], lived)
<1>1. Sound(call[c]) /\ call[c].adopted = {}
  BY DEF AllUnspoilt, Unspoilt, Blank
<1>2. Replays(c)
  BY DEF Replayed
<1>3. QED
  BY <1>1, <1>2 DEF Replays, Working, At

\* An arrival, with however many items.
LEMMA ArriveReplays ==
    ASSUME Replayed, AllUnspoilt, NEW c \in Calls, Arrive(c)
    PROVE  Replayed'
<1>1. At(c, "idle") /\ UNCHANGED <<work, shared>>
  BY DEF Arrive
<1>2. Sound(call[c]) /\ Typed(call[c]) /\ call[c].adopted = {}
      /\ \A n : Working(n, work[c], lived)
  BY <1>1, BeforeArrival
<1>3. CASE ArriveFrame(c)
  <2>1. PICK n \in Lengths : Compress(c, [call[c] EXCEPT !.kind = "frame", !.items = n])
    BY <1>3 DEF ArriveFrame
  <2> DEFINE r == [call[c] EXCEPT !.kind = "frame", !.items = n]
  <2>2. n \in Items
    BY ItemsAre
  <2>3. Sound(r) /\ Typed(r) /\ r.adopted = {}
    BY <1>2, <2>2 DEF Sound, Fields, Senders, Typed, Past
  <2>4. QED
    BY <1>1, <1>2, <2>1, <2>3, CompressReplays
<1>4. CASE ArriveChat(c)
  <2>1. PICK kind \in {"chat", "backend"}, mode \in {"json", "stream"} :
            Compress(c, [call[c] EXCEPT !.kind = kind, !.mode = mode])
    BY <1>4 DEF ArriveChat
  <2> DEFINE r == [call[c] EXCEPT !.kind = kind, !.mode = mode]
  <2>2. Sound(r) /\ Typed(r) /\ r.adopted = {}
    BY <1>2 DEF Sound, Fields, Senders, Typed, Past
  <2>3. QED
    BY <1>1, <1>2, <2>1, <2>2, CompressReplays
<1>5. CASE ArriveResponses(c)
  <2>1. PICK n \in Lengths, mode \in {"json", "stream", "buffered"}, stored \in SUBSET {"store"} :
            /\ Into(c, [call[c] EXCEPT !.kind = "responses", !.mode = mode, !.items = n,
                                       !.body = stored, !.pc = "memory"])
            /\ UNCHANGED executor
    BY <1>5 DEF ArriveResponses
  <2> DEFINE r == [call[c] EXCEPT !.kind = "responses", !.mode = mode, !.items = n,
                                  !.body = stored, !.pc = "memory"]
  <2>2. n \in Items /\ stored \subseteq Changes
    BY ItemsAre DEF Changes
  <2>3. Typed(r) /\ r.adopted = {} /\ r.pc = "memory"
    BY <1>2, <2>2 DEF Sound, Fields, Typed, Past
  <2>4. call'[c] = r /\ \A x \in Calls \ {c} : call'[x] = call[x]
    BY <2>1 DEF Into, AllUnspoilt
  <2> HIDE DEF r
  <2>5. UNCHANGED <<awaited, job, work, cache, lived>>
    BY <1>1, <2>1 DEF executor, flags, shared
  <2>6. Working(r, work[c], lived)
    BY <1>2
  <2>7. cache \subseteq lived /\ lived \subseteq Items /\ DOMAIN work = Calls
    BY DEF Replayed
  <2>8. QED
    BY <2>3, <2>4, <2>5, <2>6, <2>7, StepReplays
<1>6. CASE ArrivePassthrough(c)
  <2>1. PICK n \in Lengths : Compress(c, [call[c] EXCEPT !.kind = "passthrough", !.items = n])
    BY <1>6 DEF ArrivePassthrough
  <2> DEFINE r == [call[c] EXCEPT !.kind = "passthrough", !.items = n]
  <2>2. n \in Items
    BY ItemsAre
  <2>3. Sound(r) /\ Typed(r) /\ r.adopted = {}
    BY <1>2, <2>2 DEF Sound, Fields, Senders, Typed, Past
  <2>4. QED
    BY <1>1, <1>2, <2>1, <2>3, CompressReplays
<1>7. CASE ArriveCompress(c)
  <2> DEFINE r == [call[c] EXCEPT !.kind = "compress"]
  <2>1. Sound(r) /\ Typed(r) /\ r.adopted = {}
    BY <1>2 DEF Sound, Fields, Senders, Typed, Past
  <2>2. QED
    BY <1>1, <1>2, <1>7, <2>1, CompressReplays DEF ArriveCompress
<1>8. QED
  BY <1>3, <1>4, <1>5, <1>6, <1>7 DEF Arrive

\* A chat's memory is read and its body written.
LEMMA RememberChatReplays ==
    ASSUME Replayed, AllUnspoilt, NEW c \in Calls, RememberChat(c)
    PROVE  Replayed'
<1> DEFINE r == call[c]
<1>1. Sound(r) /\ Typed(r) /\ r.kind \in Senders
  BY DEF RememberChat, AllUnspoilt, Unspoilt, Senders, Replayed, Replays
<1>2. /\ Sound(Edited(r)) /\ Edited(r).kind = r.kind /\ Edited(r).adopted = r.adopted
      /\ Blank(r) => Blank(Edited(r))
  BY <1>1, EditedIs
<1>3. Later(r, Send(Edited(r)))
  BY <1>1, <1>2, SendLater DEF Later
<1>4. Stays(r, Edited(r))
  BY <1>1, EditedStays
<1>5. Stays(Edited(r), Send(Edited(r)))
  BY <1>2, <1>4, SendStays DEF Stays
<1>6. Stays(r, Send(Edited(r)))
  BY <1>4, <1>5 DEF Stays
<1>7. QED
  BY <1>3, <1>6, LoopReplays DEF RememberChat

\* A Responses call's memory is read, and its compression asked for.
LEMMA RememberResponsesReplays ==
    ASSUME Replayed, AllUnspoilt, NEW c \in Calls, RememberResponses(c)
    PROVE  Replayed'
<1> DEFINE r == call[c]
<1>1. Sound(r) /\ Typed(r) /\ r.adopted = {}
  BY DEF RememberResponses, AllUnspoilt, Unspoilt, Blank, Replayed, Replays
<1>2. Stays(r, Edited(r)) /\ Sound(Edited(r)) /\ Edited(r).adopted = {}
  BY <1>1, EditedStays DEF Edited, Sound, Fields
<1>3. Working(r, work[c], lived) /\ Working(Edited(r), work[c], lived)
  BY <1>2, SameWorking DEF Stays
<1>4. /\ Compress(c, Edited(r)) \/ Compress(c, r)
      /\ UNCHANGED <<work, shared>>
  BY DEF RememberResponses
<1>5. QED
  BY <1>1, <1>2, <1>3, <1>4, CompressReplays DEF Stays

\* The body is written.
LEMMA WriteReplays ==
    ASSUME Replayed, AllUnspoilt, NEW c \in Calls, Write(c)
    PROVE  Replayed'
<1> DEFINE r == call[c]
           post == [[r EXCEPT !.pc = "posting"] EXCEPT !.wire = Wire(r), !.marked = r.marked]
           open == [Answered(r, "here", {}) EXCEPT !.wire = Wire(r), !.marked = r.marked]
<1>1. Sound(r) /\ Typed(r) /\ r.kind \in Senders
  BY DEF Write, AllUnspoilt, Unspoilt, At, Past, Replayed, Replays
<1>2. UNCHANGED <<executor, work, shared>>
  BY DEF Write
<1>3. Into(c, post) \/ Into(c, open) \/ \E n \in Raised(r) : Into(c, n)
  BY DEF Write
<1>4. CASE Into(c, post)
  <2>1. Later(r, post)
    BY <1>1, PostIsLater
  <2>2. /\ post.pc = "posting" /\ post.mode = r.mode /\ post.items = r.items
        /\ post.body = r.body /\ post.marked = r.marked /\ post.adopted = r.adopted
        /\ post.reply = r.reply /\ post.answer = r.answer
    BY <1>1 DEF Sound, Fields
  <2> HIDE DEF post
  <2>3. Stays(r, post)
    BY <1>1, <2>2 DEF Stays, Typed, Past
  <2>4. QED
    BY <1>2, <1>4, <2>1, <2>3, LoopReplays
<1>5. CASE Into(c, open)
  <2> DEFINE n == Answered(r, "here", {})
  <2>1. Later(r, open)
    BY <1>1, OpenIsLater
  <2>2. "here" \in Statuses /\ {} \in Asks
    BY DEF Statuses, Asks
  <2>3. Stays(r, n) /\ Sound(n)
    BY <1>1, <2>2, AnsweredStays, AnsweredLater DEF Later
  <2>4. /\ open.pc = n.pc /\ open.mode = n.mode /\ open.items = n.items
        /\ open.body = n.body /\ open.marked = r.marked /\ open.adopted = n.adopted
        /\ open.reply = n.reply /\ open.answer = n.answer
    BY <2>3 DEF Sound, Fields
  <2> HIDE DEF n, open
  <2>5. Stays(r, open)
    BY <1>1, <2>3, <2>4 DEF Stays, Typed, Past
  <2>6. QED
    BY <1>2, <1>5, <2>1, <2>5, LoopReplays
<1>6. ASSUME NEW n \in Raised(r), Into(c, n) PROVE Replayed'
  <2>1. Later(r, n) /\ Stays(r, n)
    BY <1>1, RaisedLater, RaisedStays
  <2>2. QED
    BY <1>2, <1>6, <2>1, LoopReplays
<1>7. QED
  BY <1>3, <1>4, <1>5, <1>6

\* A request and what becomes of its reply.
LEMMA PostReplays ==
    ASSUME Replayed, AllUnspoilt, NEW c \in Calls, Post(c)
    PROVE  Replayed'
<1> DEFINE r == call[c]
           backoff == [r EXCEPT !.pc = "backoff"]
<1>1. Sound(r) /\ Typed(r) /\ r.kind \in Senders
  BY DEF Post, AllUnspoilt, Unspoilt, At, Past, Replayed, Replays
<1>2. UNCHANGED <<executor, work, shared>>
  BY DEF Post
<1>3. \/ Into(c, backoff)
      \/ \E reply \in Replies : \E n \in Taken(r, reply) : Into(c, n)
      \/ \E n \in Raised(r) : Into(c, n)
  BY DEF Post
<1>4. CASE Into(c, backoff)
  <2>1. Later(r, backoff) /\ Stays(r, backoff)
    BY <1>1 DEF Later, Sound, Fields, Blank, Stays, Typed, Past
  <2>2. QED
    BY <1>2, <1>4, <2>1, LoopReplays
<1>5. ASSUME NEW reply \in Replies, NEW n \in Taken(r, reply), Into(c, n) PROVE Replayed'
  <2>1. Later(r, n) /\ Stays(r, n)
    BY <1>1, TakenLater, TakenStays
  <2>2. QED
    BY <1>2, <1>5, <2>1, LoopReplays
<1>6. ASSUME NEW n \in Raised(r), Into(c, n) PROVE Replayed'
  <2>1. Later(r, n) /\ Stays(r, n)
    BY <1>1, RaisedLater, RaisedStays
  <2>2. QED
    BY <1>2, <1>6, <2>1, LoopReplays
<1>7. QED
  BY <1>3, <1>4, <1>5, <1>6

\* The next attempt, or the shutdown's answer.
LEMMA BackoffReplays ==
    ASSUME Replayed, AllUnspoilt, NEW c \in Calls, Backoff(c)
    PROVE  Replayed'
<1> DEFINE r == call[c]
<1>1. Sound(r) /\ Typed(r) /\ r.kind \in Senders
  BY DEF Backoff, AllUnspoilt, Unspoilt, At, Past, Replayed, Replays
<1>2. UNCHANGED <<executor, work, shared>>
  BY DEF Backoff
<1>3. Into(c, Again(r)) \/ \E n \in Taken(r, Stopped) : Into(c, n)
  BY DEF Backoff
<1>4. CASE Into(c, Again(r))
  <2>1. Later(r, Again(r)) /\ Stays(r, Again(r))
    BY <1>1 DEF Again, Later, Sound, Fields, Blank, Stays, Typed, Past
  <2>2. QED
    BY <1>2, <1>4, <2>1, LoopReplays
<1>5. ASSUME NEW n \in Taken(r, Stopped), Into(c, n) PROVE Replayed'
  <2>1. Later(r, n) /\ Stays(r, n)
    BY <1>1, TakenLater, TakenStays
  <2>2. QED
    BY <1>2, <1>5, <2>1, LoopReplays
<1>6. QED
  BY <1>3, <1>4, <1>5

\* The memory's tools have been run, or could not be.
LEMMA RecallReplays ==
    ASSUME Replayed, AllUnspoilt, NEW c \in Calls, Recall(c)
    PROVE  Replayed'
<1> DEFINE r == call[c]
           post == Send(r)
           give == Deliver(r, r.reply.status, r.reply.asks)
<1>1. Sound(r) /\ Typed(r) /\ r.kind \in Senders
  BY DEF Recall, AllUnspoilt, Unspoilt, At, Past, Replayed, Replays
<1>2. UNCHANGED <<executor, work, shared>> /\ (Into(c, post) \/ Into(c, give))
  BY DEF Recall
<1>3. Later(r, post) /\ Stays(r, post)
  BY <1>1, SendLater, SendStays
<1>4. Later(r, give) /\ Stays(r, give)
  BY <1>1, DeliverLater, DeliverStays, ReplyTyped
<1>5. QED
  BY <1>2, <1>3, <1>4, LoopReplays

\* A call is answered at its arrival.
LEMMA RefuseReplays ==
    ASSUME Replayed, AllUnspoilt, NEW c \in Calls, Refuse(c) \/ AnswerFromCache(c)
    PROVE  Replayed'
<1>1. Sound(call[c]) /\ Typed(call[c]) /\ UNCHANGED <<executor, work, shared>>
  BY DEF Refuse, AnswerFromCache, AllUnspoilt, Unspoilt, Replayed, Replays
<1>2. PICK status \in Statuses, asks \in Asks : Into(c, Answered(call[c], status, asks))
  <2>1. {} \in Asks /\ {"here", "ok"} \subseteq Statuses
    BY DEF Asks, Statuses
  <2>2. QED
    BY <2>1 DEF Refuse, AnswerFromCache
<1>3. QED
  BY <1>1, <1>2, AnsweredLater, AnsweredStays, LoopReplays

\* The compression is over: a call adopts what its worker has put together, or
\* gives it up.
LEMMA ResumeReplays ==
    ASSUME Replayed, AllUnspoilt, NEW c \in Calls, Resume(c)
    PROVE  Replayed'
<1> DEFINE r == IF work[c].ok THEN Adopt(c) ELSE call[c]
<1>1. Sound(call[c]) /\ Replays(c)
  BY DEF AllUnspoilt, Unspoilt, Replayed
<1>2. /\ Sound(r) /\ r.kind = call[c].kind /\ Typed(r) /\ r.items = call[c].items
      /\ r.adopted \cap History(r.items) \subseteq lived
  <2>1. CASE ~work[c].ok
    BY <1>1, <2>1 DEF Replays
  <2>2. CASE work[c].ok
    <3> DEFINE marked == call[c].marked \/ work[c].done # {} \/ work[c].shaped
    <3>1. /\ r.pc = call[c].pc /\ r.mode = call[c].mode /\ r.items = call[c].items
          /\ r.body = call[c].body /\ r.marked = marked /\ r.adopted = work[c].done
          /\ r.reply = call[c].reply /\ r.answer = call[c].answer
          /\ r.kind = call[c].kind /\ r.phase = call[c].phase /\ DOMAIN r = Fields
      BY <1>1, <2>2 DEF Adopt, Sound, Fields
    <3>2. marked \in BOOLEAN
      BY <1>1 DEF Replays, Typed, Past
    <3> HIDE DEF marked, r
    <3>3. Sound(r)
      BY <1>1, <3>1 DEF Sound
    <3>4. Typed(r)
      BY <1>1, <3>1, <3>2 DEF Typed, Past, Replays
    <3>5. r.adopted \cap History(r.items) \subseteq lived
      BY <1>1, <3>1 DEF Replays
    <3>6. QED
      BY <3>1, <3>3, <3>4, <3>5
  <2>3. QED
    BY <2>1, <2>2
<1>3. PICK n \in Onward(r) : Into(c, n)
  BY DEF Resume
<1> HIDE DEF r
<1>4. Later(r, n) /\ Stays(r, n)
  BY <1>2, OnwardLater, OnwardStays
<1>5. Typed(n) /\ n.pc \notin {"idle", "compressing"} /\ n.adopted \cap History(n.items) \subseteq lived
  BY <1>2, <1>4 DEF Later, Stays, Past
<1>6. call'[c] = n /\ \A x \in Calls \ {c} : call'[x] = call[x]
  BY <1>3 DEF Into, AllUnspoilt
<1>7. /\ UNCHANGED <<cache, lived, job>> /\ work'[c] = Idle /\ DOMAIN work' = Calls
      /\ \A x \in Calls \ {c} : work'[x] = work[x] /\ (x \in awaited' <=> x \in awaited)
      /\ cache \subseteq lived /\ lived \subseteq Items
  BY DEF Resume, Return, shared, Replayed
<1>8. Working(n, Idle, lived)
  BY IdleWorks
<1>9. QED
  BY <1>5, <1>6, <1>7, <1>8, StepReplays

\* The caller is gone: what its worker has put together is lost.
LEMMA LeavingReplays ==
    ASSUME Replayed, AllUnspoilt, NEW c \in Calls, NEW n, Later(call[c], n), Stays(call[c], n),
           Into(c, n), TimeOut(c) \/ Abandon(c), UNCHANGED shared,
           work' = [work EXCEPT ![c] = IF job[c] = "running"
                                       THEN [@ EXCEPT !.done = {}, !.shaped = FALSE] ELSE Idle],
           \A x \in Calls \ {c} : job'[x] = job[x]
    PROVE  Replayed'
<1>1. /\ Working(n, work[c], lived)
      /\ call[c].adopted \cap History(n.items) \subseteq lived
      /\ cache \subseteq lived /\ lived \subseteq Items /\ DOMAIN work = Calls
  BY SameWorking DEF Stays
<1>2. n.adopted \cap History(n.items) \subseteq lived /\ n.pc \notin {"idle", "compressing"}
  BY <1>1 DEF Later, Past
<1>3. call'[c] = n /\ \A x \in Calls \ {c} : call'[x] = call[x]
  BY DEF Into, AllUnspoilt
<1>4. /\ UNCHANGED <<cache, lived>> /\ DOMAIN work' = Calls
      /\ \A x \in Calls \ {c} : work'[x] = work[x] /\ (x \in awaited' <=> x \in awaited)
  BY <1>1 DEF TimeOut, Abandon, shared
<1>5. Working(n, work'[c], lived)
  <2>1. CASE job[c] = "running"
    <3>1. work'[c] = [work[c] EXCEPT !.done = {}, !.shaped = FALSE]
      BY <1>1, <2>1
    <3>2. QED
      BY <1>1, <3>1 DEF Working, WorkFields
  <2>2. CASE job[c] # "running"
    BY <1>1, <2>2, IdleWorks
  <2>3. QED
    BY <2>1, <2>2
<1>6. QED
  BY <1>1, <1>2, <1>3, <1>4, <1>5, StepReplays DEF Stays

\* The deadline, and the cancellation of a frame.
LEMMA DeadlineReplays ==
    ASSUME Books, Replayed, AllUnspoilt, NEW c \in Calls, Deadline(c) \/ CancelFrame(c)
    PROVE  Replayed'
<1>1. Sound(call[c]) /\ Typed(call[c])
  BY DEF AllUnspoilt, Unspoilt, Replayed, Replays
<1>2. /\ TimeOut(c) \/ Abandon(c)
      /\ UNCHANGED shared
      /\ work' = [work EXCEPT ![c] = IF job[c] = "running"
                                      THEN [@ EXCEPT !.done = {}, !.shaped = FALSE] ELSE Idle]
  BY DEF Deadline, CancelFrame
<1>3. \A x \in Calls \ {c} : job'[x] = job[x]
  BY <1>2 DEF TimeOut, Abandon, Cancelled, Set, Books, Flags
<1>4. CASE Deadline(c)
  <2>1. PICK n \in Onward(call[c]) : Into(c, n)
    BY <1>4 DEF Deadline
  <2>2. Later(call[c], n) /\ Stays(call[c], n)
    BY <1>1, OnwardLater, OnwardStays
  <2>3. QED
    BY <1>2, <1>3, <2>1, <2>2, LeavingReplays
<1>5. CASE CancelFrame(c)
  <2>1. Into(c, Answered(call[c], "here", {})) /\ "here" \in Statuses /\ {} \in Asks
    BY <1>5 DEF CancelFrame, Statuses, Asks
  <2>2. Later(call[c], Answered(call[c], "here", {})) /\ Stays(call[c], Answered(call[c], "here", {}))
    BY <1>1, <2>1, AnsweredLater, AnsweredStays
  <2>3. QED
    BY <1>2, <1>3, <2>1, <2>2, LeavingReplays
<1>6. QED
  BY <1>4, <1>5

\* Nothing of what a call's worker may touch is in the history but what has lived.
LEMMA EligibleIsNoHistory ==
    ASSUME NEW n
    PROVE  Eligible(n) \cap History(n) = {}
BY DEF Eligible, History, Users

\* A worker that runs has a call that has arrived.
LEMMA RunningWorks ==
    ASSUME Replayed, AllUnspoilt, NEW c \in Calls, job[c] # "none"
    PROVE  /\ Replays(c) /\ Typed(call[c]) /\ Sound(call[c]) /\ call[c].pc # "idle"
           /\ call[c].pc = "compressing" => c \in awaited
           /\ call[c].adopted \cap History(call[c].items) \subseteq lived
           /\ cache \subseteq lived /\ lived \subseteq Items /\ DOMAIN work = Calls
BY DEF Replayed, Replays, AllUnspoilt, Unspoilt

\* The shaping of a payload changes no more of the call than its body.
LEMMA ShapeReplays ==
    ASSUME Replayed, AllUnspoilt, NEW c \in Calls, ShapeInPlace(c)
    PROVE  Replayed'
<1>1. job[c] # "none" /\ UNCHANGED <<awaited, job, cache, lived>>
  BY DEF ShapeInPlace, executor, flags, shared
<1>2. /\ Replays(c) /\ Typed(call[c]) /\ Sound(call[c]) /\ call[c].pc # "idle"
      /\ call[c].pc = "compressing" => c \in awaited
      /\ call[c].adopted \cap History(call[c].items) \subseteq lived
      /\ cache \subseteq lived /\ lived \subseteq Items /\ DOMAIN work = Calls
  BY <1>1, RunningWorks
<1>3. PICK changed \in BOOLEAN :
        /\ work' = [work EXCEPT ![c].task = "plan", ![c].shaped = changed /\ c \in awaited]
        /\ call' = call \/ call' = [call EXCEPT ![c].body = @ \cup {"shape"}]
  BY DEF ShapeInPlace
<1>4. /\ Typed(call'[c]) /\ call'[c].pc = call[c].pc /\ call'[c].items = call[c].items
      /\ call'[c].adopted = call[c].adopted
      /\ \A x \in Calls \ {c} : call'[x] = call[x]
  <2>1. CASE call' = call
    BY <1>2, <2>1
  <2>2. CASE call' = [call EXCEPT ![c].body = @ \cup {"shape"}]
    <3> DEFINE n == [call[c] EXCEPT !.body = @ \cup {"shape"}]
    <3>1. call'[c] = n /\ \A x \in Calls \ {c} : call'[x] = call[x]
      BY <2>2 DEF AllUnspoilt
    <3>2. /\ n.pc = call[c].pc /\ n.mode = call[c].mode /\ n.items = call[c].items
          /\ n.body = call[c].body \cup {"shape"} /\ n.marked = call[c].marked
          /\ n.adopted = call[c].adopted /\ n.reply = call[c].reply /\ n.answer = call[c].answer
      BY <1>2 DEF Sound, Fields
    <3> HIDE DEF n
    <3>3. Typed(n)
      BY <1>2, <3>2 DEF Typed, Past, Changes
    <3>4. QED
      BY <3>1, <3>2, <3>3
  <2>3. QED
    BY <1>3, <2>1, <2>2
<1>5. /\ DOMAIN work' = Calls /\ \A x \in Calls \ {c} : work'[x] = work[x]
      /\ work'[c] = [work[c] EXCEPT !.task = "plan", !.shaped = changed /\ c \in awaited]
  BY <1>2, <1>3
<1>6. /\ DOMAIN work'[c] = WorkFields /\ work'[c].shaped \in BOOLEAN
      /\ work'[c].done = work[c].done /\ work'[c].todo = work[c].todo
  BY <1>2, <1>5 DEF Replays, WorkFields
<1>7. Working(call'[c], work'[c], lived)
  BY <1>2, <1>4, <1>6 DEF Working, Replays
<1>8. QED
  BY <1>1, <1>2, <1>4, <1>5, <1>7, StepReplays

\* The work of one call is changed, to w.
Changed(c, w) ==
    /\ DOMAIN work' = Calls /\ work'[c] = w
    /\ \A x \in Calls \ {c} : work'[x] = work[x]

\* A step of a worker that leaves the calls alone.
LEMMA ThreadReplays ==
    ASSUME Replayed, AllUnspoilt, NEW c \in Calls, job[c] # "none", NEW w,
           UNCHANGED <<call, awaited>>, Changed(c, w),
           Working(call[c], w, lived'),
           cache' \subseteq lived', lived \subseteq lived', lived' \subseteq Items,
           \A x \in Calls \ {c} : job'[x] = job[x]
    PROVE  Replayed'
<1>1. /\ Typed(call[c]) /\ call[c].pc # "idle" /\ DOMAIN work = Calls
      /\ call[c].pc = "compressing" => c \in awaited
      /\ call[c].adopted \cap History(call[c].items) \subseteq lived
  BY RunningWorks
<1>2. /\ DOMAIN work' = Calls /\ work'[c] = w
      /\ \A x \in Calls \ {c} : work'[x] = work[x]
  BY DEF Changed
<1>3. call'[c] = call[c] /\ \A x \in Calls \ {c} : call'[x] = call[x] /\ (x \in awaited' <=> x \in awaited)
  OBVIOUS
<1>4. call[c].adopted \cap History(call[c].items) \subseteq lived'
  BY <1>1
<1>5. QED
  BY <1>1, <1>2, <1>3, <1>4, StepReplays

\* A step of a thread: what it plans to compress is no history, and what it takes
\* of the history comes from the cache.
LEMMA WorkerReplays ==
    ASSUME Books, Replayed, AllUnspoilt, NEW c \in Calls, WorkerStep(c)
    PROVE  Replayed'
<1>0. job[c] # "none"
  BY DEF WorkerStep, Begin, Start, ShapeInPlace, Plan, CompressUnit, StopAtBudget, End, Finish, Items
<1> DEFINE n == call[c].items
<1>1. /\ Replays(c) /\ Typed(call[c])
      /\ cache \subseteq lived /\ lived \subseteq Items /\ DOMAIN work = Calls
  BY <1>0, RunningWorks
<1>2. Eligible(n) \subseteq Items /\ History(n) \subseteq Items /\ Eligible(n) \cap History(n) = {}
  BY <1>1, SlotsAreItems, EligibleIsNoHistory DEF Typed, Past
<1>3. /\ DOMAIN work[c] = WorkFields /\ work[c].shaped \in BOOLEAN
      /\ work[c].done \subseteq {0} \cup Items /\ work[c].todo \subseteq Eligible(n)
      /\ work[c].done \cap History(n) \subseteq lived
  BY <1>1 DEF Replays
<1>4. \A S : Collected(c, S) \subseteq S
  BY DEF Collected
<1>5. CASE Begin(c)
  <2> DEFINE w == [work[c] EXCEPT !.task = IF OnResponses(call[c]) THEN "shape" ELSE "apply"]
  <2>1. /\ Changed(c, w) /\ UNCHANGED <<call, awaited, cache, lived>>
        /\ \A x \in Calls \ {c} : job'[x] = job[x]
    BY <1>1, <1>5 DEF Changed, Begin, Start, Set, shared, Books, Flags
  <2>2. Working(call[c], w, lived)
    BY <1>3 DEF Working, WorkFields
  <2> HIDE DEF w
  <2>3. QED
    BY <1>0, <1>1, <2>1, <2>2, ThreadReplays
<1>6. CASE ShapeInPlace(c)
  BY <1>6, ShapeReplays
<1>7. CASE Plan(c)
  <2> DEFINE done == Collected(c, (Eligible(n) \cup History(n)) \cap cache)
             w == [work[c] EXCEPT !.task = "units", !.todo = Eligible(n) \ cache, !.done = done]
  <2>1. Changed(c, w) /\ UNCHANGED <<call, awaited, job, cache, lived>>
    BY <1>1, <1>7 DEF Changed, Plan, executor, flags, shared
  <2>2. done \subseteq cache /\ done \subseteq {0} \cup Items
    BY <1>1, <1>4
  <2>3. Working(call[c], w, lived)
    <3> HIDE DEF done
    <3>1. /\ DOMAIN w = WorkFields /\ w.shaped = work[c].shaped
          /\ w.todo = Eligible(n) \ cache /\ w.done = done
      BY <1>3 DEF WorkFields
    <3>2. QED
      BY <1>1, <1>3, <2>2, <3>1 DEF Working
  <2> HIDE DEF w
  <2>4. QED
    BY <1>0, <1>1, <2>1, <2>3, ThreadReplays
<1>8. ASSUME NEW i \in Items, CompressUnit(c, i) PROVE Replayed'
  <2> DEFINE done == Collected(c, work[c].done \cup {i})
             w == [work[c] EXCEPT !.todo = @ \ {i}, !.done = done]
  <2>1. /\ Changed(c, w) /\ UNCHANGED <<call, awaited, job>>
        /\ cache' = cache \cup {i} /\ lived' = lived \cup ({i} \cap Eligible(n))
        /\ i \in work[c].todo
    BY <1>1, <1>8 DEF Changed, CompressUnit, executor, flags
  <2>2. i \in Eligible(n) /\ lived' = lived \cup {i}
    BY <1>3, <2>1
  <2>3. done \subseteq work[c].done \cup {i}
    BY <1>4
  <2>4. Working(call[c], w, lived')
    <3> HIDE DEF done
    <3>1. /\ DOMAIN w = WorkFields /\ w.shaped = work[c].shaped
          /\ w.todo = work[c].todo \ {i} /\ w.done = done
      BY <1>3 DEF WorkFields
    <3>2. QED
      BY <1>1, <1>3, <2>2, <2>3, <3>1 DEF Working
  <2> HIDE DEF w
  <2>5. cache' \subseteq lived' /\ lived \subseteq lived' /\ lived' \subseteq Items
    BY <1>1, <2>1, <2>2
  <2>6. \A x \in Calls \ {c} : job'[x] = job[x]
    BY <2>1
  <2>7. QED
    BY <1>0, <2>1, <2>4, <2>5, <2>6, ThreadReplays
<1>9. CASE StopAtBudget(c)
  <2> DEFINE w == [work[c] EXCEPT !.todo = {}]
  <2>1. Changed(c, w) /\ UNCHANGED <<call, awaited, job, cache, lived>>
    BY <1>1, <1>9 DEF Changed, StopAtBudget, executor, flags, shared
  <2>2. Working(call[c], w, lived)
    BY <1>3 DEF Working, WorkFields
  <2> HIDE DEF w
  <2>3. QED
    BY <1>0, <1>1, <2>1, <2>2, ThreadReplays
<1>10. CASE End(c)
  <2>1. PICK ok \in BOOLEAN, rest \in Rest :
            work' = [work EXCEPT ![c] = IF ok /\ c \in awaited
                        THEN [work[c] EXCEPT !.task = "none", !.done = @ \cup rest, !.ok = TRUE]
                        ELSE Idle]
    BY <1>10 DEF End
  <2> DEFINE more == [work[c] EXCEPT !.task = "none", !.done = @ \cup rest, !.ok = TRUE]
             w == IF ok /\ c \in awaited THEN more ELSE Idle
  <2>2. /\ UNCHANGED <<call, awaited, cache, lived>>
        /\ \A x \in Calls \ {c} : job'[x] = job[x]
    BY <1>10 DEF End, Finish, Set, shared, Books, Flags
  <2>3. Changed(c, w)
    BY <1>1, <2>1 DEF Changed
  <2>4. Working(call[c], more, lived)
    <3>1. /\ DOMAIN more = WorkFields /\ more.shaped = work[c].shaped
          /\ more.todo = work[c].todo /\ more.done = work[c].done \cup rest
      BY <1>3 DEF WorkFields
    <3>2. rest \subseteq {0} /\ 0 \notin History(n)
      BY <1>2, ItemsAre DEF Rest
    <3> HIDE DEF more
    <3>3. QED
      BY <1>3, <3>1, <3>2 DEF Working
  <2>5. Working(call[c], w, lived)
    BY <2>4, IdleWorks
  <2> HIDE DEF w
  <2>6. QED
    BY <1>0, <1>1, <2>2, <2>3, <2>5, ThreadReplays
<1>11. QED
  BY <1>5, <1>6, <1>7, <1>8, <1>9, <1>10 DEF WorkerStep

\* Every step keeps the replays.
LEMMA ReplaysKept == Books /\ AllUnspoilt /\ Replayed /\ [Next]_vars => Replayed'
<1> SUFFICES ASSUME Books, AllUnspoilt, Replayed, [Next]_vars PROVE Replayed'
  OBVIOUS
<1>1. ASSUME NEW c \in Calls, Refuse(c) \/ AnswerFromCache(c) PROVE Replayed'
  BY <1>1, RefuseReplays
<1>2. ASSUME NEW c \in Calls, Arrive(c) PROVE Replayed'
  BY <1>2, ArriveReplays
<1>3. ASSUME NEW c \in Calls, HandlerStep(c) PROVE Replayed'
  BY <1>3, RememberChatReplays, RememberResponsesReplays, ResumeReplays, DeadlineReplays,
     WriteReplays, PostReplays, BackoffReplays, RecallReplays DEF HandlerStep
<1>4. ASSUME NEW c \in Calls, CancelFrame(c) PROVE Replayed'
  BY <1>4, DeadlineReplays
<1>5. ASSUME NEW c \in Calls, WorkerStep(c) PROVE Replayed'
  BY <1>5, WorkerReplays
<1>6. CASE Take
  <2>1. /\ UNCHANGED <<call, work, awaited, lived>> /\ cache' = cache
        /\ \A x \in Calls : job[x] = "none" => job'[x] = "none"
    BY <1>6 DEF Take, Pick, Set, shared, Books, Flags
  <2>2. QED
    BY <2>1, QuietReplays
<1>7. CASE Shutdown
  BY <1>7, QuietReplays DEF Shutdown, executor, flags
<1>8. ASSUME NEW i \in Items, Evict(i) PROVE Replayed'
  <2>1. UNCHANGED <<call, work, awaited, lived, job>> /\ cache' \subseteq cache
    BY <1>8 DEF Evict, executor, flags
  <2>2. QED
    BY <2>1, QuietReplays
<1>9. CASE UNCHANGED vars
  BY <1>9, QuietReplays DEF vars, executor, flags, shared
<1>10. QED
  BY <1>1, <1>2, <1>3, <1>4, <1>5, <1>6, <1>7, <1>8, <1>9 DEF Next

\* Nothing has been adopted at the start.
LEMMA CallsStartReplayed == Init => Replayed
<1> SUFFICES ASSUME Init PROVE Replayed
  OBVIOUS
<1>1. ASSUME NEW c \in Calls PROVE Replays(c)
  <2>1. call[c] = Fresh /\ work[c] = Idle /\ job[c] = "none" /\ lived = {}
    BY DEF Init, ExecutorInit
  <2>2. Typed(Fresh) /\ Fresh.pc = "idle" /\ Fresh.adopted = {} /\ Fresh.items = 1
    <3>1. NoReply \in Record({"none", "ok"}) /\ NoReply \in Record(Statuses)
      BY DEF NoReply, Record, Statuses, Asks
    <3>2. QED
      BY <3>1, ItemsAre DEF Typed, Past, Fresh
  <2>3. QED
    BY <2>1, <2>2 DEF Replays, Idle, WorkFields
<1>2. QED
  BY <1>1 DEF Init, Replayed

\* The type invariant and the history, from the parts.
LEMMA PartsTell ==
    ASSUME Books, AllUnspoilt, AllProper, Replayed
    PROVE  HistoryOnlyReplayed
<1>1. ExecutorTypeOK
  BY BooksTell
<1>2. cache \cup lived \subseteq Items
  BY DEF Replayed
<1>3. ASSUME NEW c \in Calls
      PROVE  LET r == call[c] IN
          /\ r.pc \in {"idle", "memory", "compressing", "sending", "posting", "backoff",
                       "recalling", "done"}
          /\ r.mode \in {"json", "stream", "buffered"} /\ r.items \in Items
          /\ r.body \subseteq Changes /\ r.marked \in BOOLEAN
          /\ r.adopted \subseteq {0} \cup Items
          /\ r.attempt \in 1 .. Attempts /\ r.round \in 0 .. Rounds
          /\ r.reply \in Record({"none", "ok"}) /\ r.answer \in Record(Statuses)
          /\ work[c].todo \cup work[c].done \subseteq {0} \cup Items
          /\ (r.pc = "compressing") = (c \in awaited)
  <2>1. Typed(call[c]) /\ Proper(call[c]) /\ Unspoilt(c) /\ Replays(c)
    BY DEF AllUnspoilt, AllProper, Replayed, Replays
  <2>2. work[c].todo \cup work[c].done \subseteq {0} \cup Items
    BY <2>1, SlotsAreItems DEF Replays, Typed, Past
  <2>3. (call[c].pc = "compressing") = (c \in awaited)
    BY <2>1 DEF Replays, Unspoilt, At
  <2>4. call[c].attempt \in 1 .. Attempts /\ call[c].round \in 0 .. Rounds
    BY <2>1 DEF Proper
  <2>5. call[c].pc \in {"idle", "memory", "compressing", "sending", "posting", "backoff",
                        "recalling", "done"}
    BY <2>1 DEF Typed, Past
  <2>6. QED
    BY <2>1, <2>2, <2>3, <2>4, <2>5 DEF Typed
<1>4. TypeOK
  BY <1>1, <1>2, <1>3 DEF TypeOK
<1>5. \A c \in Calls : call[c].adopted \cap History(call[c].items) \subseteq lived
  BY DEF Replayed, Replays
<1>6. QED
  BY <1>4, <1>5 DEF HistoryOnlyReplayed

\* Whatever the conversation, the cache loses and late workers finish, a user text
\* that is no longer the newest is sent as it was written or as it was compressed
\* while it was the newest; and every variable keeps its type.
THEOREM OlderTextsAreReplayed == Spec => []HistoryOnlyReplayed
<1>1. Books /\ AllUnspoilt /\ AllProper /\ Replayed => HistoryOnlyReplayed
  BY PartsTell
<1>2. QED
  BY <1>1, CallsStartReplayed, ReplaysKept, CallsKeepBooks, CallsStayProper, PTL DEF Spec
===============================================================================
