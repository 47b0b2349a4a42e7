----------------------------- MODULE WsRelay_proofs -----------------------------
(***************************************************************************)
(* Theorems about WsRelay, for every number of attempts, frames and        *)
(* events.                                                                 *)
(***************************************************************************)
EXTENDS WsRelay, FiniteSetTheorems, SequenceTheorems, TLAPS

-----------------------------------------------------------------------------
(* The invariant. *)

\* Until the tasks are started, or without any.
NoTasks == {"arrived", "refused", "accept", "connect", "first", "memory", "compress", "send",
            "fallback", "fallback stream", "fallback refused", "fallback error"}
WithTasks == {"relay", "settle", "stopping"}
Ending == {"residual", "finally", "closed"}

\* Where the tasks are while the handler is at each of its places.
Placed ==
    /\ pc \in NoTasks \cup WithTasks \cup Ending
    /\ c2u \in {"off", "receiving", "memory", "compressing", "sending", "closing", "closed",
                "done", "cancelled"}
    /\ u2c.at \in {"off", "reading", "working", "closing", "cancelling", "done", "cancelled"}
    /\ pc \in NoTasks => c2u = "off" /\ u2c.at = "off"
    /\ pc \in WithTasks => c2u # "off" /\ u2c.at # "off"
    /\ pc \in {"settle", "stopping"} =>
          Over(c2u) /\ u2c.at \in {"done", "cancelled", "cancelling"}
    /\ pc \in Ending => ~Running(c2u) /\ ~Running(u2c.at)
    /\ u2c.at = "working" => u2c.agenda # <<>>
    /\ pc \in {"arrived", "refused"} => upstream = "none"
    /\ pc = "closed" => upstream # "open"

\* The registry and the gauges tell of the session and its tasks.
Counted ==
    /\ pc \in {"arrived", "refused", "accept", "closed"} => ~handle.registered
    /\ pc = "connect" => handle.registered = chatgpt
    /\ pc \notin {"arrived", "refused", "accept", "connect", "finally", "closed"} =>
          handle.registered
    /\ handle.tasks = IF c2u = "off" \/ pc = "closed" THEN 0 ELSE 2
    /\ handle.tasks = 2 => handle.registered
    /\ gauges = [sessions |-> IF handle.registered THEN 1 ELSE 0, tasks |-> handle.tasks]

\* What either transport was sent.
SentBy ==
    /\ pc \in NoTasks => wire = 0
    /\ pc \in NoTasks \ {"fallback stream", "fallback refused", "fallback error"} => posts = 0
    /\ pc \in WithTasks => posts = 0

\* What was emitted is what the records cover, until the last one covers it all.
Emitted ==
    /\ \A t \in Tokens : recorded[t] <= total[t]
    /\ emitted = recorded \/ way = "returned"
    /\ way = "returned" => pc \in {"finally", "closed"} /\ emitted = total

Soundness == TypeOK /\ Placed /\ Counted /\ SentBy /\ FirstFrameOnce /\ Emitted

-----------------------------------------------------------------------------
(* The steps keep it. *)

\* The counter of attempts begins anew after the last one.
LEMMA AttemptWraps ==
    ASSUME WsAssumption, NEW a \in 0 .. (Attempts - 1)
    PROVE  (a + 1) % Attempts \in 0 .. (Attempts - 1)
BY DEF WsAssumption

\* TypeOK in parts that the provers take one at a time.
TypeNames ==
    /\ chatgpt \in BOOLEAN
    /\ way \in {"none", "returned", "raised", "timed out", "stopped"}
    /\ cause \in {"unknown", "client_timeout", "client_disconnect", "client_error", "client_cancel",
                  "upstream_error", "upstream_disconnect", "response_completed"}
    /\ client \in {"waiting", "open", "gone", "closed"}
    /\ upstream \in {"none", "open", "ended", "failed", "closed"}
    /\ errors \subseteq {"client", "upstream"}
TypeFlags == memoryOn \in BOOLEAN /\ completedSeen \in BOOLEAN /\ cancelled \in BOOLEAN
TypeCounts == attempt \in 0..(Attempts - 1) /\ wire \in Nat /\ posts \in Nat
TypeTasks == c2u \in Ats /\ u2c \in [at : Ats, agenda : Seq({"record", "show"})]
TypeEvents == read \in Nat
TypeBooks ==
    /\ total \in [Tokens -> Nat]
    /\ recorded \in [Tokens -> Nat]
    /\ emitted \in [Tokens -> Nat]
TypeRegister ==
    /\ handle \in [registered : BOOLEAN, tasks : {0, 2}]
    /\ gauges \in [sessions : 0..1, tasks : 0..2]

Typed == /\ TypeNames /\ TypeFlags /\ TypeCounts /\ TypeTasks
         /\ TypeEvents /\ TypeBooks /\ TypeRegister

\* The type invariant is the conjunction of its parts.
LEMMA TypeParts == (TypeOK <=> Typed) /\ (TypeOK' <=> Typed')
<1> USE DEF Typed, TypeNames, TypeFlags, TypeCounts, TypeTasks, TypeEvents, TypeBooks,
            TypeRegister
<1>1. TypeOK <=> Typed
  BY DEF TypeOK
<1>2. TypeOK' <=> Typed'
  BY DEF TypeOK
<1>3. QED
  BY <1>1, <1>2

\* The gauges have the type the registry gives them.
LEMMA GaugesTyped ==
    ASSUME Counted, handle \in [registered : BOOLEAN, tasks : {0, 2}]
    PROVE  gauges \in [sessions : 0..1, tasks : 0..2]
BY DEF Counted

\* The client's task runs only while the relay does, and touches no books.
LEMMA ClientSound == ASSUME Soundness, ClientTask PROVE Soundness'
<1> USE DEF handlerVars, sockets, tasks, traffic, books, register
<1>1. /\ UNCHANGED <<handlerVars, books, register, u2c, memoryOn, completedSeen, client, posts,
                     read>>
      /\ c2u \in {"receiving", "memory", "compressing", "sending", "closing", "closed"}
      /\ c2u' \in {"receiving", "memory", "compressing", "sending", "closing", "closed", "done"}
      /\ errors' \in {errors, errors \cup {"client"}} /\ cancelled' \in BOOLEAN
      /\ wire' = wire \/ wire' = wire + 1
      /\ upstream' \in {upstream, "closed"} /\ (upstream = "none" => upstream' = "none")
  <2>1. cancelled \in BOOLEAN
    BY DEF Soundness, TypeOK
  <2>2. CASE ReceiveFrame
    BY <2>1, <2>2 DEF ReceiveFrame, Kinds
  <2>3. CASE ReceiveEnds \/ PrepareFrame \/ CompressFrame \/ CompressFrameFails
    BY <2>1, <2>3 DEF ReceiveEnds, PrepareFrame, CompressFrame, CompressFrameFails
  <2>4. CASE SendFrame \/ SendFrameFails \/ CloseUpstream \/ EndClientTask
    BY <2>1, <2>4 DEF SendFrame, SendFrameFails, CloseUpstream, EndClientTask
  <2>5. QED
    BY <2>2, <2>3, <2>4 DEF ClientTask
<1>2. Placed /\ Counted /\ SentBy /\ FirstFrameOnce /\ Emitted
  BY DEF Soundness
<1>3. pc = "relay"
  BY <1>1, <1>2 DEF Placed, NoTasks, WithTasks, Ending, Over, Running
<1>4. Typed
  BY TypeParts DEF Soundness
<1>5. TypeOK'
  <2>1. TypeNames'
    <3>1. TypeNames
      BY <1>1, <1>4 DEF Typed
    <3>2. chatgpt' \in BOOLEAN /\ errors' \subseteq {"client", "upstream"}
      BY <1>1, <1>4, <3>1 DEF TypeNames
    <3>3. /\ way' \in {"none", "returned", "raised", "timed out", "stopped"}
          /\ client' \in {"waiting", "open", "gone", "closed"}
          /\ upstream' \in {"none", "open", "ended", "failed", "closed"}
      BY <1>1, <1>4, <3>1 DEF TypeNames
    <3>4. cause' \in {"unknown", "client_timeout", "client_disconnect", "client_error",
                     "client_cancel", "upstream_error", "upstream_disconnect",
                     "response_completed"}
      BY <1>1, <1>4, <3>1 DEF TypeNames
    <3>5. QED
      BY <3>2, <3>3, <3>4 DEF TypeNames
  <2>2. TypeFlags'
    BY <1>1, <1>4 DEF Typed, TypeFlags
  <2>3. TypeCounts'
    BY <1>1, <1>4 DEF Typed, TypeCounts
  <2>4. TypeTasks'
    BY <1>1, <1>4 DEF Typed, TypeTasks, Ats
  <2>5. TypeEvents' /\ TypeBooks' /\ TypeRegister'
    BY <1>1, <1>4 DEF Typed, TypeEvents, TypeBooks, TypeRegister
  <2>6. QED
    BY <2>1, <2>2, <2>3, <2>4, <2>5, TypeParts DEF Typed
<1>6. Placed'
  BY <1>1, <1>2, <1>3 DEF Placed, NoTasks, WithTasks, Ending
<1>7. Counted'
  BY <1>1, <1>2, <1>3 DEF Counted
<1>8. SentBy' /\ FirstFrameOnce'
  BY <1>1, <1>2, <1>3 DEF SentBy, FirstFrameOnce, NoTasks, WithTasks
<1>9. Emitted'
  BY <1>1, <1>2 DEF Emitted
<1>10. QED
  BY <1>5, <1>6, <1>7, <1>8, <1>9 DEF Soundness

\* What is left of an agenda.
LEMMA AgendaShrinks ==
    ASSUME u2c \in [at : Ats, agenda : Seq({"record", "show"})], u2c.agenda # <<>>, Proceed
    PROVE  /\ u2c' \in [at : {"reading", "working"}, agenda : Seq({"record", "show"})]
           /\ u2c'.at = "working" => u2c'.agenda # <<>>
<1> DEFINE s == u2c.agenda
<1>1. s \in Seq({"record", "show"}) /\ s # <<>>
  OBVIOUS
<1>2. Tail(s) \in Seq({"record", "show"}) /\ (Len(s) # 1 => Tail(s) # <<>>)
  <2>1. Tail(s) \in Seq({"record", "show"}) /\ Len(Tail(s)) = Len(s) - 1 /\ Len(s) \in Nat \ {0}
    BY <1>1, EmptySeq
  <2>2. Len(s) # 1 => Len(Tail(s)) # 0
    BY <2>1
  <2>3. QED
    BY <2>1, <2>2, EmptySeq
<1>3. u2c' = [at |-> IF Len(s) = 1 THEN "reading" ELSE "working", agenda |-> Tail(s)]
  BY DEF Proceed
<1> HIDE DEF s
<1>4. QED
  BY <1>2, <1>3

\* The upstream's task counts what the upstream reports and records it by turns.
LEMMA UpstreamSound == ASSUME Soundness, UpstreamTask PROVE Soundness'
<1> USE DEF handlerVars, sockets, tasks, traffic, books, register
<1>1. /\ UNCHANGED <<handlerVars, register, c2u, memoryOn, cancelled, wire, posts, upstream>>
      /\ u2c.at \in {"reading", "working", "closing", "cancelling"}
      /\ client' \in {client, "closed"} /\ errors' \in {errors, errors \cup {"upstream"}}
  BY DEF UpstreamTask, ReadEvent, ReadEnds, RecordTurn, ShowEvent, ShowFails, CloseClient
<1>2. Placed /\ Counted /\ SentBy /\ FirstFrameOnce /\ Emitted /\ Typed
  BY TypeParts DEF Soundness
<1>3. pc \in WithTasks /\ (pc \in {"settle", "stopping"} => u2c.at = "cancelling")
  BY <1>1, <1>2 DEF Placed, NoTasks, WithTasks, Ending, Over, Running
<1>4. u2c \in [at : Ats, agenda : Seq({"record", "show"})]
  BY <1>2 DEF Typed, TypeTasks
<1>5. u2c.at = "cancelling" => u2c'.at = "cancelled"
  BY <1>4 DEF UpstreamTask, ReadEvent, ReadEnds, RecordTurn, ShowEvent, ShowFails, CloseClient
<1>6. /\ u2c' \in [at : {"reading", "working", "closing", "done", "cancelled"},
                   agenda : Seq({"record", "show"})]
      /\ u2c'.at = "working" => u2c'.agenda # <<>>
  <2>1. u2c.at = "working" => u2c.agenda # <<>>
    BY <1>2 DEF Placed
  <2>2. CASE ReadEvent
    <3>1. PICK e \in Events : u2c' = [at |-> "working", agenda |-> Agenda(e)]
      BY <2>2 DEF ReadEvent
    <3>2. Agenda(e) \in Seq({"record", "show"}) /\ Agenda(e) # <<>>
      <4>1. Agenda(e) \in {<<"show">>, <<"record">>, <<"show", "record">>, <<"record", "show">>}
        BY DEF Agenda
      <4>2. /\ <<"show">> \in Seq({"record", "show"})
            /\ <<"record">> \in Seq({"record", "show"})
            /\ <<"show", "record">> \in Seq({"record", "show"})
            /\ <<"record", "show">> \in Seq({"record", "show"})
        OBVIOUS
      <4>3. /\ <<"show">> # <<>> /\ <<"record">> # <<>>
            /\ <<"show", "record">> # <<>> /\ <<"record", "show">> # <<>>
        OBVIOUS
      <4>4. QED
        BY <4>1, <4>2, <4>3
    <3>3. QED
      BY <3>1, <3>2
  <2>3. CASE RecordTurn \/ ShowEvent
    <3>1. u2c.at = "working" /\ Proceed
      BY <2>3 DEF RecordTurn, ShowEvent
    <3>2. QED
      BY <1>4, <2>1, <3>1, AgendaShrinks
  <2>4. CASE ReadEnds \/ ShowFails \/ CloseClient
    BY <1>4, <2>4 DEF ReadEnds, ShowFails, CloseClient
  <2>5. QED
    BY <2>2, <2>3, <2>4 DEF UpstreamTask
<1>7. TypeBooks' /\ Emitted'
  <2>1. TypeBooks /\ way # "returned" /\ emitted = recorded /\ way' = way
    BY <1>1, <1>2, <1>3 DEF Typed, Emitted, WithTasks
  <2>2. \A t \in Tokens : recorded[t] <= total[t]
    BY <1>2 DEF Emitted
  <2>3. CASE ReadEvent
    <3>1. /\ recorded' = recorded /\ emitted' = emitted
          /\ total' = total \/ total' = [total EXCEPT !["used"] = @ + 1]
      BY <2>3 DEF ReadEvent
    <3>2. total' \in [Tokens -> Nat] /\ \A t \in Tokens : total[t] <= total'[t]
      BY <2>1, <3>1 DEF TypeBooks, Tokens
    <3>3. \A t \in Tokens : recorded[t] \in Nat /\ total[t] \in Nat /\ total'[t] \in Nat
      BY <2>1, <3>2 DEF TypeBooks
    <3>4. \A t \in Tokens : recorded'[t] <= total'[t]
      BY <2>2, <3>1, <3>2, <3>3
    <3>5. QED
      BY <2>1, <3>1, <3>2, <3>4 DEF TypeBooks, Emitted
  <2>4. CASE RecordTurn
    <3>1. /\ recorded' = total /\ total' = total
          /\ emitted' = [t \in Tokens |-> emitted[t] + total[t] - recorded[t]]
      BY <2>4 DEF RecordTurn
    <3>2. \A t \in Tokens : recorded[t] \in Nat /\ total[t] \in Nat
      BY <2>1 DEF TypeBooks
    <3>3. \A t \in Tokens : emitted[t] + total[t] - recorded[t] = total[t]
      BY <2>1, <3>2
    <3>4. emitted' = total
      BY <2>1, <3>1, <3>3 DEF TypeBooks
    <3>5. QED
      BY <2>1, <3>1, <3>2, <3>4 DEF TypeBooks, Emitted
  <2>5. CASE ReadEnds \/ ShowEvent \/ ShowFails \/ CloseClient
    BY <2>1, <2>2, <2>5 DEF ReadEnds, ShowEvent, ShowFails, CloseClient, TypeBooks, Emitted
  <2>6. QED
    BY <2>3, <2>4, <2>5 DEF UpstreamTask
<1>8. TypeEvents'
  BY <1>2 DEF UpstreamTask, ReadEvent, ReadEnds, RecordTurn, ShowEvent, ShowFails, CloseClient,
              Typed, TypeEvents
<1>9. TypeOK'
  <2>1. TypeNames'
    <3>1. TypeNames
      BY <1>1, <1>2 DEF Typed
    <3>2. chatgpt' \in BOOLEAN /\ errors' \subseteq {"client", "upstream"}
      BY <1>1, <1>2, <3>1 DEF TypeNames
    <3>3. /\ way' \in {"none", "returned", "raised", "timed out", "stopped"}
          /\ client' \in {"waiting", "open", "gone", "closed"}
          /\ upstream' \in {"none", "open", "ended", "failed", "closed"}
      BY <1>1, <1>2, <3>1 DEF TypeNames
    <3>4. cause' \in {"unknown", "client_timeout", "client_disconnect", "client_error",
                     "client_cancel", "upstream_error", "upstream_disconnect",
                     "response_completed"}
      BY <1>1, <1>2, <3>1 DEF TypeNames
    <3>5. QED
      BY <3>2, <3>3, <3>4 DEF TypeNames
  <2>2. completedSeen' \in BOOLEAN
    BY <1>2 DEF UpstreamTask, ReadEvent, ReadEnds, RecordTurn, ShowEvent, ShowFails, CloseClient,
                Typed, TypeFlags
  <2>3. TypeFlags' /\ TypeCounts' /\ TypeRegister'
    BY <1>1, <1>2, <2>2 DEF Typed, TypeFlags, TypeCounts, TypeRegister
  <2>4. TypeTasks'
    <3>1. {"reading", "working", "closing", "done", "cancelled"} \subseteq Ats
      BY DEF Ats
    <3>2. c2u' \in Ats
      BY <1>1, <1>2 DEF Typed, TypeTasks
    <3>3. QED
      BY <1>6, <3>1, <3>2 DEF TypeTasks
  <2>5. QED
    BY <1>7, <1>8, <2>1, <2>3, <2>4, TypeParts DEF Typed
<1>10. Placed'
  <2>1. pc' = pc /\ c2u' = c2u /\ upstream' = upstream
    BY <1>1
  <2>2. u2c'.at \in {"reading", "working", "closing", "done", "cancelled"}
    BY <1>6
  <2>3. QED
    BY <1>2, <1>3, <1>5, <1>6, <2>1, <2>2 DEF Placed, NoTasks, WithTasks, Ending
<1>11. Counted' /\ SentBy' /\ FirstFrameOnce'
  BY <1>1, <1>2 DEF Counted, SentBy, FirstFrameOnce
<1>12. QED
  BY <1>7, <1>9, <1>10, <1>11 DEF Soundness

\* The steps of the handler, and its cancellation, before and without tasks.
Opening ==
    \/ Arrive \/ RefuseOrigin \/ Accept \/ AcceptFails \/ ConnectUpstream \/ ConnectFails
    \/ FirstFrame \/ FirstFrameTimeout \/ FirstFrameFails \/ PrepareFirst \/ CompressFirst
    \/ SendFirstFails
Fallback ==
    \/ FallbackConnectFails \/ FallbackPost \/ FallbackRefused \/ FallbackEvent
    \/ FallbackEnds \/ FallbackBreaks

\* The opening of a session, up to its first frame.
LEMMA OpeningSound == ASSUME Soundness, Opening PROVE Soundness'
<1> USE DEF handlerVars, sockets, tasks, traffic, books, register
<1>1. Placed /\ Counted /\ SentBy /\ FirstFrameOnce /\ Emitted /\ Typed
  BY TypeParts DEF Soundness
<1>2. /\ UNCHANGED <<tasks, traffic, recorded, emitted>>
      /\ pc \in {"arrived", "accept", "connect", "first", "memory", "compress", "send"}
      /\ pc' \in {"refused", "accept", "connect", "first", "memory", "compress", "send",
                  "fallback", "finally"}
      /\ chatgpt' = chatgpt
      /\ way' \in {way, "raised", "timed out"}
      /\ client' \in {client, "open", "closed"}
      /\ upstream' \in {upstream, "open"} /\ (pc = "arrived" => upstream' = upstream)
      /\ cause' \in {cause, "client_disconnect", "client_error", "client_timeout"}
  BY DEF Opening, Arrive, RefuseOrigin, Accept, AcceptFails, ConnectUpstream, ConnectFails,
         AfterConnecting, FirstFrame, FirstFrameTimeout, FirstFrameFails, PrepareFirst,
         CompressFirst, SendFirstFails, Raise
<1>3. /\ pc = "accept" /\ pc' # "finally" => Accept
      /\ pc # "accept" \/ pc' = "finally" => UNCHANGED register
      /\ pc # "compress" => total' = total
      /\ pc' = "refused" => pc = "arrived"
  BY DEF Opening, Arrive, RefuseOrigin, Accept, AcceptFails, ConnectUpstream, ConnectFails,
         AfterConnecting, FirstFrame, FirstFrameTimeout, FirstFrameFails, PrepareFirst,
         CompressFirst, SendFirstFails, Raise
<1>4. c2u = "off" /\ u2c.at = "off" /\ wire = 0 /\ posts = 0
  BY <1>1, <1>2 DEF Placed, SentBy, NoTasks
<1>5. Placed' /\ SentBy' /\ FirstFrameOnce'
  BY <1>1, <1>2, <1>3, <1>4 DEF Placed, SentBy, FirstFrameOnce, NoTasks, WithTasks, Ending, Running,
                                Over
<1>6. attempt' \in 0 .. (Attempts - 1)
  <2>1. attempt \in 0 .. (Attempts - 1)
    BY <1>1 DEF Typed, TypeCounts
  <2>2. attempt' = attempt \/ attempt' = (attempt + 1) % Attempts
    BY DEF Opening, Arrive, RefuseOrigin, Accept, AcceptFails, ConnectUpstream, ConnectFails,
           AfterConnecting, FirstFrame, FirstFrameTimeout, FirstFrameFails, PrepareFirst,
           CompressFirst, SendFirstFails, Raise
  <2>3. QED
    BY <2>1, <2>2, AttemptWraps, WsAssumption
<1>7. TypeBooks' /\ Emitted'
  <2>1. TypeBooks /\ way # "returned" /\ emitted = recorded /\ way' # "returned"
    BY <1>1, <1>2 DEF Typed, Emitted
  <2>2. \A t \in Tokens : recorded[t] <= total[t]
    BY <1>1 DEF Emitted
  <2>3. recorded' = recorded /\ emitted' = emitted
    BY <1>2
  <2>4. total' = total \/ total' = [total EXCEPT !["saved"] = @ + 1]
    BY DEF Opening, Arrive, RefuseOrigin, Accept, AcceptFails, ConnectUpstream, ConnectFails,
           AfterConnecting, FirstFrame, FirstFrameTimeout, FirstFrameFails, PrepareFirst,
           CompressFirst, SendFirstFails, Raise
  <2>5. total' \in [Tokens -> Nat] /\ \A t \in Tokens : total[t] <= total'[t]
    BY <2>1, <2>4 DEF TypeBooks, Tokens
  <2>6. \A t \in Tokens : recorded[t] \in Nat /\ total[t] \in Nat /\ total'[t] \in Nat
    BY <2>1, <2>5 DEF TypeBooks
  <2>7. \A t \in Tokens : recorded'[t] <= total'[t]
    BY <2>2, <2>3, <2>5, <2>6
  <2>8. QED
    BY <2>1, <2>3, <2>5, <2>7 DEF TypeBooks, Emitted
<1>8. Counted'
  <2>1. handle.tasks = 0 /\ (pc = "accept" => ~handle.registered)
    BY <1>1, <1>2, <1>4 DEF Counted
  <2>2. CASE pc = "accept" /\ pc' # "finally"
    <3>1. /\ handle' = [registered |-> TRUE, tasks |-> 0]
          /\ gauges' = [gauges EXCEPT !.sessions = @ + 1]
          /\ pc' = IF chatgpt THEN "connect" ELSE "first"
      BY <1>3, <2>2 DEF Accept, Register
    <3>2. gauges = [sessions |-> 0, tasks |-> 0]
      BY <1>1, <2>1, <2>2 DEF Counted
    <3>3. gauges' = [sessions |-> 1, tasks |-> 0]
      BY <3>1, <3>2
    <3>4. chatgpt \in BOOLEAN
      BY <1>1 DEF Typed, TypeNames
    <3>5. QED
      BY <1>2, <1>4, <3>1, <3>3, <3>4 DEF Counted
  <2>3. CASE pc # "accept" \/ pc' = "finally"
    <3>1. handle' = handle /\ gauges' = gauges
      BY <1>3, <2>3
    <3>2. pc = "connect" => pc' \in {"connect", IF chatgpt THEN "first" ELSE "accept", "finally"}
      BY DEF Opening, Arrive, RefuseOrigin, Accept, AcceptFails, ConnectUpstream, ConnectFails,
             AfterConnecting, FirstFrame, FirstFrameTimeout, FirstFrameFails, PrepareFirst,
             CompressFirst, SendFirstFails, Raise
    <3>3. pc = "arrived" => pc' \in {"refused", IF chatgpt THEN "accept" ELSE "connect"}
      BY DEF Opening, Arrive, RefuseOrigin, Accept, AcceptFails, ConnectUpstream, ConnectFails,
             AfterConnecting, FirstFrame, FirstFrameTimeout, FirstFrameFails, PrepareFirst,
             CompressFirst, SendFirstFails, Raise
    <3>4. pc \notin {"arrived", "accept", "connect"} =>
             pc' \in {"memory", "compress", "send", "fallback", "finally"}
      BY DEF Opening, Arrive, RefuseOrigin, Accept, AcceptFails, ConnectUpstream, ConnectFails,
             AfterConnecting, FirstFrame, FirstFrameTimeout, FirstFrameFails, PrepareFirst,
             CompressFirst, SendFirstFails, Raise
    <3>5. chatgpt \in BOOLEAN /\ handle.registered \in BOOLEAN
      BY <1>1 DEF Typed, TypeNames, TypeRegister
    <3>6. QED
      BY <1>1, <1>2, <1>4, <2>1, <2>3, <3>1, <3>2, <3>3, <3>4, <3>5 DEF Counted
  <2>4. QED
    BY <2>2, <2>3
<1>9. TypeOK'
  <2>1. TypeNames'
    <3>1. TypeNames /\ errors' = errors
      BY <1>1, <1>2 DEF Typed
    <3>2. chatgpt' \in BOOLEAN /\ errors' \subseteq {"client", "upstream"}
      BY <1>2, <3>1 DEF TypeNames
    <3>3. /\ way' \in {"none", "returned", "raised", "timed out", "stopped"}
          /\ client' \in {"waiting", "open", "gone", "closed"}
          /\ upstream' \in {"none", "open", "ended", "failed", "closed"}
      BY <1>2, <3>1 DEF TypeNames
    <3>4. cause' \in {"unknown", "client_timeout", "client_disconnect", "client_error",
                     "client_cancel", "upstream_error", "upstream_disconnect",
                     "response_completed"}
      BY <1>2, <3>1 DEF TypeNames
    <3>5. QED
      BY <3>2, <3>3, <3>4 DEF TypeNames
  <2>2. TypeFlags' /\ TypeTasks' /\ TypeEvents'
    BY <1>1, <1>2 DEF Typed, TypeFlags, TypeTasks, TypeEvents
  <2>3. TypeCounts'
    BY <1>1, <1>2, <1>6 DEF Typed, TypeCounts
  <2>4. handle' \in [registered : BOOLEAN, tasks : {0, 2}]
    <3>1. handle \in [registered : BOOLEAN, tasks : {0, 2}]
      BY <1>1 DEF Typed, TypeRegister
    <3>2. handle' = handle \/ handle' = [registered |-> TRUE, tasks |-> 0]
      BY <1>3 DEF Accept, Register
    <3>3. [registered |-> TRUE, tasks |-> 0] \in [registered : BOOLEAN, tasks : {0, 2}]
      OBVIOUS
    <3>4. QED
      BY <3>1, <3>2, <3>3
  <2>5. TypeRegister'
    BY <1>8, <2>4 DEF Counted, TypeRegister
  <2>6. QED
    BY <1>7, <2>1, <2>2, <2>3, <2>5, TypeParts DEF Typed
<1>10. QED
  BY <1>5, <1>7, <1>8, <1>9 DEF Soundness

\* The session without an upstream socket.
LEMMA FallbackSound == ASSUME Soundness, Fallback PROVE Soundness'
<1> USE DEF handlerVars, sockets, tasks, traffic, books, register
<1>1. Placed /\ Counted /\ SentBy /\ FirstFrameOnce /\ Emitted /\ Typed
  BY TypeParts DEF Soundness
<1>2. /\ UNCHANGED <<tasks, wire, books, register, chatgpt, way, cause, upstream>>
      /\ pc \in {"fallback", "fallback stream", "fallback refused", "fallback error"}
      /\ pc' \in {"fallback", "fallback stream", "fallback refused", "fallback error", "residual"}
      /\ client' \in {client, "closed"}
  BY DEF Fallback, FallbackConnectFails, FallbackPost, FallbackRefused, FallbackEvent,
         FallbackEnds, FallbackBreaks
<1>3. /\ posts' = posts \/ posts' = posts + 1
      /\ posts' # posts => pc = "fallback"
      /\ pc' = "fallback" => pc = "fallback" /\ posts' = posts
      /\ attempt' = attempt \/ attempt' = (attempt + 1) % Attempts
  BY DEF Fallback, FallbackConnectFails, FallbackPost, FallbackRefused, FallbackEvent,
         FallbackEnds, FallbackBreaks
<1>4. c2u = "off" /\ u2c.at = "off" /\ wire = 0 /\ (pc = "fallback" => posts = 0)
  BY <1>1, <1>2 DEF Placed, SentBy, NoTasks
<1>5. TypeOK'
  <2>1. TypeFlags' /\ TypeTasks' /\ TypeBooks' /\ TypeRegister'
    BY <1>1, <1>2 DEF Typed, TypeFlags, TypeTasks, TypeBooks, TypeRegister
  <2>2. TypeNames'
    BY <1>1, <1>2 DEF Typed, TypeNames
  <2>3. TypeCounts'
    <3>1. attempt \in 0 .. (Attempts - 1) /\ wire \in Nat /\ posts \in Nat
      BY <1>1 DEF Typed, TypeCounts
    <3>2. attempt' \in 0 .. (Attempts - 1)
      BY <1>3, <3>1, AttemptWraps, WsAssumption
    <3>3. posts' \in Nat
      BY <1>3, <3>1
    <3>4. QED
      BY <1>2, <3>1, <3>2, <3>3 DEF TypeCounts
  <2>4. TypeEvents'
    <3>1. read \in Nat
      BY <1>1 DEF Typed, TypeEvents
    <3>2. read' = read \/ read' = read + 1
      BY DEF Fallback, FallbackConnectFails, FallbackPost, FallbackRefused, FallbackEvent,
             FallbackEnds, FallbackBreaks
    <3>3. QED
      BY <3>1, <3>2 DEF TypeEvents
  <2>5. QED
    BY <2>1, <2>2, <2>3, <2>4, TypeParts DEF Typed
<1>6. Placed'
  BY <1>1, <1>2, <1>4 DEF Placed, NoTasks, WithTasks, Ending, Running, Over
<1>7. Counted'
  BY <1>1, <1>2, <1>4 DEF Counted
<1>8. SentBy' /\ FirstFrameOnce'
  <2>1. posts \in Nat /\ posts <= 1
    BY <1>1 DEF Typed, TypeCounts, FirstFrameOnce
  <2>2. posts' <= 1
    BY <1>3, <1>4, <2>1
  <2>3. QED
    <3>1. wire' = 0
      BY <1>2, <1>4
    <3>2. ~(wire' > 0) /\ (pc' = "fallback" => posts' = 0)
      BY <1>3, <1>4, <3>1
    <3>3. QED
      BY <1>2, <2>2, <3>1, <3>2 DEF SentBy, FirstFrameOnce, NoTasks, WithTasks
<1>9. Emitted'
  BY <1>1, <1>2 DEF Emitted
<1>10. QED
  BY <1>5, <1>6, <1>7, <1>8, <1>9 DEF Soundness

\* The relay starts, and the first task to end, or the server, stops it.
LEMMA StartSound == ASSUME Soundness, StartRelay PROVE Soundness'
<1> USE DEF handlerVars, sockets, tasks, traffic, books, register
<1>1. Placed /\ Counted /\ SentBy /\ FirstFrameOnce /\ Emitted /\ Typed
  BY TypeParts DEF Soundness
<1>2. /\ UNCHANGED <<chatgpt, way, cause, attempt, client, upstream, posts, read, books,
                     completedSeen, errors, cancelled>>
      /\ pc = "send" /\ pc' = "relay" /\ upstream = "open" /\ wire' = wire + 1
      /\ c2u' = "receiving" /\ u2c' = [u2c EXCEPT !.at = "reading"]
      /\ memoryOn' \in {FALSE, ~chatgpt}
      /\ handle' = [handle EXCEPT !.tasks = 2]
      /\ gauges' = [gauges EXCEPT !.tasks = @ + 2]
  BY DEF StartRelay
<1>3. wire = 0 /\ posts = 0 /\ c2u = "off"
  BY <1>1, <1>2 DEF Placed, SentBy, NoTasks
<1>4. u2c' \in [at : {"reading"}, agenda : Seq({"record", "show"})]
  BY <1>1, <1>2 DEF Typed, TypeTasks
<1>5. handle \in [registered : BOOLEAN, tasks : {0, 2}] /\ handle.registered /\ handle.tasks = 0
  BY <1>1, <1>2, <1>3 DEF Typed, TypeRegister, Counted
<1>6. handle' = [registered |-> TRUE, tasks |-> 2] /\ gauges' = [sessions |-> 1, tasks |-> 2]
  <2>1. gauges = [sessions |-> 1, tasks |-> 0]
    BY <1>1, <1>5 DEF Counted
  <2>2. handle = [registered |-> TRUE, tasks |-> 0]
    BY <1>5
  <2>3. gauges' = [sessions |-> 1, tasks |-> 0 + 2] /\ 0 + 2 = 2
    BY <1>2, <2>1
  <2>4. handle' = [registered |-> TRUE, tasks |-> 2]
    BY <1>2, <2>2
  <2>5. QED
    BY <2>3, <2>4
<1>7. Counted'
  <2>1. handle'.registered = TRUE /\ handle'.tasks = 2 /\ gauges' = [sessions |-> 1, tasks |-> 2]
    BY <1>6
  <2>2. pc' = "relay" /\ c2u' # "off"
    BY <1>2
  <2>3. QED
    BY <2>1, <2>2 DEF Counted
<1>8. Placed'
  BY <1>2, <1>4 DEF Placed, NoTasks, WithTasks, Ending
<1>9. SentBy' /\ FirstFrameOnce'
  BY <1>2, <1>3 DEF SentBy, FirstFrameOnce, NoTasks, WithTasks
<1>10. Emitted'
  BY <1>1, <1>2 DEF Emitted
<1>11. TypeOK'
  <2>1. TypeNames'
    <3>1. TypeNames
      BY <1>1, <1>2 DEF Typed
    <3>2. chatgpt' \in BOOLEAN /\ errors' \subseteq {"client", "upstream"}
      BY <1>1, <1>2, <3>1 DEF TypeNames
    <3>3. /\ way' \in {"none", "returned", "raised", "timed out", "stopped"}
          /\ client' \in {"waiting", "open", "gone", "closed"}
          /\ upstream' \in {"none", "open", "ended", "failed", "closed"}
      BY <1>1, <1>2, <3>1 DEF TypeNames
    <3>4. cause' \in {"unknown", "client_timeout", "client_disconnect", "client_error",
                     "client_cancel", "upstream_error", "upstream_disconnect",
                     "response_completed"}
      BY <1>1, <1>2, <3>1 DEF TypeNames
    <3>5. QED
      BY <3>2, <3>3, <3>4 DEF TypeNames
  <2>2. TypeFlags'
    BY <1>1, <1>2 DEF Typed, TypeFlags, TypeNames
  <2>3. TypeCounts'
    BY <1>1, <1>2, <1>3 DEF Typed, TypeCounts
  <2>4. TypeTasks'
    <3>1. c2u' \in Ats /\ {"reading"} \subseteq Ats
      BY <1>2 DEF Ats
    <3>2. QED
      BY <1>4, <3>1 DEF TypeTasks
  <2>5. TypeEvents' /\ TypeBooks'
    BY <1>1, <1>2 DEF Typed, TypeEvents, TypeBooks
  <2>6. TypeRegister'
    BY <1>6 DEF TypeRegister
  <2>7. QED
    BY <2>1, <2>2, <2>3, <2>4, <2>5, <2>6, TypeParts DEF Typed
<1>12. QED
  BY <1>7, <1>8, <1>9, <1>10, <1>11 DEF Soundness

\* The relay is woken or cancelled.
LEMMA StopSound == ASSUME Soundness, WakeUp \/ CancelRelay PROVE Soundness'
<1> USE DEF handlerVars, sockets, tasks, traffic, books, register
<1>1. Placed /\ Counted /\ SentBy /\ FirstFrameOnce /\ Emitted /\ Typed
  BY TypeParts DEF Soundness
<1>2. /\ UNCHANGED <<chatgpt, cause, attempt, sockets, traffic, books, register,
                     memoryOn, completedSeen, errors, cancelled>>
      /\ pc = "relay" /\ pc' \in {"settle", "stopping"} /\ way' \in {way, "stopped"}
      /\ CancelTasks
  BY DEF WakeUp, CancelRelay
<1>3. u2c \in [at : Ats, agenda : Seq({"record", "show"})]
  BY <1>1 DEF Typed, TypeTasks
<1>4. c2u # "off" /\ u2c.at # "off"
  BY <1>1, <1>2 DEF Placed, WithTasks
<1>5. c2u' \in {"done", "cancelled"}
  BY <1>2, <1>4 DEF CancelTasks, Running
<1>6. /\ u2c' \in [at : Ats, agenda : Seq({"record", "show"})]
      /\ u2c'.at \in {"done", "cancelled", "cancelling"}
  <2>1. CASE Running(u2c.at)
    <3>1. u2c' = [u2c EXCEPT !.at = IF u2c.at = "closing" THEN "cancelled" ELSE "cancelling"]
      BY <1>2, <2>1 DEF CancelTasks
    <3>2. "cancelled" \in Ats /\ "cancelling" \in Ats
      BY DEF Ats
    <3>3. QED
      BY <1>3, <3>1, <3>2
  <2>2. CASE ~Running(u2c.at)
    BY <1>2, <1>3, <1>4, <2>2 DEF CancelTasks, Running
  <2>3. QED
    BY <2>1, <2>2
<1>7. Placed'
  BY <1>1, <1>2, <1>5, <1>6 DEF Placed, NoTasks, WithTasks, Ending, Over
<1>8. Counted' /\ SentBy' /\ FirstFrameOnce'
  BY <1>1, <1>2, <1>4, <1>5 DEF Counted, SentBy, FirstFrameOnce, NoTasks, WithTasks
<1>9. Emitted'
  BY <1>1, <1>2 DEF Emitted
<1>10. TypeOK'
  <2>1. TypeNames'
    <3>1. TypeNames
      BY <1>1, <1>2 DEF Typed
    <3>2. chatgpt' \in BOOLEAN /\ errors' \subseteq {"client", "upstream"}
      BY <1>1, <1>2, <3>1 DEF TypeNames
    <3>3. /\ way' \in {"none", "returned", "raised", "timed out", "stopped"}
          /\ client' \in {"waiting", "open", "gone", "closed"}
          /\ upstream' \in {"none", "open", "ended", "failed", "closed"}
      BY <1>1, <1>2, <3>1 DEF TypeNames
    <3>4. cause' \in {"unknown", "client_timeout", "client_disconnect", "client_error",
                     "client_cancel", "upstream_error", "upstream_disconnect",
                     "response_completed"}
      BY <1>1, <1>2, <3>1 DEF TypeNames
    <3>5. QED
      BY <3>2, <3>3, <3>4 DEF TypeNames
  <2>2. TypeTasks'
    BY <1>5, <1>6 DEF TypeTasks, Ats
  <2>3. TypeFlags' /\ TypeCounts' /\ TypeEvents' /\ TypeBooks' /\ TypeRegister'
    BY <1>1, <1>2 DEF Typed, TypeFlags, TypeCounts, TypeEvents, TypeBooks, TypeRegister
  <2>4. QED
    BY <2>1, <2>2, <2>3, TypeParts DEF Typed
<1>11. QED
  BY <1>7, <1>8, <1>9, <1>10 DEF Soundness

\* After the relay: the verdict, the last record, and the finally block.
LEMMA SettleSound == ASSUME Soundness, Settle \/ RelayStopped PROVE Soundness'
<1> USE DEF handlerVars, sockets, tasks, traffic, books, register
<1>1. Placed /\ Counted /\ SentBy /\ FirstFrameOnce /\ Emitted /\ Typed
  BY TypeParts DEF Soundness
<1>2. /\ UNCHANGED <<chatgpt, way, attempt, client, tasks, traffic, books, register>>
      /\ pc \in {"settle", "stopping"} /\ pc' \in {"residual", "finally"}
      /\ Over(c2u) /\ Over(u2c.at)
      /\ upstream' \in {upstream, "closed"}
  BY DEF Settle, RelayStopped
<1>3. cause' \in {cause, "client_cancel", "client_error", "client_disconnect", "upstream_error",
                 "response_completed", "upstream_disconnect"}
  <2>1. CASE Settle
    <3>1. PICK v \in Verdicts :
             cause' = IF cancelled /\ ~completedSeen
                         /\ v \in {"upstream_disconnect", "client_disconnect"}
                      THEN "client_cancel" ELSE v
      BY <2>1 DEF Settle
    <3>2. v \in {"client_error", "client_disconnect", "upstream_error",
                "response_completed", "upstream_disconnect"}
      BY DEF Verdicts, ClientVerdict, UpstreamVerdict
    <3>3. QED
      BY <3>1, <3>2
  <2>2. CASE RelayStopped
    BY <2>2 DEF RelayStopped
  <2>3. QED
    BY <2>1, <2>2
<1>4. TypeOK'
  <2>1. TypeNames'
    <3>1. TypeNames
      BY <1>1, <1>2, <1>3 DEF Typed
    <3>2. chatgpt' \in BOOLEAN /\ errors' \subseteq {"client", "upstream"}
      BY <1>1, <1>2, <1>3, <3>1 DEF TypeNames
    <3>3. /\ way' \in {"none", "returned", "raised", "timed out", "stopped"}
          /\ client' \in {"waiting", "open", "gone", "closed"}
          /\ upstream' \in {"none", "open", "ended", "failed", "closed"}
      BY <1>1, <1>2, <1>3, <3>1 DEF TypeNames
    <3>4. cause' \in {"unknown", "client_timeout", "client_disconnect", "client_error",
                     "client_cancel", "upstream_error", "upstream_disconnect",
                     "response_completed"}
      BY <1>1, <1>2, <1>3, <3>1 DEF TypeNames
    <3>5. QED
      BY <3>2, <3>3, <3>4 DEF TypeNames
  <2>2. TypeFlags' /\ TypeCounts' /\ TypeTasks' /\ TypeEvents' /\ TypeBooks' /\ TypeRegister'
    BY <1>1, <1>2 DEF Typed, TypeFlags, TypeCounts, TypeTasks, TypeEvents, TypeBooks, TypeRegister
  <2>3. QED
    BY <2>1, <2>2, TypeParts DEF Typed
<1>5. Placed'
  BY <1>1, <1>2 DEF Placed, NoTasks, WithTasks, Ending, Over, Running
<1>6. Counted' /\ SentBy' /\ FirstFrameOnce'
  BY <1>1, <1>2 DEF Counted, SentBy, FirstFrameOnce, NoTasks, WithTasks
<1>7. Emitted'
  BY <1>1, <1>2 DEF Emitted
<1>8. QED
  BY <1>4, <1>5, <1>6, <1>7 DEF Soundness

\* What was not reported yet is recorded.
LEMMA ResidualSound == ASSUME Soundness, RecordResidual PROVE Soundness'
<1> USE DEF handlerVars, sockets, tasks, traffic, books, register
<1>1. Placed /\ Counted /\ SentBy /\ FirstFrameOnce /\ Emitted /\ Typed
  BY TypeParts DEF Soundness
<1>2. /\ UNCHANGED <<chatgpt, cause, attempt, sockets, tasks, traffic, total, recorded, register>>
      /\ pc = "residual" /\ pc' = "finally" /\ way' = "returned"
      /\ emitted' = [t \in Tokens |-> emitted[t] + total[t] - recorded[t]]
  BY DEF RecordResidual
<1>3. TypeBooks' /\ Emitted'
  <2>1. TypeBooks /\ emitted = recorded
    BY <1>1, <1>2 DEF Typed, Emitted
  <2>2. \A t \in Tokens : recorded[t] \in Nat /\ total[t] \in Nat
    BY <2>1 DEF TypeBooks
  <2>3. \A t \in Tokens : emitted[t] + total[t] - recorded[t] = total[t]
    BY <2>1, <2>2
  <2>4. emitted' = total
    BY <1>2, <2>1, <2>3 DEF TypeBooks
  <2>5. QED
    BY <1>1, <1>2, <2>1, <2>4 DEF TypeBooks, Emitted
<1>4. TypeOK'
  <2>1. TypeNames'
    <3>1. TypeNames
      BY <1>1, <1>2 DEF Typed
    <3>2. chatgpt' \in BOOLEAN /\ errors' \subseteq {"client", "upstream"}
      BY <1>1, <1>2, <3>1 DEF TypeNames
    <3>3. /\ way' \in {"none", "returned", "raised", "timed out", "stopped"}
          /\ client' \in {"waiting", "open", "gone", "closed"}
          /\ upstream' \in {"none", "open", "ended", "failed", "closed"}
      BY <1>1, <1>2, <3>1 DEF TypeNames
    <3>4. cause' \in {"unknown", "client_timeout", "client_disconnect", "client_error",
                     "client_cancel", "upstream_error", "upstream_disconnect",
                     "response_completed"}
      BY <1>1, <1>2, <3>1 DEF TypeNames
    <3>5. QED
      BY <3>2, <3>3, <3>4 DEF TypeNames
  <2>2. TypeFlags' /\ TypeCounts' /\ TypeTasks' /\ TypeEvents' /\ TypeRegister'
    BY <1>1, <1>2 DEF Typed, TypeFlags, TypeCounts, TypeTasks, TypeEvents, TypeRegister
  <2>3. QED
    BY <1>3, <2>1, <2>2, TypeParts DEF Typed
<1>5. Placed'
  BY <1>1, <1>2 DEF Placed, NoTasks, WithTasks, Ending, Over, Running
<1>6. Counted' /\ SentBy' /\ FirstFrameOnce'
  BY <1>1, <1>2 DEF Counted, SentBy, FirstFrameOnce, NoTasks, WithTasks
<1>7. QED
  BY <1>3, <1>4, <1>5, <1>6 DEF Soundness

\* The finally of the session gives back what it holds.
LEMMA FinallySound == ASSUME Soundness, Finally PROVE Soundness'
<1> USE DEF handlerVars, sockets, tasks, traffic, books, register
<1>1. Placed /\ Counted /\ SentBy /\ FirstFrameOnce /\ Emitted /\ Typed
  BY TypeParts DEF Soundness
<1>2. /\ UNCHANGED <<chatgpt, way, cause, attempt, client, tasks, traffic, books>>
      /\ pc = "finally" /\ pc' = "closed"
      /\ upstream' = IF upstream = "open" THEN "closed" ELSE upstream
      /\ handle' = [registered |-> FALSE, tasks |-> 0]
      /\ gauges' = IF handle.registered
                   THEN [sessions |-> gauges.sessions - 1, tasks |-> gauges.tasks - handle.tasks]
                   ELSE gauges
  BY DEF Finally
<1>3. gauges' = [sessions |-> 0, tasks |-> 0]
  <2>1. handle \in [registered : BOOLEAN, tasks : {0, 2}] /\ (handle.tasks = 2 => handle.registered)
    BY <1>1 DEF Typed, TypeRegister, Counted
  <2>2. gauges = [sessions |-> IF handle.registered THEN 1 ELSE 0, tasks |-> handle.tasks]
    BY <1>1 DEF Counted
  <2>3. CASE handle.registered
    <3>1. gauges.sessions = 1 /\ gauges.tasks = handle.tasks /\ handle.tasks \in {0, 2}
      BY <2>1, <2>2, <2>3
    <3>2. gauges.sessions - 1 = 0 /\ gauges.tasks - handle.tasks = 0
      BY <3>1
    <3>3. QED
      BY <1>2, <2>3, <3>2
  <2>4. CASE ~handle.registered
    BY <1>2, <2>1, <2>2, <2>4
  <2>5. QED
    BY <2>3, <2>4
<1>4. TypeOK'
  <2>1. TypeNames'
    <3>1. TypeNames
      BY <1>1, <1>2 DEF Typed
    <3>2. chatgpt' \in BOOLEAN /\ errors' \subseteq {"client", "upstream"}
      BY <1>1, <1>2, <3>1 DEF TypeNames
    <3>3. /\ way' \in {"none", "returned", "raised", "timed out", "stopped"}
          /\ client' \in {"waiting", "open", "gone", "closed"}
          /\ upstream' \in {"none", "open", "ended", "failed", "closed"}
      BY <1>1, <1>2, <3>1 DEF TypeNames
    <3>4. cause' \in {"unknown", "client_timeout", "client_disconnect", "client_error",
                     "client_cancel", "upstream_error", "upstream_disconnect",
                     "response_completed"}
      BY <1>1, <1>2, <3>1 DEF TypeNames
    <3>5. QED
      BY <3>2, <3>3, <3>4 DEF TypeNames
  <2>2. TypeFlags' /\ TypeCounts' /\ TypeTasks' /\ TypeEvents' /\ TypeBooks'
    BY <1>1, <1>2 DEF Typed, TypeFlags, TypeCounts, TypeTasks, TypeEvents, TypeBooks
  <2>3. TypeRegister'
    <3>1. [registered |-> FALSE, tasks |-> 0] \in [registered : BOOLEAN, tasks : {0, 2}]
      OBVIOUS
    <3>2. [sessions |-> 0, tasks |-> 0] \in [sessions : 0..1, tasks : 0..2]
      OBVIOUS
    <3>3. QED
      BY <1>2, <1>3, <3>1, <3>2 DEF TypeRegister
  <2>4. QED
    BY <2>1, <2>2, <2>3, TypeParts DEF Typed
<1>5. Placed'
  BY <1>1, <1>2 DEF Placed, NoTasks, WithTasks, Ending, Over, Running
<1>6. Counted'
  BY <1>2, <1>3 DEF Counted
<1>7. SentBy' /\ FirstFrameOnce'
  BY <1>1, <1>2 DEF SentBy, FirstFrameOnce, NoTasks, WithTasks
<1>8. Emitted'
  BY <1>1, <1>2 DEF Emitted
<1>9. QED
  BY <1>4, <1>5, <1>6, <1>7, <1>8 DEF Soundness

\* The handler is cancelled outside the relay, and either end leaves.
LEMMA LeavingSound ==
    ASSUME Soundness, CancelHandler \/ ClientLeaves \/ UpstreamLeaves
    PROVE  Soundness'
<1> USE DEF handlerVars, sockets, tasks, traffic, books, register
<1>1. Placed /\ Counted /\ SentBy /\ FirstFrameOnce /\ Emitted /\ Typed
  BY TypeParts DEF Soundness
<1>2. /\ UNCHANGED <<chatgpt, cause, attempt, tasks, traffic, books, register>>
      /\ \/ pc' = pc /\ way' = way
         \/ /\ pc \in (NoTasks \ {"arrived", "refused"}) \cup {"residual"}
            /\ pc' = "finally" /\ way' = "stopped"
      /\ client' \in {client, "gone", "closed"}
      /\ upstream' = upstream \/ (upstream = "open" /\ upstream' \in {"ended", "failed"})
  <2>1. CASE CancelHandler
    BY <2>1 DEF CancelHandler, NoTasks
  <2>2. CASE ClientLeaves
    BY <2>2 DEF ClientLeaves
  <2>3. CASE UpstreamLeaves
    BY <2>3 DEF UpstreamLeaves
  <2>4. QED
    BY <2>1, <2>2, <2>3
<1>3. TypeOK'
  <2>1. TypeNames'
    <3>1. TypeNames
      BY <1>1, <1>2 DEF Typed
    <3>2. chatgpt' \in BOOLEAN /\ errors' \subseteq {"client", "upstream"}
      BY <1>1, <1>2, <3>1 DEF TypeNames
    <3>3. /\ way' \in {"none", "returned", "raised", "timed out", "stopped"}
          /\ client' \in {"waiting", "open", "gone", "closed"}
          /\ upstream' \in {"none", "open", "ended", "failed", "closed"}
      BY <1>1, <1>2, <3>1 DEF TypeNames
    <3>4. cause' \in {"unknown", "client_timeout", "client_disconnect", "client_error",
                     "client_cancel", "upstream_error", "upstream_disconnect",
                     "response_completed"}
      BY <1>1, <1>2, <3>1 DEF TypeNames
    <3>5. QED
      BY <3>2, <3>3, <3>4 DEF TypeNames
  <2>2. TypeFlags' /\ TypeCounts' /\ TypeTasks' /\ TypeEvents' /\ TypeBooks' /\ TypeRegister'
    BY <1>1, <1>2 DEF Typed, TypeFlags, TypeCounts, TypeTasks, TypeEvents, TypeBooks, TypeRegister
  <2>3. QED
    BY <2>1, <2>2, TypeParts DEF Typed
<1>4. Placed'
  BY <1>1, <1>2 DEF Placed, NoTasks, WithTasks, Ending, Over, Running
<1>5. Counted' /\ SentBy' /\ FirstFrameOnce'
  BY <1>1, <1>2 DEF Counted, SentBy, FirstFrameOnce, NoTasks, WithTasks
<1>6. Emitted'
  <2>1. UNCHANGED books
    BY <1>2
  <2>2. CASE pc' = pc /\ way' = way
    BY <1>1, <2>1, <2>2 DEF Emitted
  <2>3. CASE pc \in (NoTasks \ {"arrived", "refused"}) \cup {"residual"} /\ way' = "stopped"
    <3>1. pc \notin {"finally", "closed"}
      BY <2>3 DEF NoTasks
    <3>2. QED
      BY <1>1, <2>1, <2>3, <3>1 DEF Emitted
  <2>4. QED
    BY <1>2, <2>2, <2>3
<1>7. QED
  BY <1>3, <1>4, <1>5, <1>6 DEF Soundness

-----------------------------------------------------------------------------
(* The theorems. *)

\* The start.
LEMMA SoundInit == ASSUME Init PROVE Soundness
<1>1. TypeOK
  <2>1. TypeCounts
    <3>1. 0 \in 0 .. (Attempts - 1)
      BY WsAssumption DEF WsAssumption
    <3>2. QED
      BY <3>1 DEF Init, TypeCounts
  <2>2. TypeNames /\ TypeFlags
    BY DEF Init, TypeNames, TypeFlags
  <2>3. TypeTasks /\ TypeEvents
    BY DEF Init, TypeTasks, TypeEvents, Ats
  <2>4. TypeBooks /\ TypeRegister
    BY DEF Init, TypeBooks, TypeRegister
  <2>5. QED
    BY <2>1, <2>2, <2>3, <2>4, TypeParts DEF Typed
<1>2. Placed
  BY DEF Init, Placed, NoTasks, WithTasks, Ending, Running
<1>3. Counted /\ SentBy /\ FirstFrameOnce
  BY DEF Init, Counted, SentBy, FirstFrameOnce, NoTasks, WithTasks
<1>4. Emitted
  BY DEF Init, Emitted
<1>5. QED
  BY <1>1, <1>2, <1>3, <1>4 DEF Soundness

\* A step that changes nothing.
LEMMA SoundStutters == ASSUME Soundness, UNCHANGED vars PROVE Soundness'
<1> USE DEF vars, handlerVars, sockets, tasks, traffic, books, register
<1>1. Placed /\ Counted /\ SentBy /\ FirstFrameOnce /\ Emitted /\ Typed
  BY TypeParts DEF Soundness
<1>2. TypeOK'
  <2>1. TypeNames'
    BY <1>1 DEF Typed, TypeNames
  <2>2. TypeFlags'
    BY <1>1 DEF Typed, TypeFlags
  <2>3. TypeCounts'
    BY <1>1 DEF Typed, TypeCounts
  <2>4. TypeTasks' /\ TypeEvents' /\ TypeBooks' /\ TypeRegister'
    BY <1>1 DEF Typed, TypeTasks, TypeEvents, TypeBooks, TypeRegister
  <2>5. QED
    BY <2>1, <2>2, <2>3, <2>4, TypeParts DEF Typed
<1>3. Placed' /\ Counted'
  BY <1>1 DEF Placed, Counted, Over, Running
<1>4. SentBy' /\ FirstFrameOnce' /\ Emitted'
  BY <1>1 DEF SentBy, FirstFrameOnce, Emitted
<1>5. QED
  BY <1>1, <1>2, <1>3, <1>4 DEF Soundness

\* So the invariant holds in every state.
LEMMA SoundInvariant == Spec => []Soundness
<1>1. ASSUME Soundness, [Next]_vars PROVE Soundness'
  <2>1. CASE Next
    <3>1. \/ ClientTask \/ UpstreamTask \/ Opening \/ Fallback \/ StartRelay
          \/ WakeUp \/ CancelRelay \/ Settle \/ RelayStopped \/ RecordResidual \/ Finally
          \/ CancelHandler \/ ClientLeaves \/ UpstreamLeaves
      BY <2>1 DEF Next, Handler, Environment, Opening, Fallback
    <3>2. QED
      BY <1>1, <3>1, ClientSound, UpstreamSound, OpeningSound, FallbackSound, StartSound,
         StopSound, SettleSound, ResidualSound, FinallySound, LeavingSound
  <2>2. CASE UNCHANGED vars
    BY <1>1, <2>2, SoundStutters
  <2>3. QED
    BY <1>1, <2>1, <2>2
<1>2. QED
  BY <1>1, SoundInit, PTL DEF Spec

\* Every variable of a session keeps its type, and however the session ends (its
\* client leaves, a send fails, the server stops), its tasks are over, its
\* upstream socket is closed and the registry and both gauges are back to zero.
THEOREM SessionsLeaveNothing == Spec => []NothingLeftBehind
<1>1. Soundness => NothingLeftBehind
  <2> SUFFICES ASSUME Soundness PROVE NothingLeftBehind
    OBVIOUS
  <2>1. Placed /\ Counted /\ TypeOK /\ handle \in [registered : BOOLEAN, tasks : {0, 2}]
    BY TypeParts DEF Soundness, Typed, TypeRegister
  <2>2. Running(c2u) \/ Running(u2c.at) => pc \in WithTasks /\ c2u # "off"
    BY <2>1 DEF Placed, NoTasks, WithTasks, Ending, Running
  <2>3. Running(c2u) \/ Running(u2c.at) => handle.tasks = 2 /\ gauges.tasks = 2
    BY <2>1, <2>2 DEF Counted, WithTasks
  <2>4. ASSUME pc \in {"closed", "refused"}
        PROVE  ~handle.registered /\ gauges = [sessions |-> 0, tasks |-> 0]
    BY <2>1, <2>4 DEF Counted
  <2>5. pc \in {"closed", "refused"} =>
           ~Running(c2u) /\ ~Running(u2c.at) /\ upstream # "open"
    BY <2>1 DEF Placed, NoTasks, Ending, Running
  <2>6. QED
    BY <2>1, <2>3, <2>4, <2>5 DEF NothingLeftBehind
<1>2. QED
  BY <1>1, SoundInvariant, PTL

\* The first frame reaches an upstream at most once, over the socket or in a
\* request, for any number of attempts to connect.
THEOREM FirstFrameIsSentOnce == Spec => []FirstFrameOnce
<1>1. Soundness => FirstFrameOnce
  BY DEF Soundness
<1>2. QED
  BY <1>1, SoundInvariant, PTL

\* The outcomes of a session never claim more tokens than it used and saved, and
\* those of a session that ended by itself claim them all.
THEOREM TokensAreEmittedOnce == Spec => []TokensEmittedOnce
<1>1. Soundness => TokensEmittedOnce
  <2> SUFFICES ASSUME Soundness PROVE TokensEmittedOnce
    OBVIOUS
  <2>1. Emitted /\ total \in [Tokens -> Nat]
    BY TypeParts DEF Soundness, Typed, TypeBooks
  <2>2. \A t \in Tokens : total[t] <= total[t]
    BY <2>1
  <2>3. \A t \in Tokens : emitted[t] <= total[t]
    BY <2>1, <2>2 DEF Emitted
  <2>4. QED
    BY <2>1, <2>3 DEF Emitted, TokensEmittedOnce
<1>2. QED
  BY <1>1, SoundInvariant, PTL

=============================================================================
