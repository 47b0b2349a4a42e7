---------------------------- MODULE GatewayStream ----------------------------
(***************************************************************************)
(* The body of one response: stream() in the gateway's forward()           *)
(* (codexpp-headroom/gateway.py).  Chunks are passed on as they are; on a  *)
(* Responses stream a bounded tail of the bytes is searched for a terminal *)
(* event, and one that is missing at the end is made up for.               *)
(*                                                                         *)
(* Bytes are counted in units.  An event is its head (the event line and   *)
(* the start of its data line), any number of bodies, a tail that          *)
(* completes the JSON of the data line, and the blank line that makes a    *)
(* client dispatch it.  A chunk may end anywhere, and so may the stream.   *)
(***************************************************************************)
EXTENDS Naturals, Sequences, FiniteSets

CONSTANTS
    ProbeLimit,     \* _SSE_PROBE_LIMIT, in units
    MaxEvent,       \* bound: the units of an event before its blank line
    MaxUnits,       \* bound: the units an upstream sends
    MaxChunk        \* bound: the units of a chunk

ASSUME StreamAssumption ==
    /\ ProbeLimit \in Nat \ {0}
    /\ MaxEvent \in Nat \ {0, 1}
    /\ MaxUnits \in Nat
    /\ MaxChunk \in Nat

VARIABLES
    responses,      \* is_responses_sse
    phase,          \* of the generator
    sent,           \* what the client was sent
    fromUpstream,   \* how much of that is the upstream's
    chunk,          \* the chunk just passed on, not yet searched
    probe,          \* sse_probe
    seen,           \* response_terminal_state, or "none"
    result          \* metric_base["result"]

vars == <<responses, phase, sent, fromUpstream, chunk, probe, seen, result>>

Terminals == {"completed", "failed"}
Heads == {"delta"} \cup Terminals
Units == Heads \cup {"body", "tail", "blank"}

Init ==
    /\ responses \in BOOLEAN
    /\ phase = "reading"
    /\ sent = <<>>
    /\ fromUpstream = 0
    /\ chunk = <<>>
    /\ probe = <<>>
    /\ seen = "none"
    /\ result = "error"

-----------------------------------------------------------------------------
(* What a sequence of units holds. *)

\* The data line that begins at i is whole at j.
Line(s, i, j) ==
    /\ s[i] \in Heads
    /\ i < j
    /\ s[j] = "tail"
    /\ \A k \in (i + 1)..(j - 1) : s[k] = "body"

WholeLines(s) == {i \in DOMAIN s : \E j \in DOMAIN s : Line(s, i, j)}

\* _sse_terminal_state: the first whole line of a terminal event.
Terminal(s) ==
    LET found == {i \in WholeLines(s) : s[i] \in Terminals}
    IN  IF found = {} THEN "none"
        ELSE s[CHOOSE i \in found : \A k \in found : i <= k]

\* The terminal events a client dispatches: nothing else on their lines, and a
\* blank line after them.
Dispatched(s) ==
    {i \in DOMAIN s :
        /\ s[i] \in Terminals
        /\ i = 1 \/ s[i - 1] = "blank"
        /\ \E j \in DOMAIN s : Line(s, i, j) /\ j < Len(s) /\ s[j + 1] = "blank"}

\* At the end of an event, or before the first.
AtBoundary(s) == s = <<>> \/ s[Len(s)] = "blank"

\* What an upstream may have sent: whole events of at most MaxEvent units, the
\* last one perhaps cut, and nothing after a terminal one.
WellFormed(s) ==
    \A i \in DOMAIN s :
        LET start == i = 1 \/ s[i - 1] = "blank"
        IN  /\ s[i] \in Heads <=> start
            /\ s[i] = "blank" <=> i > 1 /\ s[i - 1] = "tail"
            /\ s[i] \in Terminals =>
                  \A k \in (i + 1)..Len(s) : s[k] = "blank" => k = Len(s)
            /\ s[i] \in Heads /\ Len(s) >= i + MaxEvent =>
                  \E k \in (i + 2)..(i + MaxEvent) : s[k] = "blank"

-----------------------------------------------------------------------------
(* The generator. *)

\* The next chunk is passed on before anything looks at it.
Receive ==
    /\ phase = "reading"
    /\ \E n \in 1..MaxChunk : \E c \in [1..n -> Units] :
          /\ Len(sent) + n <= MaxUnits
          /\ WellFormed(sent \o c)
          /\ sent' = sent \o c
          /\ fromUpstream' = fromUpstream + n
          /\ chunk' = c
    /\ phase' = "yielded"
    /\ UNCHANGED <<responses, probe, seen, result>>

\* Mistake: only the chunk at hand is searched.
KeepChunk(s) == chunk

\* The last ProbeLimit units.
Keep(s) ==
    SubSeq(s, IF Len(s) > ProbeLimit THEN Len(s) - ProbeLimit + 1 ELSE 1, Len(s))

\* The client took the chunk: search what is kept, unless a state was found.
Probe ==
    /\ phase = "yielded"
    /\ phase' = "reading"
    /\ chunk' = <<>>
    /\ IF responses
       THEN /\ probe' = Keep(probe \o chunk)
            /\ seen' = IF seen = "none" THEN Terminal(probe') ELSE seen
       ELSE UNCHANGED <<probe, seen>>
    /\ UNCHANGED <<responses, sent, fromUpstream, result>>

\* _response_failed_event.
FailedEvent == <<"failed", "tail", "blank">>

MakeUp == sent' = IF responses /\ seen = "none" THEN sent \o FailedEvent ELSE sent

\* Mistake: a 200 that ends is taken for a success.
EofIsSuccess ==
    /\ phase = "reading"
    /\ phase' = "ended"
    /\ MakeUp
    /\ result' = "ok"
    /\ UNCHANGED <<responses, fromUpstream, chunk, probe, seen>>

Eof ==
    /\ phase = "reading"
    /\ phase' = "ended"
    /\ MakeUp
    /\ result' = CASE responses /\ seen = "none"   -> "upstream_incomplete"
                   [] responses /\ seen = "failed" -> "upstream_failed"
                   [] OTHER                        -> "ok"
    /\ UNCHANGED <<responses, fromUpstream, chunk, probe, seen>>

\* The total deadline, a transport error, or any other exception.
Break ==
    /\ phase = "reading"
    /\ phase' = "ended"
    /\ MakeUp
    /\ result' \in {"timeout", "upstream_unavailable", "upstream_read_error"}
    /\ UNCHANGED <<responses, fromUpstream, chunk, probe, seen>>

\* The client goes away: the generator is closed at its yield, or cancelled
\* while it waits for a chunk.
ClientLeaves ==
    /\ \/ phase = "yielded" /\ UNCHANGED result
       \/ phase = "reading" /\ result' = "cancelled"
    /\ phase' = "left"
    /\ UNCHANGED <<responses, sent, fromUpstream, chunk, probe, seen>>

Next == Receive \/ Probe \/ Eof \/ Break \/ ClientLeaves

Spec == Init /\ [][Next]_vars

-----------------------------------------------------------------------------
(* Properties. *)

StreamResults == {"ok", "timeout", "upstream_unavailable", "upstream_incomplete",
                  "upstream_failed", "upstream_read_error", "cancelled", "error"}

\* In particular the probe keeps no more than its limit.
TypeOK ==
    /\ responses \in BOOLEAN
    /\ phase \in {"reading", "yielded", "ended", "left"}
    /\ sent \in Seq(Units)
    /\ fromUpstream \in 0..Len(sent)
    /\ chunk \in Seq(Units)
    /\ probe \in Seq(Units) /\ Len(probe) <= ProbeLimit
    /\ seen \in Terminals \cup {"none"}
    /\ result \in StreamResults

UpstreamPart == SubSeq(sent, 1, fromUpstream)

\* However the upstream's terminal event is cut into chunks, the client is never
\* sent a second one, which needs terminal events that fit into the probe; and a
\* Responses stream that ends between two events, by EOF, timeout or error, ends
\* with one.
OneTerminal ==
    /\ Cardinality(Dispatched(sent)) <= 1
    /\ phase = "ended" /\ responses /\ AtBoundary(UpstreamPart)
          => Dispatched(sent) # {}

\* What is recorded is what the client was told: "ok" after a completion,
\* "upstream_failed" after a failure, "upstream_incomplete" only when there was
\* no terminal event.
ResultTellsOutcome ==
    /\ TypeOK
    /\ phase = "ended" /\ responses =>
          /\ result = "ok" => Terminal(UpstreamPart) = "completed"
          /\ result = "upstream_failed" => Terminal(UpstreamPart) = "failed"
          /\ result = "upstream_incomplete" => Terminal(UpstreamPart) = "none"

\* README: response.failed is supplied when the upstream's terminal event is
\* missing, and only then.
MadeUpOnlyWhenMissing ==
    phase = "ended" /\ Len(sent) > fromUpstream => Dispatched(UpstreamPart) = {}

=============================================================================
