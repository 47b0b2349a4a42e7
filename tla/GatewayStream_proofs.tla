------------------------ MODULE GatewayStream_proofs ------------------------
(***************************************************************************)
(* Theorems about GatewayStream, for streams and chunks of any length and  *)
(* every probe that is longer than an event.                               *)
(***************************************************************************)
EXTENDS GatewayStream, FiniteSetTheorems, SequenceTheorems, TLAPS

-----------------------------------------------------------------------------
(* The invariant. *)

\* The part of the stream that was searched: all but the chunk at hand.
Searched == SubSeq(sent, 1, Len(sent) - Len(chunk))

\* While the generator runs, everything sent is the upstream's and well formed,
\* the probe is the end of what was searched, and the state found is that of
\* everything searched.
Running ==
    /\ fromUpstream = Len(sent)
    /\ WellFormed(sent)
    /\ sent = Searched \o chunk
    /\ phase = "reading" => chunk = <<>>
    /\ responses => probe = Keep(Searched) /\ seen = Terminal(Searched)

\* In the end the client was sent the upstream's part, and one terminal event
\* more where that part holds none.
Ended ==
    /\ WellFormed(UpstreamPart)
    /\ sent = IF responses /\ Terminal(UpstreamPart) = "none"
              THEN UpstreamPart \o FailedEvent ELSE UpstreamPart
    /\ responses =>
          /\ result = "ok" => Terminal(UpstreamPart) = "completed"
          /\ result = "upstream_failed" => Terminal(UpstreamPart) = "failed"
          /\ result = "upstream_incomplete" => Terminal(UpstreamPart) = "none"

Soundness ==
    /\ TypeOK
    /\ phase \in {"reading", "yielded"} => Running
    /\ phase = "ended" => Ended
    /\ phase = "left" => WellFormed(sent)

-----------------------------------------------------------------------------
(* Terminal events in a well formed stream. *)

WholeTerminal(s, i) == i \in WholeLines(s) /\ s[i] \in Terminals

\* No second terminal event begins after one.
LEMMA OneHead ==
    ASSUME NEW s \in Seq(Units), WellFormed(s),
           NEW i \in DOMAIN s, NEW k \in DOMAIN s, s[i] \in Terminals, s[k] \in Terminals
    PROVE  i = k
<1>1. ASSUME NEW a \in DOMAIN s, NEW b \in DOMAIN s, s[a] \in Terminals, s[b] \in Terminals, a < b
      PROVE  FALSE
  <2>1. a \in 1 .. Len(s) /\ b \in 1 .. Len(s) /\ Len(s) \in Nat
    OBVIOUS
  <2>2. s[a] # "blank" /\ s[b] \in Heads
    BY <1>1 DEF Terminals, Heads
  <2>3. s[b - 1] = "blank"
    <3>1. b # 1
      BY <1>1, <2>1
    <3>2. QED
      BY <2>2, <3>1 DEF WellFormed
  <2>4. b - 1 # a
    BY <2>2, <2>3
  <2>5. b - 1 \in (a + 1) .. Len(s) /\ b - 1 # Len(s)
    BY <1>1, <2>1, <2>4
  <2>6. \A j \in (a + 1) .. Len(s) : s[j] = "blank" => j = Len(s)
    BY <1>1 DEF WellFormed
  <2>7. QED
    BY <2>3, <2>5, <2>6
<1>2. i \in 1 .. Len(s) /\ k \in 1 .. Len(s) /\ Len(s) \in Nat
  OBVIOUS
<1>3. i < k \/ k < i \/ i = k
  BY <1>2
<1>4. QED
  BY <1>1, <1>3

\* The state of a stream that holds one whole terminal event.
LEMMA TerminalIs ==
    ASSUME NEW s \in Seq(Units), NEW i, WholeTerminal(s, i), \A k : WholeTerminal(s, k) => k = i
    PROVE  Terminal(s) = s[i] /\ Terminal(s) # "none"
<1> DEFINE found == {k \in WholeLines(s) : s[k] \in Terminals}
<1>1. i \in found /\ i \in DOMAIN s /\ s[i] \in Terminals
  BY DEF WholeTerminal, WholeLines
<1>2. found = {i}
  BY <1>1 DEF WholeTerminal
<1>3. i <= i
  BY <1>1
<1>4. (CHOOSE k \in found : \A l \in found : k <= l) = i
  BY <1>2, <1>3
<1>5. Terminal(s) = s[i]
  BY <1>1, <1>4 DEF Terminal
<1>6. QED
  BY <1>1, <1>5 DEF Terminals

\* A well-formed stream has at most one whole terminal line.
LEMMA OneWhole ==
    ASSUME NEW s \in Seq(Units), WellFormed(s), NEW i, WholeTerminal(s, i)
    PROVE  \A k : WholeTerminal(s, k) => k = i
BY OneHead DEF WholeTerminal, WholeLines

\* A text without a whole terminal line has no terminal.
LEMMA TerminalIsNone ==
    ASSUME NEW s, \A i : ~WholeTerminal(s, i)
    PROVE  Terminal(s) = "none"
<1>1. {k \in WholeLines(s) : s[k] \in Terminals} = {}
  BY DEF WholeTerminal
<1>2. QED
  BY <1>1 DEF Terminal

\* A terminal that is found is a whole line of the text.
LEMMA TerminalFound ==
    ASSUME NEW s, Terminal(s) # "none"
    PROVE  \E i : WholeTerminal(s, i)
BY TerminalIsNone

-----------------------------------------------------------------------------
(* What the probe keeps. *)

\* The first unit of s that Keep(s) keeps.
From(s) == IF Len(s) > ProbeLimit THEN Len(s) - ProbeLimit + 1 ELSE 1

\* What the probe keeps is a tail of the text, within its limit.
LEMMA KeepIs ==
    ASSUME NEW s \in Seq(Units)
    PROVE  /\ From(s) \in 1 .. (Len(s) + 1) /\ Keep(s) \in Seq(Units)
           /\ Len(Keep(s)) = Len(s) - From(s) + 1 /\ Len(Keep(s)) <= ProbeLimit
           /\ Len(s) > ProbeLimit => Len(Keep(s)) = ProbeLimit
           /\ Len(s) <= ProbeLimit => Keep(s) = s
           /\ \A i \in 1 .. Len(Keep(s)) : Keep(s)[i] = s[From(s) + i - 1]
<1>1. Len(s) \in Nat /\ ProbeLimit \in Nat \ {0}
  BY StreamAssumption DEF StreamAssumption
<1>2. From(s) \in 1 .. (Len(s) + 1)
  BY <1>1 DEF From
<1>3. Keep(s) = SubSeq(s, From(s), Len(s))
  BY DEF Keep, From
<1>4. /\ Keep(s) \in Seq(Units)
      /\ Len(Keep(s)) = IF From(s) <= Len(s) THEN Len(s) - From(s) + 1 ELSE 0
      /\ \A i \in 1 .. (Len(s) - From(s) + 1) : Keep(s)[i] = s[From(s) + i - 1]
  BY <1>1, <1>2, <1>3, SubSeqProperties
<1>5. Len(Keep(s)) = Len(s) - From(s) + 1
  BY <1>1, <1>2, <1>4
<1>6. Len(Keep(s)) <= ProbeLimit /\ (Len(s) > ProbeLimit => Len(Keep(s)) = ProbeLimit)
  BY <1>1, <1>5 DEF From
<1>7. ASSUME Len(s) <= ProbeLimit PROVE Keep(s) = s
  <2>1. From(s) = 1
    BY <1>1, <1>7 DEF From
  <2>2. QED
    BY <1>3, <2>1
<1>8. QED
  BY <1>2, <1>4, <1>5, <1>6, <1>7

\* Keeping the end twice is keeping it once.
LEMMA KeepTwice ==
    ASSUME NEW s \in Seq(Units), NEW c \in Seq(Units)
    PROVE  Keep(Keep(s) \o c) = Keep(s \o c)
<1>1. CASE Len(s) <= ProbeLimit
  BY <1>1, KeepIs
<1>2. CASE Len(s) > ProbeLimit
  <2> DEFINE k == Keep(s)  t == k \o c  u == s \o c
  <2>1. /\ Len(s) \in Nat /\ Len(c) \in Nat /\ ProbeLimit \in Nat \ {0}
        /\ k \in Seq(Units) /\ Len(k) = ProbeLimit /\ From(s) = Len(s) - ProbeLimit + 1
    BY <1>2, KeepIs, StreamAssumption DEF StreamAssumption, From
  <2>2. /\ t \in Seq(Units) /\ Len(t) = ProbeLimit + Len(c)
        /\ u \in Seq(Units) /\ Len(u) = Len(s) + Len(c)
    BY <2>1
  <2>3. \A i \in 1 .. Len(t) : t[i] = u[i + From(s) - 1]
    <3> SUFFICES ASSUME NEW i \in 1 .. Len(t) PROVE t[i] = u[i + From(s) - 1]
      OBVIOUS
    <3>1. i \in Nat /\ i + From(s) - 1 \in 1 .. Len(u)
      BY <1>2, <2>1, <2>2
    <3>2. CASE i <= ProbeLimit
      <4>1. i \in 1 .. Len(k) /\ From(s) + i - 1 = i + From(s) - 1
        BY <2>1, <3>1, <3>2
      <4>2. k[i] = s[i + From(s) - 1]
        <5>1. \A j \in 1 .. Len(k) : k[j] = s[From(s) + j - 1]
          BY KeepIs
        <5>2. k[i] = s[From(s) + i - 1]
          BY <4>1, <5>1
        <5>3. QED
          BY <4>1, <5>2
      <4>3. i + From(s) - 1 \in 1 .. Len(s)
        BY <2>1, <3>1, <3>2
      <4>4. t[i] = k[i] /\ u[i + From(s) - 1] = s[i + From(s) - 1]
        BY <2>1, <2>2, <3>1, <4>1, <4>3
      <4>5. QED
        BY <4>2, <4>4
    <3>3. CASE i > ProbeLimit
      <4>1. i + From(s) - 1 - Len(s) = i - ProbeLimit /\ i + From(s) - 1 > Len(s)
        BY <2>1, <3>1, <3>3
      <4>2. t[i] = c[i - ProbeLimit] /\ u[i + From(s) - 1] = c[i + From(s) - 1 - Len(s)]
        <5>1. i \in (Len(k) + 1) .. (Len(k) + Len(c))
          BY <2>1, <2>2, <3>3
        <5>2. t[i] = c[i - Len(k)]
          BY <2>1, <5>1
        <5>3. i + From(s) - 1 \in (Len(s) + 1) .. (Len(s) + Len(c))
          BY <2>1, <2>2, <3>1, <4>1
        <5>4. u[i + From(s) - 1] = c[i + From(s) - 1 - Len(s)]
          BY <2>1, <5>3
        <5>5. QED
          BY <2>1, <5>2, <5>4
      <4>3. QED
        BY <4>1, <4>2
    <3>4. QED
      BY <2>1, <3>1, <3>2, <3>3
  <2> HIDE DEF k, t, u
  <2>4. From(t) + From(s) - 1 = From(u) /\ Len(Keep(t)) = Len(Keep(u))
    <3>1. From(t) + From(s) - 1 = From(u)
      <4>1. From(t) = Len(c) + 1
        BY <2>1, <2>2 DEF From
      <4>2. From(u) = Len(s) + Len(c) - ProbeLimit + 1
        BY <1>2, <2>1, <2>2 DEF From
      <4>3. QED
        BY <2>1, <4>1, <4>2
    <3>2. Len(Keep(t)) = Len(t) - From(t) + 1 /\ Len(Keep(u)) = Len(u) - From(u) + 1
      BY <2>2, KeepIs
    <3>3. From(t) \in 1 .. (Len(t) + 1) /\ From(u) \in 1 .. (Len(u) + 1)
      BY <2>2, KeepIs
    <3>4. Len(u) = Len(t) + From(s) - 1
      BY <2>1, <2>2
    <3>5. Len(t) - From(t) = Len(u) - From(u)
      <4>1. From(t) \in Int /\ From(s) \in Int /\ Len(t) \in Int
        BY <2>1, <2>2, <3>3
      <4>2. QED
        BY <3>1, <3>4, <4>1
    <3>6. QED
      BY <3>1, <3>2, <3>5
  <2>5. \A i \in 1 .. Len(Keep(t)) : Keep(t)[i] = Keep(u)[i]
    <3> SUFFICES ASSUME NEW i \in 1 .. Len(Keep(t)) PROVE Keep(t)[i] = Keep(u)[i]
      OBVIOUS
    <3>1. Keep(t)[i] = t[From(t) + i - 1] /\ Keep(u)[i] = u[From(u) + i - 1]
      BY <2>2, <2>4, KeepIs
    <3>2. /\ From(t) \in 1 .. (Len(t) + 1) /\ From(u) \in 1 .. (Len(u) + 1)
          /\ Len(Keep(t)) = Len(t) - From(t) + 1
      BY <2>2, KeepIs
    <3>3. From(t) + i - 1 \in 1 .. Len(t)
      <4>1. Len(t) \in Nat /\ From(t) \in Nat
        BY <2>2, <3>2
      <4>2. i \in 1 .. (Len(t) - From(t) + 1)
        BY <3>2
      <4>3. QED
        BY <3>2, <4>1, <4>2
    <3>4. (From(t) + i - 1) + From(s) - 1 = From(u) + i - 1
      BY <2>1, <2>4, <3>2
    <3>5. QED
      BY <2>3, <3>1, <3>3, <3>4
  <2>6. Keep(t) = Keep(u)
    <3>1. Keep(t) \in Seq(Units) /\ Keep(u) \in Seq(Units)
      BY <2>2, KeepIs
    <3>2. QED
      BY <2>4, <2>5, <3>1, SeqEqual
  <2>7. QED
    BY <2>6 DEF k, t, u
<1>3. Len(s) \in Nat /\ ProbeLimit \in Nat
  BY StreamAssumption DEF StreamAssumption
<1>4. QED
  BY <1>1, <1>2, <1>3

\* A terminal event that fits into the probe is not cut by it.
LEMMA FitsProbe ==
    ASSUME ProbeLimit > MaxEvent, NEW s \in Seq(Units), WellFormed(s), NEW i \in DOMAIN s,
           s[i] \in Terminals
    PROVE  i >= From(s)
<1>1. Len(s) \in Nat /\ i \in 1 .. Len(s) /\ MaxEvent \in Nat /\ ProbeLimit \in Nat
  BY StreamAssumption DEF StreamAssumption
<1>2. Len(s) <= i + MaxEvent
  <2> SUFFICES ASSUME Len(s) >= i + MaxEvent PROVE Len(s) <= i + MaxEvent
    BY <1>1
  <2>1. PICK k \in (i + 2) .. (i + MaxEvent) : s[k] = "blank"
    BY DEF WellFormed, Heads
  <2>2. k \in (i + 1) .. Len(s) /\ k <= i + MaxEvent
    BY <1>1
  <2>3. k = Len(s)
    BY <2>1, <2>2 DEF WellFormed
  <2>4. QED
    BY <2>2, <2>3
<1>3. QED
  BY <1>1, <1>2 DEF From

\* What is whole in the part kept is whole in the stream, and the other way round
\* for what begins in it.
LEMMA LineOfKept ==
    ASSUME NEW s \in Seq(Units), NEW i \in DOMAIN Keep(s), NEW j \in DOMAIN Keep(s)
    PROVE  /\ i + From(s) - 1 \in DOMAIN s /\ j + From(s) - 1 \in DOMAIN s
           /\ Line(Keep(s), i, j) <=> Line(s, i + From(s) - 1, j + From(s) - 1)
<1> DEFINE f == From(s)  k == Keep(s)
<1>1. /\ f \in Nat \ {0} /\ Len(s) \in Nat /\ Len(k) = Len(s) - f + 1
      /\ i \in 1 .. Len(k) /\ j \in 1 .. Len(k) /\ k \in Seq(Units)
  <2>1. /\ f \in 1 .. (Len(s) + 1) /\ Len(k) = Len(s) - f + 1 /\ k \in Seq(Units)
        /\ Len(s) \in Nat
    BY KeepIs
  <2>2. i \in DOMAIN k /\ j \in DOMAIN k
    OBVIOUS
  <2> HIDE DEF f, k
  <2>3. f \in Nat \ {0} /\ i \in 1 .. Len(k) /\ j \in 1 .. Len(k)
    BY <2>1, <2>2
  <2>4. QED
    BY <2>1, <2>3
<1>2. \A n \in 1 .. Len(k) : k[n] = s[f + n - 1]
  BY KeepIs
<1> HIDE DEF f, k
<1>3. \A n \in 1 .. Len(k) : k[n] = s[n + f - 1] /\ n + f - 1 \in 1 .. Len(s)
  <2> SUFFICES ASSUME NEW n \in 1 .. Len(k)
               PROVE  k[n] = s[n + f - 1] /\ n + f - 1 \in 1 .. Len(s)
    OBVIOUS
  <2>1. f + n - 1 = n + f - 1 /\ n + f - 1 \in 1 .. Len(s)
    BY <1>1
  <2>2. QED
    BY <1>2, <2>1
<1>4. i < j <=> i + f - 1 < j + f - 1
  BY <1>1
<1>5. ASSUME \A n \in (i + 1) .. (j - 1) : k[n] = "body"
      PROVE  \A n \in ((i + f - 1) + 1) .. ((j + f - 1) - 1) : s[n] = "body"
  <2> SUFFICES ASSUME NEW n \in ((i + f - 1) + 1) .. ((j + f - 1) - 1) PROVE s[n] = "body"
    OBVIOUS
  <2>1. n - f + 1 \in (i + 1) .. (j - 1) /\ n - f + 1 \in 1 .. Len(k) /\ (n - f + 1) + f - 1 = n
    BY <1>1
  <2>2. QED
    BY <1>3, <1>5, <2>1
<1>6. ASSUME \A n \in ((i + f - 1) + 1) .. ((j + f - 1) - 1) : s[n] = "body"
      PROVE  \A n \in (i + 1) .. (j - 1) : k[n] = "body"
  <2> SUFFICES ASSUME NEW n \in (i + 1) .. (j - 1) PROVE k[n] = "body"
    OBVIOUS
  <2>1. n + f - 1 \in ((i + f - 1) + 1) .. ((j + f - 1) - 1) /\ n \in 1 .. Len(k)
    BY <1>1
  <2>2. QED
    BY <1>3, <1>6, <2>1
<1>7. k[i] = s[i + f - 1] /\ k[j] = s[j + f - 1]
  BY <1>1, <1>3
<1>8. Line(k, i, j) <=> Line(s, i + f - 1, j + f - 1)
  BY <1>4, <1>5, <1>6, <1>7 DEF Line
<1>9. i + f - 1 \in DOMAIN s /\ j + f - 1 \in DOMAIN s
  BY <1>1, <1>3
<1>10. QED
  BY <1>8, <1>9 DEF f, k

\* So the search of the probe finds what a search of the whole stream would.
LEMMA ProbeSuffices ==
    ASSUME ProbeLimit > MaxEvent, NEW s \in Seq(Units), WellFormed(s)
    PROVE  Terminal(Keep(s)) = Terminal(s)
<1> DEFINE k == Keep(s)  f == From(s)
<1>1. /\ f \in Nat \ {0} /\ Len(s) \in Nat /\ Len(k) = Len(s) - f + 1 /\ k \in Seq(Units)
      /\ \A n \in 1 .. Len(k) : k[n] = s[f + n - 1]
  BY KeepIs
<1>2. ASSUME NEW n, WholeTerminal(k, n)
      PROVE  WholeTerminal(s, n + f - 1) /\ n \in Nat /\ k[n] = s[n + f - 1]
  <2>1. PICK j \in DOMAIN k : Line(k, n, j) /\ n \in DOMAIN k /\ k[n] \in Terminals
    BY <1>2 DEF WholeTerminal, WholeLines
  <2>2. n \in 1 .. Len(k) /\ n + f - 1 = f + n - 1
    BY <1>1, <2>1
  <2>3. k[n] = s[n + f - 1]
    BY <1>1, <2>2
  <2>4. Line(s, n + f - 1, j + f - 1) /\ n + f - 1 \in DOMAIN s /\ j + f - 1 \in DOMAIN s
    BY <2>1, LineOfKept
  <2>5. QED
    BY <2>1, <2>2, <2>3, <2>4 DEF WholeTerminal, WholeLines
<1>3. CASE \E i : WholeTerminal(s, i)
  <2>1. PICK i : WholeTerminal(s, i)
    BY <1>3
  <2>2. PICK j \in DOMAIN s : Line(s, i, j) /\ i \in DOMAIN s /\ s[i] \in Terminals
    BY <2>1 DEF WholeTerminal, WholeLines
  <2>3. i >= f /\ i \in 1 .. Len(s) /\ j \in 1 .. Len(s) /\ i < j
    BY <2>2, FitsProbe DEF Line
  <2>4. i - f + 1 \in DOMAIN k /\ j - f + 1 \in DOMAIN k
        /\ (i - f + 1) + f - 1 = i /\ (j - f + 1) + f - 1 = j
    <3>1. DOMAIN k = 1 .. Len(k)
      BY <1>1
    <3>2. f \in Nat \ {0} /\ Len(s) \in Nat /\ Len(k) = Len(s) - f + 1
      BY <1>1
    <3> HIDE DEF f, k
    <3>3. i - f + 1 \in 1 .. Len(k) /\ j - f + 1 \in 1 .. Len(k)
      BY <2>3, <3>2
    <3>4. (i - f + 1) + f - 1 = i /\ (j - f + 1) + f - 1 = j
      BY <2>3, <3>2
    <3>5. QED
      BY <3>1, <3>3, <3>4
  <2>5. Line(k, i - f + 1, j - f + 1)
    BY <2>2, <2>4, LineOfKept
  <2>6. k[i - f + 1] = s[i]
    <3>1. i - f + 1 \in 1 .. Len(k) /\ f + (i - f + 1) - 1 = i
      BY <1>1, <2>3
    <3>2. QED
      BY <1>1, <3>1
  <2>7. WholeTerminal(k, i - f + 1)
    BY <2>2, <2>4, <2>5, <2>6 DEF WholeTerminal, WholeLines
  <2>8. ASSUME NEW n, WholeTerminal(k, n) PROVE n = i - f + 1
    <3>1. n + f - 1 = i /\ n \in Nat
      BY <1>2, <2>1, <2>8, OneWhole
    <3>2. QED
      BY <1>1, <3>1
  <2>9. Terminal(k) = k[i - f + 1]
    BY <1>1, <2>7, <2>8, TerminalIs
  <2>10. Terminal(s) = s[i]
    BY <2>1, OneWhole, TerminalIs
  <2>11. QED
    BY <2>6, <2>9, <2>10
<1>4. CASE \A i : ~WholeTerminal(s, i)
  <2>1. \A n : ~WholeTerminal(k, n)
    BY <1>2, <1>4
  <2>2. QED
    BY <1>4, <2>1, TerminalIsNone
<1>5. QED
  BY <1>3, <1>4

\* A terminal event stays whole when more follows, and the state stays that of it.
LEMMA StaysWhole ==
    ASSUME NEW s \in Seq(Units), NEW c \in Seq(Units), NEW i, WholeTerminal(s, i)
    PROVE  WholeTerminal(s \o c, i) /\ (s \o c)[i] = s[i]
<1> DEFINE u == s \o c
<1>1. /\ Len(s) \in Nat /\ Len(c) \in Nat /\ u \in Seq(Units) /\ Len(u) = Len(s) + Len(c)
      /\ \A n \in 1 .. Len(s) : u[n] = s[n] /\ n \in DOMAIN u
  OBVIOUS
<1>2. PICK j \in DOMAIN s : Line(s, i, j) /\ i \in DOMAIN s /\ s[i] \in Terminals
  BY DEF WholeTerminal, WholeLines
<1>3. i \in 1 .. Len(s) /\ j \in 1 .. Len(s)
  BY <1>2
<1>4. u[i] = s[i] /\ u[j] = s[j] /\ i \in DOMAIN u /\ j \in DOMAIN u
  BY <1>1, <1>3
<1>5. \A n \in (i + 1) .. (j - 1) : u[n] = s[n]
  BY <1>1, <1>3
<1> HIDE DEF u
<1>6. Line(u, i, j)
  BY <1>2, <1>4, <1>5 DEF Line
<1>7. QED
  BY <1>2, <1>4, <1>6 DEF WholeTerminal, WholeLines, u

\* A terminal once found stays the one found, whatever follows.
LEMMA StateStays ==
    ASSUME NEW s \in Seq(Units), NEW c \in Seq(Units), WellFormed(s \o c), Terminal(s) # "none"
    PROVE  Terminal(s \o c) = Terminal(s)
<1>1. PICK i : WholeTerminal(s, i)
  BY TerminalFound
<1>2. WholeTerminal(s \o c, i) /\ (s \o c)[i] = s[i] 
  BY <1>1, StaysWhole
<1>3. s \o c \in Seq(Units)
  OBVIOUS
<1>4. \A k : WholeTerminal(s, k) => k = i
  BY <1>2, <1>3, StaysWhole, OneWhole
<1>5. Terminal(s) = s[i]
  BY <1>1, <1>4, TerminalIs
<1>6. Terminal(s \o c) = (s \o c)[i]
  BY <1>2, <1>3, OneWhole, TerminalIs
<1>7. QED
  BY <1>2, <1>5, <1>6

-----------------------------------------------------------------------------
(* The steps keep the invariant. *)

\* The text read so far is the beginning of every longer one.
LEMMA Front ==
    ASSUME NEW s \in Seq(Units), NEW c \in Seq(Units)
    PROVE  /\ SubSeq(s, 1, Len(s)) = s /\ SubSeq(s \o c, 1, Len(s)) = s
           /\ s \o c \in Seq(Units) /\ Len(s \o c) = Len(s) + Len(c)
<1>1. Len(s) \in Nat /\ Len(c) \in Nat
  OBVIOUS
<1>2. s \o c \in Seq(Units) /\ Len(s \o c) = Len(s) + Len(c)
  OBVIOUS
<1>3. SubSeq(s, 1, Len(s)) = s
  OBVIOUS
<1>4. SubSeq(s \o c, 1, Len(s)) = s
  <2> DEFINE u == s \o c
  <2>1. \A i \in 1 .. Len(s) : u[i] = s[i] /\ u[i] \in Units
    BY <1>1, <1>2
  <2> HIDE DEF u
  <2>2. /\ SubSeq(u, 1, Len(s)) \in Seq(Units) /\ Len(SubSeq(u, 1, Len(s))) = Len(s)
        /\ \A i \in 1 .. Len(s) : SubSeq(u, 1, Len(s))[i] = u[i]
    <3>1. /\ SubSeq(u, 1, Len(s)) \in Seq(Units)
          /\ Len(SubSeq(u, 1, Len(s))) = IF 1 <= Len(s) THEN Len(s) - 1 + 1 ELSE 0
          /\ \A i \in 1 .. (Len(s) - 1 + 1) : SubSeq(u, 1, Len(s))[i] = u[1 + i - 1]
      BY <1>1, <2>1, SubSeqProperties
    <3>2. \A i \in 1 .. Len(s) : i \in 1 .. (Len(s) - 1 + 1) /\ 1 + i - 1 = i
      BY <1>1
    <3>3. QED
      BY <1>1, <3>1, <3>2
  <2>3. SubSeq(u, 1, Len(s)) = s
    BY <2>1, <2>2, SeqEqual
  <2>4. QED
    BY <2>3 DEF u
<1>5. QED
  BY <1>2, <1>3, <1>4

\* Nothing has been read at the start.
LEMMA InitSound == ASSUME Init PROVE Soundness
<1>1. sent = <<>> /\ chunk = <<>> /\ probe = <<>> /\ fromUpstream = 0 /\ phase = "reading"
      /\ seen = "none"
  BY DEF Init
<1>2. <<>> \in Seq(Units) /\ Len(<<>>) = 0 /\ <<>> \o <<>> = <<>> /\ DOMAIN <<>> = {}
  OBVIOUS
<1>3. Searched = <<>>
  BY <1>1, <1>2, Front DEF Searched
<1>4. WellFormed(<<>>)
  BY <1>2 DEF WellFormed
<1>5. Keep(<<>>) = <<>> /\ Terminal(<<>>) = "none"
  <2>1. Keep(<<>>) = <<>>
    <3>1. Len(<<>>) <= ProbeLimit
      BY <1>2, StreamAssumption DEF StreamAssumption
    <3>2. QED
      BY <1>2, <3>1, KeepIs
  <2>2. \A i : ~WholeTerminal(<<>>, i)
    BY <1>2 DEF WholeTerminal, WholeLines
  <2>3. QED
    BY <2>1, <2>2, TerminalIsNone
<1>6. Running
  BY <1>1, <1>2, <1>3, <1>4, <1>5 DEF Running
<1>7. TypeOK
  BY <1>1, <1>2, StreamAssumption DEF Init, TypeOK, StreamAssumption, StreamResults
<1>8. QED
  BY <1>1, <1>6, <1>7 DEF Soundness

\* The parts of the type invariant that the proofs use.
LEMMA TypeFacts ==
    ASSUME TypeOK
    PROVE  /\ sent \in Seq(Units) /\ chunk \in Seq(Units) /\ probe \in Seq(Units)
           /\ responses \in BOOLEAN /\ fromUpstream \in Nat /\ seen \in Terminals \cup {"none"}
           /\ Len(sent) \in Nat /\ fromUpstream <= Len(sent) /\ result \in StreamResults
           /\ Len(probe) <= ProbeLimit
BY DEF TypeOK

\* A chunk that is read is still to be yielded.
LEMMA ReceiveSound == ASSUME Soundness, Receive PROVE Soundness'
<1>1. PICK n \in 1 .. MaxChunk : \E c \in [1 .. n -> Units] :
         /\ WellFormed(sent \o c) /\ sent' = sent \o c
         /\ fromUpstream' = fromUpstream + n /\ chunk' = c
  BY DEF Receive
<1>2. PICK c \in [1 .. n -> Units] :
         /\ WellFormed(sent \o c) /\ sent' = sent \o c
         /\ fromUpstream' = fromUpstream + n /\ chunk' = c
  BY <1>1
<1>3. n \in Nat /\ c \in Seq(Units) /\ Len(c) = n
  BY StreamAssumption DEF StreamAssumption
<1>4. phase = "reading" /\ phase' = "yielded" /\ UNCHANGED <<responses, probe, seen, result>>
  BY DEF Receive
<1>5. TypeOK /\ Running
  BY <1>4 DEF Soundness
<1>6. chunk = <<>> /\ fromUpstream = Len(sent) /\ sent \in Seq(Units) /\ Len(sent) \in Nat
  BY <1>4, <1>5, TypeFacts DEF Running
<1>7. Searched = sent
  <2>1. Len(sent) - Len(chunk) = Len(sent)
    BY <1>6
  <2>2. QED
    BY <1>6, <2>1, Front DEF Searched
<1>8. Searched' = sent /\ Len(sent') = Len(sent) + n
  <2>1. Len(sent') = Len(sent) + n /\ Len(sent') - Len(chunk') = Len(sent)
    <3>1. Len(sent \o c) = Len(sent) + Len(c)
      BY <1>3, <1>6, Front
    <3>2. Len(sent') = Len(sent \o c) /\ chunk' = c /\ Len(chunk') = n
      BY <1>2, <1>3
    <3>3. Len(sent') = Len(sent) + n
      BY <1>3, <3>1, <3>2
    <3>4. QED
      BY <1>3, <1>6, <3>2, <3>3
  <2>2. Searched' = SubSeq(sent', 1, Len(sent') - Len(chunk'))
    BY DEF Searched
  <2>3. QED
    BY <1>2, <1>3, <1>6, <2>1, <2>2, Front
<1>9. Running'
  BY <1>2, <1>4, <1>5, <1>6, <1>7, <1>8 DEF Running
<1>10. TypeOK'
  <2>1. fromUpstream' \in 0 .. Len(sent')
    BY <1>2, <1>3, <1>6, <1>8
  <2>2. sent' \in Seq(Units) /\ chunk' \in Seq(Units)
    BY <1>2, <1>3, <1>6, Front
  <2>3. QED
    BY <1>4, <1>5, <2>1, <2>2 DEF TypeOK
<1>11. QED
  BY <1>4, <1>9, <1>10 DEF Soundness

\* The probe of what was kept and the chunk sees what a probe of all of it would.
LEMMA ProbeSound == ASSUME ProbeLimit > MaxEvent, Soundness, Probe PROVE Soundness'
<1>1. /\ phase = "yielded" /\ phase' = "reading" /\ chunk' = <<>>
      /\ UNCHANGED <<responses, sent, fromUpstream, result>>
  BY DEF Probe
<1>2. TypeOK /\ Running
  BY <1>1 DEF Soundness
<1>3. /\ sent \in Seq(Units) /\ chunk \in Seq(Units) /\ Len(sent) \in Nat
      /\ sent = Searched \o chunk /\ WellFormed(sent) /\ fromUpstream = Len(sent)
  BY <1>2, TypeFacts DEF Running
<1>4. Searched \in Seq(Units)
  <2>1. \A i \in 1 .. (Len(sent) - Len(chunk)) : sent[i] \in Units
    BY <1>3
  <2>2. Len(sent) - Len(chunk) \in Int
    BY <1>3
  <2>3. QED
    BY <2>1, <2>2, SubSeqProperties DEF Searched
<1>5. Searched' = sent /\ sent \o <<>> = sent
  <2>1. Len(sent') - Len(chunk') = Len(sent)
    BY <1>1, <1>3
  <2>2. Searched' = SubSeq(sent', 1, Len(sent') - Len(chunk'))
    BY DEF Searched
  <2>3. QED
    BY <1>1, <1>3, <2>1, <2>2, Front
<1>6. ASSUME responses
      PROVE  probe' = Keep(sent) /\ seen' = Terminal(sent)
  <2>1. probe' = Keep(probe \o chunk) /\ seen' = IF seen = "none" THEN Terminal(probe') ELSE seen
    BY <1>6 DEF Probe
  <2>2. probe = Keep(Searched) /\ seen = Terminal(Searched)
    BY <1>2, <1>6 DEF Running
  <2>3. probe' = Keep(sent)
    BY <1>3, <1>4, <2>1, <2>2, KeepTwice
  <2>4. Terminal(probe') = Terminal(sent)
    BY <1>3, <2>3, ProbeSuffices
  <2>5. seen # "none" => Terminal(sent) = seen
    BY <1>3, <1>4, <2>2, StateStays
  <2>6. QED
    BY <2>1, <2>3, <2>4, <2>5
<1>7. ~responses => UNCHANGED <<probe, seen>>
  BY DEF Probe
<1>8. Running'
  BY <1>1, <1>3, <1>5, <1>6 DEF Running
<1>9. TypeOK'
  <2>1. probe' \in Seq(Units) /\ Len(probe') <= ProbeLimit
    <3>1. CASE responses
      <4>1. Keep(sent) \in Seq(Units) /\ Len(Keep(sent)) <= ProbeLimit
        BY <1>3, KeepIs
      <4>2. QED
        BY <1>6, <3>1, <4>1
    <3>2. CASE ~responses
      <4>1. probe \in Seq(Units) /\ Len(probe) <= ProbeLimit
        BY <1>2, TypeFacts
      <4>2. QED
        BY <1>7, <3>2, <4>1
    <3>3. QED
      BY <3>1, <3>2
  <2>2. seen' \in Terminals \cup {"none"}
    <3>1. Terminal(sent) \in Terminals \cup {"none"}
      <4>1. CASE \E i : WholeTerminal(sent, i)
        BY <1>3, <4>1, OneWhole, TerminalIs DEF WholeTerminal
      <4>2. CASE \A i : ~WholeTerminal(sent, i)
        BY <4>2, TerminalIsNone
      <4>3. QED
        BY <4>1, <4>2
    <3>2. QED
      BY <1>2, <1>6, <1>7, <3>1, TypeFacts
  <2>3. <<>> \in Seq(Units)
    OBVIOUS
  <2>4. QED
    BY <1>1, <1>2, <2>1, <2>2, <2>3 DEF TypeOK
<1>10. QED
  BY <1>1, <1>8, <1>9 DEF Soundness

\* The stream ends, and what is missing is made up for.
LEMMA EndSound == ASSUME Soundness, Eof \/ Break PROVE Soundness'
<1>1. /\ phase = "reading" /\ phase' = "ended" /\ MakeUp
      /\ UNCHANGED <<responses, fromUpstream, chunk, probe, seen>>
  BY DEF Eof, Break
<1>2. TypeOK /\ Running
  BY <1>1 DEF Soundness
<1>3. /\ sent \in Seq(Units) /\ chunk = <<>> /\ Len(sent) \in Nat
      /\ WellFormed(sent) /\ fromUpstream = Len(sent)
  BY <1>1, <1>2, TypeFacts DEF Running
<1>4. Searched = sent
  <2>1. Len(sent) - Len(chunk) = Len(sent)
    BY <1>3
  <2>2. QED
    BY <1>3, <2>1, Front DEF Searched
<1>5. responses => seen = Terminal(sent)
  BY <1>2, <1>4 DEF Running
<1>6. FailedEvent \in Seq(Units) /\ Len(FailedEvent) = 3
  BY DEF FailedEvent, Units, Heads, Terminals
<1>7. sent' = IF responses /\ Terminal(sent) = "none" THEN sent \o FailedEvent ELSE sent
  BY <1>1, <1>5 DEF MakeUp
<1>8. UpstreamPart' = sent /\ sent' \in Seq(Units) /\ fromUpstream' \in 0 .. Len(sent')
  <2>1. UpstreamPart' = SubSeq(sent', 1, Len(sent))
    BY <1>1, <1>3 DEF UpstreamPart
  <2>2. CASE sent' = sent
    BY <1>1, <1>3, <2>1, <2>2, Front
  <2>3. CASE sent' = sent \o FailedEvent
    <3>1. Len(sent') = Len(sent) + 3
      BY <1>3, <1>6, <2>3, Front
    <3>2. fromUpstream' \in 0 .. Len(sent')
      BY <1>1, <1>3, <3>1
    <3>3. QED
      BY <1>3, <1>6, <2>1, <2>3, <3>2, Front
  <2>4. QED
    BY <1>7, <2>2, <2>3
<1>9. /\ result' \in StreamResults
      /\ responses =>
            /\ result' = "ok" => Terminal(sent) = "completed"
            /\ result' = "upstream_failed" => Terminal(sent) = "failed"
            /\ result' = "upstream_incomplete" => Terminal(sent) = "none"
  <2>1. CASE Eof
    <3>1. seen \in {"completed", "failed", "none"}
      BY <1>2, TypeFacts DEF Terminals
    <3>2. QED
      BY <1>5, <2>1, <3>1 DEF Eof, StreamResults
  <2>2. CASE Break
    BY <2>2 DEF Break, StreamResults
  <2>3. QED
    BY <2>1, <2>2
<1>10. Ended'
  BY <1>1, <1>3, <1>7, <1>8, <1>9 DEF Ended
<1>11. TypeOK'
  BY <1>1, <1>2, <1>8, <1>9 DEF TypeOK
<1>12. QED
  BY <1>1, <1>10, <1>11 DEF Soundness

\* A client that leaves makes the outcome what was known of it.
LEMMA LeaveSound == ASSUME Soundness, ClientLeaves PROVE Soundness'
<1>1. /\ phase \in {"reading", "yielded"} /\ phase' = "left"
      /\ UNCHANGED <<responses, sent, fromUpstream, chunk, probe, seen>>
      /\ result' \in {result, "cancelled"}
  BY DEF ClientLeaves
<1>2. TypeOK /\ WellFormed(sent)
  BY <1>1 DEF Soundness, Running
<1>3. TypeOK'
  BY <1>1, <1>2 DEF TypeOK, StreamResults
<1>4. QED
  BY <1>1, <1>2, <1>3 DEF Soundness

\* The invariant holds in every state, for any probe that is longer than an event.
LEMMA SoundInvariant == ASSUME ProbeLimit > MaxEvent PROVE Spec => []Soundness
<1>1. ASSUME Soundness, [Next]_vars PROVE Soundness'
  <2>1. CASE Next
    BY <1>1, <2>1, ReceiveSound, ProbeSound, EndSound, LeaveSound DEF Next
  <2>2. CASE UNCHANGED vars
    <3>1. TypeOK' <=> TypeOK
      BY <2>2 DEF vars, TypeOK
    <3>2. (Running' <=> Running) /\ (Ended' <=> Ended)
      BY <2>2 DEF vars, Running, Ended, Searched, UpstreamPart
    <3>3. QED
      BY <1>1, <2>2, <3>1, <3>2 DEF vars, Soundness
  <2>3. QED
    BY <1>1, <2>1, <2>2
<1>2. QED
  BY <1>1, InitSound, PTL DEF Spec

-----------------------------------------------------------------------------
(* The theorems. *)

\* For streams and chunks of any length, a probe that is longer than an event
\* is enough for the result of a Responses stream to tell what its client was
\* told, however the upstream's terminal event was cut into chunks.
THEOREM ResultsTellTheOutcome ==
    ASSUME ProbeLimit > MaxEvent
    PROVE  Spec => []ResultTellsOutcome
<1>1. Soundness => ResultTellsOutcome
  BY DEF Soundness, Ended, ResultTellsOutcome
<1>2. QED
  BY <1>1, SoundInvariant, PTL

\* A client is dispatched only whole terminal events.
LEMMA DispatchedAreWhole ==
    ASSUME NEW s \in Seq(Units), NEW i \in Dispatched(s)
    PROVE  WholeTerminal(s, i)
BY DEF Dispatched, WholeTerminal, WholeLines

\* The event that was made up is the only one dispatched, and it is dispatched when
\* the upstream's part ends between two events.
LEMMA MadeUpIsTheOne ==
    ASSUME NEW u \in Seq(Units), \A i : ~WholeTerminal(u, i)
    PROVE  /\ Dispatched(u \o FailedEvent) \subseteq {Len(u) + 1}
           /\ AtBoundary(u) => Dispatched(u \o FailedEvent) # {}
<1> DEFINE s == u \o FailedEvent  n == Len(u)
<1>1. /\ n \in Nat /\ FailedEvent = <<"failed", "tail", "blank">>
      /\ FailedEvent \in Seq(Units) /\ Len(FailedEvent) = 3
  BY DEF FailedEvent, Units, Heads, Terminals
<1>2. s \in Seq(Units) /\ Len(s) = n + 3 /\ \A i \in 1 .. n : s[i] = u[i]
  BY <1>1, ConcatProperties
<1>3. s[n + 1] = "failed" /\ s[n + 2] = "tail" /\ s[n + 3] = "blank"
  <2>1. \A i \in 1 .. n + 3 : s[i] = IF i <= n THEN u[i] ELSE FailedEvent[i - n]
    BY <1>1, ConcatProperties
  <2>2. /\ n + 1 \in 1 .. n + 3 /\ ~(n + 1 <= n) /\ (n + 1) - n = 1
        /\ n + 2 \in 1 .. n + 3 /\ ~(n + 2 <= n) /\ (n + 2) - n = 2
        /\ n + 3 \in 1 .. n + 3 /\ ~(n + 3 <= n) /\ (n + 3) - n = 3
    BY <1>1
  <2>3. s[n + 1] = FailedEvent[1] /\ s[n + 2] = FailedEvent[2] /\ s[n + 3] = FailedEvent[3]
    BY <2>1, <2>2
  <2>4. QED
    BY <1>1, <2>3
<1> HIDE DEF s
<1>4. ASSUME NEW i \in Dispatched(s) PROVE i = n + 1
  <2>1. PICK j \in DOMAIN s : Line(s, i, j) /\ i \in DOMAIN s /\ s[i] \in Terminals
    BY DEF Dispatched
  <2>2. /\ i \in 1 .. (n + 3) /\ j \in 1 .. (n + 3) /\ i < j /\ s[j] = "tail"
        /\ \A k \in (i + 1) .. (j - 1) : s[k] = "body"
    BY <1>2, <2>1 DEF Line
  <2>3. ~(i <= n /\ j <= n)
    <3> SUFFICES ASSUME i <= n, j <= n PROVE FALSE
      OBVIOUS
    <3>1. i \in DOMAIN u /\ j \in DOMAIN u /\ (i + 1) .. (j - 1) \subseteq 1 .. n
      BY <1>1, <2>2
    <3>2. \A k \in (i + 1) .. (j - 1) : u[k] = s[k]
      BY <1>2, <3>1
    <3>3. u[i] = s[i] /\ u[j] = s[j]
      BY <1>1, <1>2, <2>2
    <3>4. Line(u, i, j)
      BY <2>1, <2>2, <3>2, <3>3 DEF Line
    <3>5. QED
      BY <2>1, <3>1, <3>3, <3>4 DEF WholeTerminal, WholeLines
  <2>4. ~(i <= n /\ j > n)
    <3> SUFFICES ASSUME i <= n, j > n PROVE FALSE
      OBVIOUS
    <3>1. j # n + 1
      BY <1>3, <2>2
    <3>2. n + 1 \in (i + 1) .. (j - 1)
      BY <1>1, <2>2, <3>1
    <3>3. QED
      BY <1>3, <2>2, <3>2
  <2>5. i # n + 2 /\ i # n + 3
    BY <1>3, <2>1 DEF Terminals
  <2>6. QED
    BY <1>1, <2>2, <2>3, <2>4, <2>5
<1>5. ASSUME AtBoundary(u) PROVE n + 1 \in Dispatched(s)
  <2>1. Line(s, n + 1, n + 2)
    <3>1. n + 1 < n + 2 /\ ((n + 1) + 1) .. ((n + 2) - 1) = {}
      BY <1>1
    <3>2. QED
      BY <1>3, <3>1 DEF Line, Heads, Terminals
  <2>2. n + 1 \in DOMAIN s /\ n + 2 \in DOMAIN s /\ n + 2 < Len(s) /\ (n + 2) + 1 = n + 3
        /\ (n + 1) - 1 = n
    BY <1>1, <1>2
  <2>3. n + 1 = 1 \/ s[n] = "blank"
    <3>1. u = <<>> => n + 1 = 1
      BY <1>1
    <3>2. n = 0 \/ n \in 1 .. n
      BY <1>1
    <3>3. QED
      BY <1>1, <1>2, <1>5, <3>1, <3>2 DEF AtBoundary
  <2>4. QED
    BY <1>3, <2>1, <2>2, <2>3 DEF Dispatched, Terminals
<1>6. QED
  BY <1>4, <1>5 DEF s

\* In a stream that ends between two events, a whole terminal event is dispatched.
LEMMA WholeIsDispatched ==
    ASSUME NEW u \in Seq(Units), WellFormed(u), AtBoundary(u), NEW i, WholeTerminal(u, i)
    PROVE  i \in Dispatched(u)
<1>1. PICK j \in DOMAIN u : Line(u, i, j) /\ i \in DOMAIN u /\ u[i] \in Terminals
  BY DEF WholeTerminal, WholeLines
<1>2. /\ Len(u) \in Nat /\ i \in 1 .. Len(u) /\ j \in 1 .. Len(u) /\ u[j] = "tail"
      /\ u[i] \in Heads
  BY <1>1 DEF Line
<1>3. i = 1 \/ u[i - 1] = "blank"
  BY <1>1, <1>2 DEF WellFormed
<1>4. u[Len(u)] = "blank"
  BY <1>2 DEF AtBoundary
<1>5. j # Len(u)
  BY <1>2, <1>4
<1>6. j < Len(u) /\ j + 1 \in DOMAIN u /\ j + 1 > 1 /\ (j + 1) - 1 = j
  BY <1>2, <1>5
<1>7. u[j + 1] = "blank"
  BY <1>2, <1>6 DEF WellFormed
<1>8. QED
  BY <1>1, <1>3, <1>6, <1>7 DEF Dispatched

\* A set within one element has at most one.
LEMMA AtMostOne ==
    ASSUME NEW S, NEW i, S \subseteq {i}
    PROVE  Cardinality(S) <= 1
<1>1. S = {} \/ S = {i}
  OBVIOUS
<1>2. Cardinality({}) = 0 /\ Cardinality({i}) = 1
  BY FS_EmptySet, FS_Singleton
<1>3. QED
  BY <1>1, <1>2

\* Whatever an upstream sends and wherever it is cut, a client is dispatched at most
\* one terminal event, the one made up included; and one it always gets when a
\* Responses stream ends between two events.
THEOREM ClientsGetOneTerminal ==
    ASSUME ProbeLimit > MaxEvent
    PROVE  Spec => []OneTerminal
<1>1. ASSUME NEW s \in Seq(Units), WellFormed(s) PROVE Cardinality(Dispatched(s)) <= 1
  <2>1. CASE Dispatched(s) = {}
    BY <2>1, AtMostOne
  <2>2. CASE Dispatched(s) # {}
    <3>1. PICK i : i \in Dispatched(s)
      BY <2>2
    <3>2. Dispatched(s) \subseteq {i}
      BY <1>1, <3>1, DispatchedAreWhole, OneWhole
    <3>3. QED
      BY <3>2, AtMostOne
  <2>3. QED
    BY <2>1, <2>2
<1>2. ASSUME Soundness, phase = "ended" PROVE OneTerminal
  <2>1. TypeOK /\ Ended /\ sent \in Seq(Units) /\ Len(sent) \in Nat /\ fromUpstream \in Nat
        /\ fromUpstream <= Len(sent)
    BY <1>2, TypeFacts DEF Soundness
  <2>2. UpstreamPart \in Seq(Units)
    <3>1. \A i \in 1 .. fromUpstream : sent[i] \in Units
      BY <2>1
    <3>2. QED
      BY <2>1, <3>1, SubSeqProperties DEF UpstreamPart
  <2>3. WellFormed(UpstreamPart)
    BY <2>1 DEF Ended
  <2>4. CASE responses /\ Terminal(UpstreamPart) = "none"
    <3>1. sent = UpstreamPart \o FailedEvent
      BY <2>1, <2>4 DEF Ended
    <3>2. \A i : ~WholeTerminal(UpstreamPart, i)
      BY <2>2, <2>3, <2>4, OneWhole, TerminalIs
    <3>3. Cardinality(Dispatched(sent)) <= 1
      BY <2>2, <3>1, <3>2, MadeUpIsTheOne, AtMostOne
    <3>4. AtBoundary(UpstreamPart) => Dispatched(sent) # {}
      BY <2>2, <3>1, <3>2, MadeUpIsTheOne
    <3>5. QED
      BY <3>3, <3>4 DEF OneTerminal
  <2>5. CASE ~(responses /\ Terminal(UpstreamPart) = "none")
    <3>1. sent = UpstreamPart
      BY <2>1, <2>5 DEF Ended
    <3>2. Cardinality(Dispatched(sent)) <= 1
      BY <1>1, <2>2, <2>3, <3>1
    <3>3. responses /\ AtBoundary(UpstreamPart) => Dispatched(sent) # {}
      BY <2>2, <2>3, <2>5, <3>1, TerminalFound, WholeIsDispatched
    <3>4. QED
      BY <3>2, <3>3 DEF OneTerminal
  <2>6. QED
    BY <2>4, <2>5
<1>3. ASSUME Soundness, phase # "ended" PROVE OneTerminal
  <2>1. sent \in Seq(Units) /\ WellFormed(sent)
    BY <1>3, TypeFacts DEF Soundness, Running, TypeOK
  <2>2. QED
    BY <1>1, <1>3, <2>1 DEF OneTerminal
<1>4. Soundness => OneTerminal
  BY <1>2, <1>3
<1>5. QED
  BY <1>4, SoundInvariant, PTL

=============================================================================
