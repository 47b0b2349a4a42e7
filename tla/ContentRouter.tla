----------------------------- MODULE ContentRouter -----------------------------
(***************************************************************************)
(* The content router, headroom/transforms/content_router.py.  The proxy   *)
(* has one instance; the threads of its compression executor call apply()  *)
(* on it at the same time.  What they share is the two-tier cache and the  *)
(* runtime fields apply() leaves on the instance.                          *)
(*                                                                         *)
(* A text is known by its identity and by what has become of it.  A        *)
(* message in block form holds one block.  Which strategy the detector     *)
(* picks and what a compressor makes of a text are free choices: they      *)
(* depend on the content, the model's state and the remote service.        *)
(***************************************************************************)
EXTENDS Naturals, Sequences, FiniteSetsExt

CONSTANTS
    Callers,        \* threads that call apply()
    Texts,          \* contents of messages
    MaxMessages     \* bound: messages under way, in all calls together

\* Strings: a tool's output, the output of a file read that has to stay
\* verbatim, any other.  Blocks: a tool's result, a text, one that carries
\* cache_control.
StringKinds == {"tool", "read", "plain"}
BlockKinds == {"result", "text", "control"}

Kinds == StringKinds \cup BlockKinds

ASSUME RouterAssumption == MaxMessages \in Nat \ {0}

VARIABLES
    netcost,        \* HEADROOM_NET_COST_POLICY of the process
    replaced,       \* callers whose options and maps another call has replaced
    cache,          \* what a look-up of a key finds: CompressionCache's tiers
    at,             \* where a caller's apply() is
    slots,          \* its result_slots
    pending,        \* its pending_tasks, then their results
    found,          \* the cached result it has just read
    floor           \* its netcost_batch_state["floor"], 0 for None

own == <<at, slots, pending, found, floor>>
vars == <<netcost, replaced, cache, own>>

\* The text as it came; a fold that can be undone; a structural compressor's
\* result, with a retrieval marker where it drops something; a bare one of the
\* model's or of an extractor's, of a strategy the gates ask about, and of one
\* they do not; nothing; a pointer to an earlier copy.
Forms == {"original", "folded", "marked", "bare", "unasked", "empty", "pointer"}

\* A high ratio is above every min_ratio, a low one above or below the one
\* of a call, which moves with the pressure on the context.
Ratios == {"low", "high"}

\* A RouterCompressionResult, and what the result tier keeps of it.
Result == [form: Forms, ratio: Ratios]
Untouched == [form |-> "original", ratio |-> "high"]

\* The skip tier is asked first, so an entry there hides a result.
Absent == [form |-> "absent", ratio |-> "high"]
Skipped == [form |-> "skipped", ratio |-> "high"]

\* A key that forgets the partition.
KeyShared(slot) == <<slot.text, "open">>

\* A string tool output has a key space of its own.
Keys == Texts \X {"gated", "open"}
KeyOf(slot) ==
    <<slot.text, IF slot.kind \in {"tool", "read"} THEN "gated" ELSE "open">>

\* frozen: within the frozen_message_count; paid: how the net-cost gate
\* charged the slot's mutation.
Slot == [kind: Kinds, text: Texts, frozen: BOOLEAN, form: Forms,
         paid: {"no", "full", "free"}]

Init ==
    /\ netcost \in BOOLEAN
    /\ replaced = {}
    /\ cache = [k \in Keys |-> Absent]
    /\ at = [c \in Callers |-> "idle"]
    /\ slots = [c \in Callers |-> <<>>]
    /\ pending = [c \in Callers |-> <<>>]
    /\ found = [c \in Callers |-> Untouched]
    /\ floor = [c \in Callers |-> 0]

-----------------------------------------------------------------------------
(* What compress() makes of a text: the forms each part of it can return. *)

PureStrategies ==
    {"ml", "code", "crusher", "lines", "html", "diff", "passthrough"}

\* _try_ml_compressor: the tags alone, the size gate's crusher, a model that
\* is not ready, one that fails, and what a ready one returns.
Ml == {"original", "marked", "bare", "empty"}

\* _relevance_split_compress: the tail of a log or a search goes to the model;
\* adopted when it beats the fold.
Split(s) == IF s = "lines" THEN {"marked", "bare"} ELSE {}

\* _lossless_first, where some fold shrinks the text.
LosslessFirst == {"folded"}

\* The fold, or the model's result on top of it where that is shorter; never
\* on a diff.
AfterFold(s) == LosslessFirst \cup IF s = "diff" THEN {} ELSE Ml \ {"original"}

\* Nothing folds: the strategy's own compressor, or the text itself where
\* that fails or is disabled.
Dispatch(s) ==
    CASE s = "passthrough" -> {"original"}
      [] s = "ml" -> Ml
      [] s \in {"code", "html"} -> {"original", "marked", "bare", "empty"}
      [] OTHER -> {"original", "marked"}

\* After no savings the model is tried, then for JSON the log compressor; on
\* a conservative result of lines the model is layered.
SecondTry(s) == IF s \in {"crusher", "lines", "html"} THEN Ml ELSE {}

\* _apply_strategy_to_content, with retrieval markers on.
Applied(s) == Split(s) \cup AfterFold(s) \cup Dispatch(s) \cup SecondTry(s)

\* LOSSY_UNMARKED_STRATEGIES, of which the gates ask for a marker.
Asked == {"ml", "code"}

\* They know the strategy that was requested, not the compressor whose result it
\* is: a bare result for a log, for JSON or for a section of a mixed text passes.
Requested(s, form) ==
    IF form = "bare" /\ s \notin Asked THEN "unasked" ELSE form

\* _compress_mixed: the sections' results joined, their chains forgotten.
Mixed ==
    {IF form = "folded" THEN "marked" ELSE Requested("mixed", form) :
        form \in UNION {Applied(s) : s \in PureStrategies}}

PureForms ==
    UNION {{Requested(s, form) : form \in Applied(s)} : s \in PureStrategies}

\* compress(): an empty result is replaced by the text but keeps its ratio;
\* the ratio of a text that did not change is 1.
Guarded(form) == IF form = "empty" THEN "original" ELSE form

Compressed ==
    UNION {[form: {Guarded(form)},
            ratio: CASE form = "original" -> {"high"}
                     [] form = "empty" -> {"low"}
                     [] OTHER -> Ratios] :
             form \in PureForms \cup Mixed}

-----------------------------------------------------------------------------
(* The cache and the gates. *)

\* What the gate "ratio < min_ratio" may say.
Gate(ratio) == IF ratio = "low" THEN BOOLEAN ELSE {FALSE}

\* mark_skip and move_to_skip; put, whose result shows once an older skip has
\* expired.
MarkSkip(k) == cache' = [cache EXCEPT ![k] = Skipped]

Put(k, r) ==
    \/ cache' = [cache EXCEPT ![k] = r]
    \/ cache[k] = Skipped /\ UNCHANGED cache

\* Not a marker-less result of the strategies the gates ask about.
Recoverable(r) == r.form # "bare"

\* _net_cost_allows: free behind a shallower admitted slot, else at the cost
\* of the whole suffix; what is not shorter never pays.  The charges that an
\* admission may carry, none when the gate is off.
Charges(c, i, form) ==
    IF ~netcost THEN {"no"}
    ELSE IF form = "original" THEN {"skip"}
    ELSE {"skip", IF floor[c] # 0 /\ i > floor[c] THEN "free" ELSE "full"}

\* A floor set by every candidate that was charged its suffix.
LoweredByAll(c, i, charge) ==
    floor' = [floor EXCEPT ![c] = IF charge # "free" /\ @ = 0 THEN i ELSE @]

Lowered(c, i, charge) ==
    floor' = [floor EXCEPT ![c] =
                IF charge # "full" THEN @ ELSE IF @ = 0 \/ i < @ THEN i ELSE @]

Admitted(slot, r, charge) ==
    IF charge = "skip" THEN slot
    ELSE [slot EXCEPT !.form = r.form, !.paid = charge]

-----------------------------------------------------------------------------
(* Pass 1: one message after the other. *)

Next1(c) == Len(slots[c]) + 1       \* the message whose turn it is

InPass1(c) ==
    /\ at[c] = "classify"
    /\ FoldSet(LAMBDA d, n : n + Len(slots[d]), 0, Callers) < MaxMessages

\* A message as it arrives; the frozen ones come first.
Arrivals(c) ==
    [kind: Kinds, text: Texts, form: {"original"}, paid: {"no"},
     frozen: IF \A i \in DOMAIN slots[c] : slots[c][i].frozen
             THEN BOOLEAN ELSE {FALSE}]

Append1(c, slot) == slots' = [slots EXCEPT ![c] = Append(@, slot)]

\* apply() begins: its options, its tool-call maps and the identifiers of the
\* reads to protect replace those on the instance.
Begin(c) ==
    /\ at[c] = "idle"
    /\ replaced' = {d \in Callers : at[d] # "idle"}
    /\ at' = [at EXCEPT ![c] = "classify"]
    /\ UNCHANGED <<netcost, cache, slots, pending, found, floor>>

\* A frozen message is kept, unless it is a string and the net-cost gate may
\* unlock it.
Open(slot) == ~slot.frozen \/ (netcost /\ slot.kind \in StringKinds)

Resolved == <<netcost, replaced, cache, at, pending, found, floor>>

KeepFrozen(c) ==
    /\ InPass1(c)
    /\ \E slot \in Arrivals(c) : ~Open(slot) /\ Append1(c, slot)
    /\ UNCHANGED Resolved

\* Strings kept whatever the cache says: a user's or the system's, a protected
\* read; small, erroneous, marked or recent content.
Keep(c) ==
    /\ InPass1(c)
    /\ \E slot \in Arrivals(c) :
         slot.kind \in StringKinds /\ Open(slot) /\ Append1(c, slot)
    /\ UNCHANGED Resolved

\* The lossless pre-empts of a tool output: an excluded tool's recent output,
\* and a search run in a shell.
Fold(c) ==
    /\ InPass1(c)
    /\ \E slot \in Arrivals(c) :
         /\ slot.kind \in {"tool", "read"} /\ Open(slot)
         /\ Append1(c, [slot EXCEPT !.form = "folded"])
    /\ UNCHANGED Resolved

\* Blocks kept: by the role of a text, by cache_control, as a read, an
\* excluded tool's, an error; small or marked.
KeepBlock(c) ==
    /\ InPass1(c)
    /\ \E slot \in Arrivals(c) :
         slot.kind \in BlockKinds /\ Open(slot) /\ Append1(c, slot)
    /\ UNCHANGED Resolved

FoldBlock(c) ==
    /\ InPass1(c)
    /\ \E slot \in Arrivals(c) :
         /\ slot.kind = "result" /\ Open(slot)
         /\ Append1(c, [slot EXCEPT !.form = "folded"])
    /\ UNCHANGED Resolved

\* A read is known by its call's identifier, which is in the set the instance
\* holds when that set is this call's.
Protected(c, slot) == slot.kind = "read" /\ c \notin replaced

\* A candidate is looked up: the skip tier keeps it, the result tier leaves a
\* result to settle.
Hit(c, k) ==
    \/ /\ cache[k] = Skipped
       /\ UNCHANGED <<at, found>>
    \/ /\ cache[k] \in Result
       /\ found' = [found EXCEPT ![c] = cache[k]]
       /\ at' = [at EXCEPT ![c] = "settle"]

\* There is no entry, or it is past its time to live.
Expire(k) == cache' = [cache EXCEPT ![k] = Absent]

\* A string that misses waits for pass 2.
LookUp(c) ==
    /\ InPass1(c)
    /\ \E slot \in Arrivals(c) :
         /\ slot.kind \in StringKinds /\ Open(slot) /\ ~Protected(c, slot)
         /\ Append1(c, slot)
         /\ \/ Hit(c, KeyOf(slot)) /\ UNCHANGED <<cache, pending>>
            \/ /\ Expire(KeyOf(slot))
               /\ pending' = [pending EXCEPT ![c] = Append(@, Next1(c))]
               /\ UNCHANGED <<at, found>>
    /\ UNCHANGED <<netcost, replaced, floor>>

\* A hit is checked against the gate of this call, a string also against the
\* net-cost gate.  What no longer qualifies moves to the skip tier.
Settle(c) ==
    LET i == Len(slots[c])
        slot == slots[c][i]
    IN
    /\ at[c] = "settle" /\ slot.kind \in StringKinds
    /\ at' = [at EXCEPT ![c] = "classify"]
    /\ found' = [found EXCEPT ![c] = Untouched]
    /\ \E passes \in Gate(found[c].ratio) :
       IF passes
       THEN \E charge \in Charges(c, i, found[c].form) :
              /\ slots' = [slots EXCEPT ![c][i] = Admitted(slot, found[c], charge)]
              /\ Lowered(c, i, charge)
              /\ UNCHANGED cache
       ELSE MarkSkip(KeyOf(slot)) /\ UNCHANGED <<slots, floor>>
    /\ UNCHANGED <<netcost, replaced, pending>>

\* A block that misses is compressed at once.
LookUpBlock(c) ==
    /\ InPass1(c)
    /\ \E slot \in Arrivals(c) :
         /\ slot.kind \in {"result", "text"} /\ Open(slot)
         /\ Append1(c, slot)
         /\ \/ Hit(c, KeyOf(slot)) /\ UNCHANGED cache
            \/ /\ Expire(KeyOf(slot))
               /\ at' = [at EXCEPT ![c] = "block"]
               /\ UNCHANGED found
    /\ UNCHANGED <<netcost, replaced, pending, floor>>

SettleBlock(c) ==
    LET i == Len(slots[c])
        slot == slots[c][i]
    IN
    /\ at[c] = "settle" /\ slot.kind \in BlockKinds
    /\ at' = [at EXCEPT ![c] = "classify"]
    /\ found' = [found EXCEPT ![c] = Untouched]
    /\ \E passes \in Gate(found[c].ratio) :
       IF passes
       THEN /\ slots' = [slots EXCEPT ![c][i] = Admitted(slot, found[c], "no")]
            /\ UNCHANGED cache
       ELSE MarkSkip(KeyOf(slot)) /\ UNCHANGED slots
    /\ UNCHANGED <<netcost, replaced, pending, floor>>

\* A block's miss.  A fold is accepted on its bytes, whatever its ratio; a
\* tool result refuses a bare summary of an unmarked strategy.
CompressBlock(c) ==
    LET i == Len(slots[c])
        slot == slots[c][i]
        k == KeyOf(slot)
    IN
    /\ at[c] = "block"
    /\ at' = [at EXCEPT ![c] = "classify"]
    /\ \E r \in Compressed : \E passes \in Gate(r.ratio) :
         IF \/ (r.form # "folded" /\ ~passes)
              \/ (slot.kind = "result" /\ ~Recoverable(r))
         THEN MarkSkip(k) /\ UNCHANGED slots
         ELSE /\ Put(k, r)
              /\ slots' = [slots EXCEPT ![c][i] = Admitted(slot, r, "no")]
    /\ UNCHANGED <<netcost, replaced, pending, found, floor>>

-----------------------------------------------------------------------------
(* Pass 2 and 3: the misses are compressed, their results merged in order. *)

EndPass1(c) ==
    /\ at[c] = "classify"
    /\ at' = [at EXCEPT ![c] = IF pending[c] = <<>> THEN "dedup" ELSE "compress"]
    /\ UNCHANGED <<netcost, replaced, cache, slots, pending, found, floor>>

\* All misses compressed, in line or in the pool: from here on the merge may
\* find any result for each of them.
Compress(c) ==
    /\ at[c] = "compress"
    /\ at' = [at EXCEPT ![c] = "merge"]
    /\ UNCHANGED <<netcost, replaced, cache, slots, pending, found, floor>>

\* The deadline of a single miss: the text passes as it is.
Overdue(c) ==
    /\ at[c] = "compress" /\ Len(pending[c]) = 1
    /\ at' = [at EXCEPT ![c] = "overdue"]
    /\ UNCHANGED <<netcost, replaced, cache, slots, pending, found, floor>>

\* A compressor's exception ends the call; the caller sends the messages as
\* they were.
Raise(c) ==
    /\ at[c] \in {"compress", "block"}
    /\ at' = [at EXCEPT ![c] = "raised"]
    /\ slots' = [slots EXCEPT ![c] = <<>>]
    /\ pending' = [pending EXCEPT ![c] = <<>>]
    /\ UNCHANGED <<netcost, replaced, cache, found, floor>>

\* A result is accepted by the live gate; a tool output refuses a bare one of
\* an unmarked strategy.  It is cached before the net-cost gate.
MergeResult(c, i, r, passes) ==
    LET slot == slots[c][i]
        k == KeyOf(slot)
    IN
    IF ~passes \/ (slot.kind \in {"tool", "read"} /\ ~Recoverable(r))
    THEN MarkSkip(k) /\ UNCHANGED <<slots, floor>>
    ELSE /\ Put(k, r)
         /\ \E charge \in Charges(c, i, r.form) :
              /\ slots' = [slots EXCEPT ![c][i] = Admitted(slot, r, charge)]
              /\ Lowered(c, i, charge)

Merge(c) ==
    /\ at[c] \in {"merge", "overdue"}
    /\ \E r \in IF at[c] = "overdue" THEN {Untouched} ELSE Compressed :
         \E passes \in Gate(r.ratio) : MergeResult(c, Head(pending[c]), r, passes)
    /\ pending' = [pending EXCEPT ![c] = Tail(@)]
    /\ at' = [at EXCEPT ![c] = IF Len(pending[c]) = 1 THEN "dedup" ELSE @]
    /\ UNCHANGED <<netcost, replaced, found>>

\* A deduplication that takes no notice of the frozen prefix.
RepeatsFrozen(c, i) ==
    /\ slots[c][i].kind \in {"tool", "read", "result"}
    /\ \E j \in 1..(i - 1) :
         slots[c][j].text = slots[c][i].text /\ slots[c][j].form = slots[c][i].form

\* Tool outputs that appeared before become pointers; verbatim and
\* cache_control outputs are only pointed to.  The map of the calls is built
\* anew, on the instance.
Repeats(c, i) ==
    /\ slots[c][i].kind \in {"tool", "read", "result"} /\ ~slots[c][i].frozen
    /\ \E j \in 1..(i - 1) :
         /\ slots[c][j].kind \in {"tool", "read", "result", "control"}
         /\ slots[c][j].text = slots[c][i].text
         /\ slots[c][j].form = slots[c][i].form

Dedup(c) ==
    /\ at[c] = "dedup"
    /\ \E folded \in SUBSET {i \in DOMAIN slots[c] : Repeats(c, i)} :
         slots' = [slots EXCEPT ![c] =
                     [i \in DOMAIN @ |-> IF i \in folded
                                         THEN [@[i] EXCEPT !.form = "pointer"]
                                         ELSE @[i]]]
    /\ at' = [at EXCEPT ![c] = "answer"]
    /\ UNCHANGED <<netcost, replaced, cache, pending, found, floor>>

\* apply() has returned; the thread serves another call.
Return(c) ==
    /\ at[c] \in {"answer", "raised"}
    /\ at' = [at EXCEPT ![c] = "idle"]
    /\ slots' = [slots EXCEPT ![c] = <<>>]
    /\ floor' = [floor EXCEPT ![c] = 0]
    /\ replaced' = replaced \ {c}
    /\ UNCHANGED <<netcost, cache, pending, found>>

-----------------------------------------------------------------------------
Next ==
    \E c \in Callers :
      \/ Begin(c) \/ KeepFrozen(c) \/ Keep(c) \/ Fold(c) \/ LookUp(c) \/ Settle(c)
      \/ KeepBlock(c) \/ FoldBlock(c) \/ LookUpBlock(c) \/ SettleBlock(c)
      \/ CompressBlock(c) \/ EndPass1(c) \/ Compress(c) \/ Overdue(c) \/ Raise(c)
      \/ Merge(c) \/ Dedup(c) \/ Return(c)

Spec == Init /\ [][Next]_vars

-----------------------------------------------------------------------------
(* Properties. *)

TypeOK ==
    /\ netcost \in BOOLEAN
    /\ replaced \subseteq Callers
    /\ cache \in [Keys -> [form: Forms \ {"pointer"}, ratio: Ratios]
                           \cup {Absent, Skipped}]
    /\ at \in [Callers -> {"idle", "classify", "settle", "block", "compress",
                           "overdue", "merge", "dedup", "answer", "raised"}]
    /\ slots \in [Callers -> Seq(Slot)]
    /\ pending \in [Callers -> Seq(Nat)]
    /\ found \in [Callers -> Result]
    /\ floor \in [Callers -> Nat]
    /\ \A c \in Callers :
         /\ \A n \in DOMAIN pending[c] : pending[c][n] \in DOMAIN slots[c]
         /\ floor[c] <= Len(slots[c]) \/ at[c] = "raised"

Slots == UNION {{slots[c][i] : i \in DOMAIN slots[c]} : c \in Callers}

\* A string tool output that was compressed as text or as code is never replaced
\* by a summary without a marker, neither freshly nor from what another call, of
\* another rule, put into the cache for the same text (4259-4266, 4102-4107); and
\* no message is blanked out, whichever compressor or cache its text is from
\* (1741-1758).  A summary without a marker does replace one that was compressed
\* as anything else: "unasked" is not excluded, though the comments (1314-1323,
\* 4252-4255) do.
BareNeverServed ==
    /\ TypeOK
    /\ \A s \in Slots :
         /\ ~(s.kind \in {"tool", "read"} /\ s.form = "bare")
         /\ s.form # "empty"

\* A frozen message goes out as it came, by every path and after the
\* deduplication; the net-cost policy may open a string among them
\* (3831-3862, 4527).
FrozenStays ==
    \A s \in Slots :
      s.frozen /\ s.form # "original"
        => netcost /\ s.kind \in StringKinds /\ s.form # "pointer"

\* A slot only rides free behind a genuinely mutated shallower slot, though
\* hits are charged in pass 1 and misses in pass 3 (3410-3416).
FreeRideBehindMutation ==
    \A c \in Callers : \A i \in DOMAIN slots[c] :
      slots[c][i].paid = "free" =>
        \E j \in 1..(i - 1) :
          slots[c][j].paid = "full" /\ slots[c][j].form # "original"

\* "Mark those tool_use_ids so their output is never LOSSY-compressed" (3649):
\* holds as long as no other call begins on the shared instance.
ReadsVerbatim ==
    \A s \in Slots : s.kind = "read" => s.form \notin {"marked", "bare", "unasked"}
=============================================================================
