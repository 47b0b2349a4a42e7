-------------------------- MODULE ContentRouter_proofs --------------------------
(***************************************************************************)
(* Theorems about ContentRouter, for every number of concurrent calls and  *)
(* of messages.                                                            *)
(***************************************************************************)
EXTENDS ContentRouter, SequenceTheorems, TLAPS

-----------------------------------------------------------------------------
(* The invariant. *)

\* A slot in the form it came in, for which nothing was charged, and that may
\* be compressed.
Undecided(slot) == slot.form = "original" /\ slot.paid = "no" /\ Open(slot)

\* What no slot may become.
Lawful(slot) ==
    /\ slot.frozen /\ slot.form # "original" =>
          netcost /\ slot.kind \in StringKinds /\ slot.form # "pointer"
    /\ slot.kind \in {"tool", "read"} => slot.form # "bare"
    /\ slot.form # "empty"

\* A slot that rides free has a shallower one that paid, and the floor is one
\* that paid.
PaidFor(slot) == slot.paid = "full" /\ slot.form # "original"

FreeBehindPaid(s) ==
    \A i \in DOMAIN s : s[i].paid = "free" => \E j \in 1 .. (i - 1) : PaidFor(s[j])

FloorPaid(s, f) == f # 0 => f \in DOMAIN s /\ PaidFor(s[f])

\* The misses that wait for pass 2 are undecided strings, each of them once.
Waiting(s, p) ==
    /\ \A n \in DOMAIN p :
          p[n] \in DOMAIN s /\ Undecided(s[p[n]]) /\ s[p[n]].kind \in StringKinds
    /\ \A m, n \in DOMAIN p : m < n => p[m] < p[n]

\* The key space of a kind of message.
Space(kind) == IF kind \in {"tool", "read"} THEN "gated" ELSE "open"

\* A result that the cache may hold in a key space, and a slot of it take.
Servable(r, space) ==
    r.form \notin {"pointer", "empty"} /\ (space = "gated" => r.form # "bare")

\* One call: where it is, its slots, its misses, the result it found, its floor.
\* While a slot is looked up or a block compressed, it is the last one, and it is
\* undecided.
Fits(place, s, p, r, f) ==
    /\ \A i \in DOMAIN s : Lawful(s[i])
    /\ FreeBehindPaid(s)
    /\ place # "raised" => FloorPaid(s, f)
    /\ Waiting(s, p)
    /\ place \in {"settle", "block"} =>
          /\ s # <<>>
          /\ Undecided(s[Len(s)])
          /\ \A n \in DOMAIN p : p[n] # Len(s)
    /\ place = "settle" => Servable(r, Space(s[Len(s)].kind))
    /\ place = "block" => s[Len(s)].kind \in {"result", "text"}
    /\ place \in {"compress", "merge", "overdue"} => p # <<>>
    /\ place \in {"idle", "dedup", "answer", "raised"} => p = <<>>

CacheSound ==
    /\ cache \in [Keys -> [form: Forms \ {"pointer"}, ratio: Ratios] \cup {Absent, Skipped}]
    /\ \A k \in Keys : cache[k] \in Result => Servable(cache[k], k[2])

Soundness ==
    /\ TypeOK
    /\ CacheSound
    /\ \A c \in Callers : Fits(at[c], slots[c], pending[c], found[c], floor[c])

-----------------------------------------------------------------------------
(* What compress() may return. *)

\* A compressed text is neither empty nor a pointer.
LEMMA CompressedResults ==
    ASSUME NEW r \in Compressed
    PROVE  r \in Result /\ r.form \in {"original", "folded", "marked", "bare", "unasked"}
<1>1. \A s \in PureStrategies :
         Applied(s) \subseteq {"original", "folded", "marked", "bare", "unasked", "empty"}
  BY DEF PureStrategies, Applied, Split, AfterFold, LosslessFirst, Dispatch, SecondTry, Ml
<1>2. \A s, form : form \in {"original", "folded", "marked", "bare", "unasked", "empty"} =>
         Requested(s, form) \in {"original", "folded", "marked", "bare", "unasked", "empty"}
  BY DEF Requested, Asked
<1>3. PureForms \cup Mixed \subseteq {"original", "folded", "marked", "bare", "unasked", "empty"}
  BY <1>1, <1>2 DEF PureForms, Mixed
<1>4. PICK form \in PureForms \cup Mixed :
         r \in [form: {Guarded(form)},
                ratio: CASE form = "original" -> {"high"}
                         [] form = "empty" -> {"low"}
                         [] OTHER -> Ratios]
  BY DEF Compressed
<1>5. Guarded(form) \in {"original", "folded", "marked", "bare", "unasked"}
  BY <1>3 DEF Guarded
<1>6. r.form = Guarded(form) /\ r \in [form: {Guarded(form)}, ratio: Ratios]
  BY <1>4 DEF Ratios
<1>7. QED
  BY <1>5, <1>6 DEF Result, Forms

-----------------------------------------------------------------------------
(* How a slot that was undecided changes. *)

\* An undecided slot is given a result at one of the charges it may carry, and
\* the floor is lowered if it paid.
Chargeable(f, i, form) ==
    {"no", "skip"} \cup (IF form = "original" THEN {}
                         ELSE {"full"} \cup (IF f # 0 /\ i > f THEN {"free"} ELSE {}))
LoweredTo(f, i, charge) ==
    IF charge # "full" THEN f ELSE IF f = 0 \/ i < f THEN i ELSE f

\* A slot that is still undecided may be admitted: if it is a ground truth its
\* original is kept, and if it is charged the floor has been broken before it.
LEMMA AdmitSlot ==
    ASSUME NEW s \in Seq(Slot), NEW f \in Nat, NEW i \in DOMAIN s, NEW r \in Result,
           NEW charge \in Chargeable(f, i, r.form),
           Undecided(s[i]), FreeBehindPaid(s), FloorPaid(s, f),
           Servable(r, Space(s[i].kind)),
           \A j \in DOMAIN s : Lawful(s[j])
    PROVE  LET t == [s EXCEPT ![i] = Admitted(s[i], r, charge)]
               g == LoweredTo(f, i, charge)
           IN
           /\ t \in Seq(Slot) /\ Len(t) = Len(s) /\ t # <<>> /\ g \in Nat
           /\ \A j \in DOMAIN s \ {i} : t[j] = s[j]
           /\ \A j \in DOMAIN t : Lawful(t[j])
           /\ FreeBehindPaid(t) /\ FloorPaid(t, g)
<1> DEFINE x == Admitted(s[i], r, charge)
           t == [s EXCEPT ![i] = x]
           g == LoweredTo(f, i, charge)
<1>1. s[i] \in Slot /\ DOMAIN s = 1 .. Len(s) /\ Len(s) \in Nat /\ i \in Nat
  OBVIOUS
<1>2. charge \in {"no", "skip", "full", "free"} /\ r.form \in Forms
  BY DEF Chargeable, Result
<1>3. /\ x \in Slot /\ x.frozen = s[i].frozen /\ x.kind = s[i].kind
      /\ x.form \in {s[i].form, r.form}
  BY <1>1, <1>2 DEF Admitted, Slot
<1>4. Lawful(x)
  BY <1>1, <1>3 DEF Lawful, Undecided, Servable, Space, Open, Slot
<1>5. /\ charge = "full" => PaidFor(x)
      /\ x.paid = "free" => charge = "free" /\ f # 0 /\ f < i
  BY <1>1, <1>2 DEF Admitted, PaidFor, Undecided, Chargeable, Slot
<1>6. ~PaidFor(s[i])
  BY DEF PaidFor, Undecided
<1> HIDE DEF x
<1>7. /\ t \in Seq(Slot) /\ Len(t) = Len(s) /\ t # <<>> /\ DOMAIN t = DOMAIN s /\ t[i] = x
      /\ \A j \in DOMAIN s \ {i} : t[j] = s[j]
  BY <1>1, <1>3
<1> HIDE DEF t
<1>8. \A j \in DOMAIN t : Lawful(t[j])
  BY <1>4, <1>7
<1>9. \A j \in DOMAIN s : PaidFor(s[j]) => PaidFor(t[j])
  BY <1>6, <1>7
<1>10. FreeBehindPaid(t)
  <2>1. ASSUME NEW j \in DOMAIN t, t[j].paid = "free"
        PROVE  \E k \in 1 .. (j - 1) : PaidFor(t[k])
    <3>1. CASE j = i
      <4>1. f \in DOMAIN s /\ PaidFor(t[f]) /\ f < i
        BY <1>5, <1>7, <1>9, <2>1, <3>1 DEF FloorPaid
      <4>2. QED
        BY <1>1, <3>1, <4>1
    <3>2. CASE j # i
      <4>1. PICK k \in 1 .. (j - 1) : PaidFor(s[k])
        BY <1>7, <2>1, <3>2 DEF FreeBehindPaid
      <4>2. k \in DOMAIN s
        BY <1>1, <1>7, <2>1
      <4>3. QED
        BY <1>9, <4>1, <4>2
    <3>3. QED
      BY <3>1, <3>2
  <2>2. QED
    BY <2>1 DEF FreeBehindPaid
<1>11. g \in Nat /\ FloorPaid(t, g)
  BY <1>1, <1>5, <1>7, <1>9 DEF FloorPaid, LoweredTo
<1>12. QED
  BY <1>7, <1>8, <1>10, <1>11 DEF t, x

-----------------------------------------------------------------------------
(* Type correctness, with what the variables of one call have to do with each  *)
(* other: a step changes those of one call, and an entry of the cache.         *)

Places == {"idle", "classify", "settle", "block", "compress", "overdue", "merge", "dedup",
           "answer", "raised"}

\* Nothing changes for call d.
Kept(d) ==
    /\ at'[d] = at[d] /\ slots'[d] = slots[d] /\ pending'[d] = pending[d]
    /\ found'[d] = found[d] /\ floor'[d] = floor[d]

\* One call goes on and fits: the router stays sound.
LEMMA CallStep ==
    ASSUME Soundness, NEW c \in Callers, netcost' = netcost, replaced' \subseteq Callers, CacheSound',
           at' \in [Callers -> Places], slots' \in [Callers -> Seq(Slot)],
           pending' \in [Callers -> Seq(Nat)], found' \in [Callers -> Result],
           floor' \in [Callers -> Nat],
           \A d \in Callers \ {c} : Kept(d),
           Fits(at'[c], slots'[c], pending'[c], found'[c], floor'[c])
    PROVE  Soundness'
<1>1. \A d \in Callers : Fits(at'[d], slots'[d], pending'[d], found'[d], floor'[d])
  <2>1. \A d \in Callers \ {c} : Fits(at'[d], slots'[d], pending'[d], found'[d], floor'[d])
    BY DEF Soundness, Kept
  <2>2. QED
    BY <2>1
<1>2. (\A d \in Callers : Fits(at[d], slots[d], pending[d], found[d], floor[d]))'
  <2>1. ASSUME NEW d \in Callers
        PROVE  Fits(at[d], slots[d], pending[d], found[d], floor[d])'
    <3>1. Fits(at'[d], slots'[d], pending'[d], found'[d], floor'[d])
      BY <1>1
    <3>2. QED
      BY <3>1 DEF Fits, Lawful, FreeBehindPaid, FloorPaid, PaidFor, Waiting, Undecided, Open,
                  Servable, Space
  <2>2. QED
    BY <2>1
<1>3. ASSUME NEW d \in Callers
      PROVE  /\ \A n \in DOMAIN pending'[d] : pending'[d][n] \in DOMAIN slots'[d]
             /\ floor'[d] <= Len(slots'[d]) \/ at'[d] = "raised"
  <2>1. Len(slots'[d]) \in Nat /\ DOMAIN slots'[d] = 1 .. Len(slots'[d]) /\ floor'[d] \in Nat
    OBVIOUS
  <2>2. /\ at'[d] # "raised" => FloorPaid(slots'[d], floor'[d])
        /\ Waiting(slots'[d], pending'[d])
    BY <1>1 DEF Fits
  <2>3. QED
    BY <2>1, <2>2 DEF Waiting, FloorPaid
<1>4. TypeOK'
  BY <1>3 DEF Soundness, TypeOK, CacheSound, Places
<1>5. QED
  BY <1>2, <1>4 DEF Soundness

\* What the operations on an entry leave in the cache.
LEMMA CacheStep ==
    ASSUME CacheSound, NEW k \in Keys,
           \/ UNCHANGED cache \/ MarkSkip(k) \/ Expire(k)
           \/ \E r \in Result : Put(k, r) /\ Servable(r, k[2])
    PROVE  CacheSound'
<1>1. ASSUME NEW e \in [form: Forms \ {"pointer"}, ratio: Ratios] \cup {Absent, Skipped},
             cache' = [cache EXCEPT ![k] = e],
             e \in Result => Servable(e, k[2])
      PROVE  CacheSound'
  BY <1>1 DEF CacheSound
<1>2. CASE UNCHANGED cache
  BY <1>2 DEF CacheSound
<1>3. Absent \notin Result /\ Skipped \notin Result
  BY DEF Absent, Skipped, Result, Forms
<1>4. CASE MarkSkip(k) \/ Expire(k)
  BY <1>1, <1>3, <1>4 DEF MarkSkip, Expire
<1>5. ASSUME NEW r \in Result, Put(k, r), Servable(r, k[2])
      PROVE  CacheSound'
  <2>1. r \in [form: Forms \ {"pointer"}, ratio: Ratios]
    BY <1>5 DEF Result, Servable
  <2>2. QED
    BY <1>1, <1>2, <1>5, <2>1 DEF Put
<1>6. QED
  BY <1>2, <1>4, <1>5

-----------------------------------------------------------------------------
(* Pass 1. *)

\* A message as it arrives.
LEMMA ArrivalSlot ==
    ASSUME NEW c \in Callers, NEW slot \in Arrivals(c)
    PROVE  /\ slot \in Slot /\ slot.form = "original" /\ slot.paid = "no" /\ Lawful(slot)
           /\ KeyOf(slot) \in Keys
           /\ KeyOf(slot)[2] = Space(slot.kind)
<1>1. /\ slot \in Slot /\ slot.form = "original" /\ slot.paid = "no"
      /\ slot.text \in Texts
  BY DEF Arrivals, Slot, Forms
<1>2. QED
  BY <1>1 DEF Lawful, KeyOf, Keys, Space

\* What is known of a call.
LEMMA CallFacts ==
    ASSUME Soundness, NEW c \in Callers
    PROVE  /\ at[c] \in Places /\ slots[c] \in Seq(Slot) /\ pending[c] \in Seq(Nat)
           /\ found[c] \in Result /\ floor[c] \in Nat
           /\ Fits(at[c], slots[c], pending[c], found[c], floor[c])
BY DEF Soundness, TypeOK, Places

\* A message is appended, and its slot stays as it is or is still to be decided:
\* as a miss that waits, or with what was found of it.
LEMMA Appends ==
    ASSUME Soundness, NEW c \in Callers, InPass1(c), UNCHANGED <<netcost, replaced, floor>>,
           NEW x \in Slot, x.paid = "no", Lawful(x), Append1(c, x), CacheSound',
           NEW place \in {"classify", "settle", "block"}, at' = [at EXCEPT ![c] = place],
           NEW p \in {pending[c], Append(pending[c], Next1(c))},
           pending' = [pending EXCEPT ![c] = p],
           NEW r \in Result, found' = [found EXCEPT ![c] = r],
           place # "classify" \/ p # pending[c] => Undecided(x),
           p # pending[c] => x.kind \in StringKinds /\ place = "classify",
           place = "settle" => Servable(r, Space(x.kind)),
           place = "block" => x.kind \in {"result", "text"}
    PROVE  Soundness'
<1> DEFINE s == slots[c]
           t == Append(s, x)
<1>1. /\ s \in Seq(Slot) /\ pending[c] \in Seq(Nat) /\ floor[c] \in Nat /\ at[c] = "classify"
      /\ Len(s) \in Nat /\ DOMAIN s = 1 .. Len(s)
  <2>1. s \in Seq(Slot) /\ pending[c] \in Seq(Nat) /\ floor[c] \in Nat
    BY CallFacts
  <2>2. at[c] = "classify"
    BY DEF InPass1
  <2>3. QED
    BY <2>1, <2>2
<1>2. /\ \A i \in DOMAIN s : Lawful(s[i])
      /\ FreeBehindPaid(s) /\ FloorPaid(s, floor[c]) /\ Waiting(s, pending[c])
  BY <1>1, CallFacts DEF Fits
<1>3. /\ t \in Seq(Slot) /\ Len(t) = Len(s) + 1 /\ t[Len(t)] = x /\ t # <<>>
      /\ DOMAIN t = 1 .. (Len(s) + 1) /\ \A i \in DOMAIN s : t[i] = s[i]
  BY <1>1
<1>4. \A i \in DOMAIN t : Lawful(t[i])
  BY <1>1, <1>2, <1>3
<1>5. FreeBehindPaid(t)
  <2>1. ASSUME NEW i \in DOMAIN t, t[i].paid = "free"
        PROVE  \E j \in 1 .. (i - 1) : PaidFor(t[j])
    <3>1. i \in DOMAIN s /\ t[i] = s[i]
      BY <1>1, <1>3, <2>1
    <3>2. PICK j \in 1 .. (i - 1) : PaidFor(s[j])
      BY <1>2, <2>1, <3>1 DEF FreeBehindPaid
    <3>3. j \in DOMAIN s
      BY <1>1, <3>1, <3>2
    <3>4. QED
      BY <1>3, <3>2, <3>3
  <2>2. QED
    BY <2>1 DEF FreeBehindPaid
<1>6. FloorPaid(t, floor[c])
  BY <1>1, <1>2, <1>3 DEF FloorPaid
<1>7. Waiting(t, pending[c]) /\ \A n \in DOMAIN pending[c] : pending[c][n] # Len(t)
  BY <1>1, <1>2, <1>3 DEF Waiting
<1> HIDE DEF s, t
<1>8. Next1(c) = Len(s) + 1
  BY DEF Next1, s
<1>9. p \in Seq(Nat) /\ Waiting(t, p)
  <2>1. CASE p = pending[c]
    BY <1>1, <1>7, <2>1
  <2>2. CASE p = Append(pending[c], Len(t)) /\ p # pending[c]
    <3>1. /\ p \in Seq(Nat) /\ DOMAIN p = 1 .. (Len(pending[c]) + 1)
          /\ DOMAIN pending[c] = 1 .. Len(pending[c]) /\ Len(pending[c]) \in Nat
          /\ \A n \in DOMAIN pending[c] : p[n] = pending[c][n]
          /\ p[Len(pending[c]) + 1] = Len(t)
      BY <1>1, <1>3, <2>2
    <3>2. \A n \in DOMAIN pending[c] : pending[c][n] \in 1 .. Len(s)
      BY <1>1, <1>2 DEF Waiting
    <3>3. Len(t) \in DOMAIN t /\ Undecided(t[Len(t)]) /\ t[Len(t)].kind \in StringKinds
      BY <1>1, <1>3, <2>2
    <3>4. ASSUME NEW n \in DOMAIN p
          PROVE  p[n] \in DOMAIN t /\ Undecided(t[p[n]]) /\ t[p[n]].kind \in StringKinds
      <4>1. n \in DOMAIN pending[c] \/ n = Len(pending[c]) + 1
        BY <3>1
      <4>2. QED
        BY <1>7, <3>1, <3>3, <4>1 DEF Waiting
    <3>5. ASSUME NEW m \in DOMAIN p, NEW n \in DOMAIN p, m < n
          PROVE  p[m] < p[n]
      <4>1. /\ Len(pending[c]) \in Nat
            /\ m \in 1 .. (Len(pending[c]) + 1) /\ n \in 1 .. (Len(pending[c]) + 1)
        BY <3>1
      <4>2. m \in DOMAIN pending[c] /\ (n \in DOMAIN pending[c] \/ n = Len(pending[c]) + 1)
        <5>1. m \in 1 .. Len(pending[c]) /\ (n \in 1 .. Len(pending[c]) \/ n = Len(pending[c]) + 1)
          BY <3>5, <4>1
        <5>2. QED
          BY <3>1, <5>1
      <4>3. p[m] \in 1 .. Len(s) /\ p[m] = pending[c][m]
        BY <3>1, <3>2, <4>2
      <4>4. CASE n = Len(pending[c]) + 1
        BY <1>1, <1>3, <3>1, <4>3, <4>4
      <4>5. CASE n \in DOMAIN pending[c]
        BY <1>2, <3>1, <3>5, <4>2, <4>3, <4>5 DEF Waiting
      <4>6. QED
        BY <4>2, <4>4, <4>5
    <3>6. QED
      BY <3>1, <3>4, <3>5 DEF Waiting
  <2>3. QED
    BY <1>1, <1>3, <1>8, <2>1, <2>2
<1>10. Fits(place, t, p, r, floor[c])
  BY <1>3, <1>9, <1>4, <1>5, <1>6, <1>7 DEF Fits
<1>11. /\ slots' = [slots EXCEPT ![c] = t] /\ floor' = floor
      /\ netcost' = netcost /\ replaced' \subseteq Callers
  BY DEF Append1, Soundness, TypeOK, t, s
<1>12. /\ at' \in [Callers -> Places] /\ slots' \in [Callers -> Seq(Slot)]
      /\ pending' \in [Callers -> Seq(Nat)] /\ found' \in [Callers -> Result]
      /\ floor' \in [Callers -> Nat] /\ \A d \in Callers \ {c} : Kept(d)
  BY <1>3, <1>9, <1>11 DEF Soundness, TypeOK, Places, Kept
<1>13. Fits(at'[c], slots'[c], pending'[c], found'[c], floor'[c])
  BY <1>10, <1>11 DEF Soundness, TypeOK
<1>14. QED
  BY <1>11, <1>12, <1>13, CallStep

\* Messages that are kept, or folded without asking the cache.
LEMMA KeepSound ==
    ASSUME Soundness, NEW c \in Callers,
           KeepFrozen(c) \/ Keep(c) \/ Fold(c) \/ KeepBlock(c) \/ FoldBlock(c)
    PROVE  Soundness'
<1>1. PICK slot \in Arrivals(c) :
         \/ Append1(c, slot)
         \/ /\ Append1(c, [slot EXCEPT !.form = "folded"])
            /\ Open(slot) /\ slot.kind \in {"tool", "read", "result"}
  BY DEF KeepFrozen, Keep, Fold, KeepBlock, FoldBlock
<1>2. PICK x \in {slot, [slot EXCEPT !.form = "folded"]} :
         /\ Append1(c, x)
         /\ x # slot => Open(slot) /\ slot.kind \in {"tool", "read", "result"}
  BY <1>1
<1>3. InPass1(c) /\ UNCHANGED Resolved
  BY DEF KeepFrozen, Keep, Fold, KeepBlock, FoldBlock
<1>4. x \in Slot /\ x.paid = "no" /\ Lawful(x)
  <2>1. CASE x = slot
    BY <2>1, ArrivalSlot
  <2>2. CASE x = [slot EXCEPT !.form = "folded"] /\ x # slot
    BY <1>2, <2>2, ArrivalSlot DEF Slot, Forms, Lawful, Open, StringKinds
  <2>3. QED
    BY <2>1, <2>2
<1>5. /\ at' = [at EXCEPT ![c] = "classify"]
      /\ pending' = [pending EXCEPT ![c] = pending[c]]
      /\ found' = [found EXCEPT ![c] = found[c]] /\ found[c] \in Result
      /\ UNCHANGED <<netcost, replaced, floor, cache>>
  BY <1>3 DEF InPass1, Resolved, Soundness, TypeOK
<1>6. CacheSound'
  BY <1>5 DEF Soundness, CacheSound
<1>7. QED
  BY <1>2, <1>3, <1>4, <1>5, <1>6, Appends

\* A look-up decides from the caches, or leaves the slot to a compressor.
LEMMA LookUpSound ==
    ASSUME Soundness, NEW c \in Callers, LookUp(c) \/ LookUpBlock(c)
    PROVE  Soundness'
<1>1. PICK slot \in Arrivals(c) :
         /\ Append1(c, slot) /\ Open(slot)
         /\ \/ Hit(c, KeyOf(slot)) /\ UNCHANGED <<cache, pending>>
            \/ /\ slot.kind \in StringKinds /\ Expire(KeyOf(slot))
               /\ pending' = [pending EXCEPT ![c] = Append(@, Next1(c))]
               /\ UNCHANGED <<at, found>>
            \/ /\ slot.kind \in {"result", "text"} /\ Expire(KeyOf(slot))
               /\ at' = [at EXCEPT ![c] = "block"]
               /\ UNCHANGED <<found, pending>>
  BY DEF LookUp, LookUpBlock
<1>2. InPass1(c) /\ UNCHANGED <<netcost, replaced, floor>>
  BY DEF LookUp, LookUpBlock
<1>3. /\ slot \in Slot /\ slot.paid = "no" /\ Lawful(slot) /\ Undecided(slot)
      /\ KeyOf(slot) \in Keys /\ KeyOf(slot)[2] = Space(slot.kind)
  BY <1>1, ArrivalSlot DEF Undecided
<1>4. CacheSound'
  <2>1. UNCHANGED cache \/ Expire(KeyOf(slot))
    BY <1>1
  <2>2. CacheSound /\ KeyOf(slot) \in Keys
    BY <1>3 DEF Soundness
  <2>3. QED
    BY <2>1, <2>2, CacheStep
<1>5. /\ at = [at EXCEPT ![c] = "classify"]
      /\ pending = [pending EXCEPT ![c] = pending[c]]
      /\ found = [found EXCEPT ![c] = found[c]] /\ found[c] \in Result
  BY <1>2 DEF InPass1, Soundness, TypeOK
<1>6. CASE UNCHANGED <<at, found, pending>>
  BY <1>1, <1>2, <1>3, <1>4, <1>5, <1>6, Appends
<1>7. ASSUME cache[KeyOf(slot)] \in Result,
             found' = [found EXCEPT ![c] = cache[KeyOf(slot)]],
             at' = [at EXCEPT ![c] = "settle"],
             UNCHANGED pending
      PROVE  Soundness'
  <2>1. Servable(cache[KeyOf(slot)], Space(slot.kind))
    <3>1. \A k \in Keys : cache[k] \in Result => Servable(cache[k], k[2])
      BY DEF Soundness, CacheSound
    <3>2. QED
      BY <1>3, <1>7, <3>1
  <2>2. QED
    BY <1>1, <1>2, <1>3, <1>4, <1>5, <1>7, <2>1, Appends
<1>8. CASE /\ slot.kind \in StringKinds
           /\ pending' = [pending EXCEPT ![c] = Append(pending[c], Next1(c))]
           /\ UNCHANGED <<at, found>>
  BY <1>1, <1>2, <1>3, <1>4, <1>5, <1>8, Appends
<1>9. CASE /\ slot.kind \in {"result", "text"} /\ at' = [at EXCEPT ![c] = "block"]
           /\ UNCHANGED <<found, pending>>
  BY <1>1, <1>2, <1>3, <1>4, <1>5, <1>9, Appends
<1>10. QED
  BY <1>1, <1>6, <1>7, <1>8, <1>9 DEF Hit

-----------------------------------------------------------------------------
(* Results that are found or made. *)

\* Slot i is given result r at a charge, or is left as it is.
Gives(c, i, r, charge) ==
    /\ r \in Result /\ Servable(r, Space(slots[c][i].kind))
    /\ charge \in Chargeable(floor[c], i, r.form)
    /\ slots' = [slots EXCEPT ![c][i] = Admitted(slots[c][i], r, charge)]
    /\ floor' = [floor EXCEPT ![c] = LoweredTo(floor[c], i, charge)]

\* The call goes on with the misses that still wait.
GoesOn(c) ==
    /\ UNCHANGED <<netcost, replaced>>
    /\ at[c] # "raised" /\ at'[c] \in {"classify", "merge", "overdue", "dedup"}
    /\ at' \in [Callers -> Places] /\ found' \in [Callers -> Result]
    /\ pending' \in [Callers -> Seq(Nat)]
    /\ \A d \in Callers \ {c} :
          at'[d] = at[d] /\ found'[d] = found[d] /\ pending'[d] = pending[d]
    /\ Waiting(slots[c], pending'[c])
    /\ at'[c] \in {"merge", "overdue"} => pending'[c] # <<>>
    /\ at'[c] = "dedup" => pending'[c] = <<>>

\* A result that passes the gate is admitted soundly, whichever tier it came from.
LEMMA Admits ==
    ASSUME Soundness, NEW c \in Callers, CacheSound', GoesOn(c),
           NEW i \in DOMAIN slots[c], Undecided(slots[c][i]),
           \A n \in DOMAIN pending'[c] : pending'[c][n] # i,
           NEW r, NEW charge, Gives(c, i, r, charge)
    PROVE  Soundness'
<1> DEFINE s == slots[c]
           f == floor[c]
           t == [s EXCEPT ![i] = Admitted(s[i], r, charge)]
           g == LoweredTo(f, i, charge)
<1>1. /\ s \in Seq(Slot) /\ f \in Nat /\ Len(s) \in Nat /\ DOMAIN s = 1 .. Len(s)
  <2>1. s \in Seq(Slot) /\ f \in Nat
    BY CallFacts
  <2>2. QED
    BY <2>1
<1>2. /\ \A j \in DOMAIN s : Lawful(s[j])
      /\ FreeBehindPaid(s) /\ FloorPaid(s, f)
  BY CallFacts DEF Fits, GoesOn
<1>3. /\ slots' = [slots EXCEPT ![c] = t] /\ floor' = [floor EXCEPT ![c] = g]
      /\ r \in Result /\ Servable(r, Space(s[i].kind)) /\ charge \in Chargeable(f, i, r.form)
  BY DEF Gives
<1>4. /\ t \in Seq(Slot) /\ Len(t) = Len(s) /\ t # <<>> /\ g \in Nat
      /\ \A j \in DOMAIN s \ {i} : t[j] = s[j]
      /\ \A j \in DOMAIN t : Lawful(t[j])
      /\ FreeBehindPaid(t) /\ FloorPaid(t, g)
  BY <1>1, <1>2, <1>3, AdmitSlot
<1> HIDE DEF t, g
<1>5. DOMAIN t = DOMAIN s
  BY <1>1, <1>4
<1>6. Waiting(t, pending'[c])
  BY <1>4, <1>5 DEF Waiting, GoesOn
<1>7. Fits(at'[c], t, pending'[c], found'[c], g)
  BY <1>4, <1>6 DEF Fits, GoesOn
<1>8. /\ at' \in [Callers -> Places] /\ slots' \in [Callers -> Seq(Slot)]
      /\ pending' \in [Callers -> Seq(Nat)] /\ floor' \in [Callers -> Nat]
      /\ \A d \in Callers \ {c} : Kept(d)
      /\ netcost' = netcost /\ replaced' \subseteq Callers
  BY <1>3, <1>4 DEF Soundness, TypeOK, Places, Kept, GoesOn
<1>9. Fits(at'[c], slots'[c], pending'[c], found'[c], floor'[c])
  BY <1>3, <1>7 DEF Soundness, TypeOK
<1>10. QED
  BY <1>8, <1>9, CallStep DEF GoesOn

\* A charge of the net-cost gate; a slot admitted without one; one left as it is.
LEMMA GateCharges ==
    ASSUME Soundness, NEW c \in Callers, NEW i \in DOMAIN slots[c],
           NEW r \in Result, Servable(r, Space(slots[c][i].kind)), NEW charge,
           slots' = [slots EXCEPT ![c][i] = Admitted(slots[c][i], r, charge)],
           \/ charge \in Charges(c, i, r.form) /\ Lowered(c, i, charge)
           \/ charge = "no" /\ UNCHANGED floor
    PROVE  Gives(c, i, r, charge)
<1>1. charge \in Chargeable(floor[c], i, r.form)
  BY DEF Charges, Chargeable
<1>2. floor' = [floor EXCEPT ![c] = LoweredTo(floor[c], i, charge)]
  BY DEF Lowered, LoweredTo, Soundness, TypeOK
<1>3. QED
  BY <1>1, <1>2 DEF Gives

\* A result the gate refuses leaves the slot as it came.
LEMMA GateRefuses ==
    ASSUME Soundness, NEW c \in Callers, NEW i \in DOMAIN slots[c],
           UNCHANGED <<slots, floor>>
    PROVE  Gives(c, i, Untouched, "skip")
<1>1. slots[c] = [slots[c] EXCEPT ![i] = slots[c][i]]
  <2>1. slots[c] \in Seq(Slot)
    BY CallFacts
  <2>2. QED
    BY <2>1
<1>2. /\ floor = [floor EXCEPT ![c] = floor[c]]
      /\ slots = [slots EXCEPT ![c][i] = slots[c][i]]
  BY <1>1 DEF Soundness, TypeOK
<1>3. /\ Untouched \in Result /\ Servable(Untouched, Space(slots[c][i].kind))
      /\ "skip" \in Chargeable(floor[c], i, Untouched.form)
  BY DEF Untouched, Result, Forms, Ratios, Servable, Chargeable
<1>4. QED
  BY <1>2, <1>3 DEF Gives, LoweredTo, Admitted

\* An entry may be put back, marked to be skipped, or left.
LEMMA EntrySound ==
    ASSUME Soundness, NEW c \in Callers, NEW slot \in Slot,
           \/ UNCHANGED cache \/ MarkSkip(KeyOf(slot))
           \/ \E r \in Result : Put(KeyOf(slot), r) /\ Servable(r, Space(slot.kind))
    PROVE  CacheSound'
<1> DEFINE k == KeyOf(slot)
<1>1. k \in Keys /\ k[2] = Space(slot.kind)
  BY DEF KeyOf, Keys, Slot, Space
<1> HIDE DEF k
<1>2. UNCHANGED cache \/ MarkSkip(k) \/ \E r \in Result : Put(k, r) /\ Servable(r, k[2])
  BY <1>1 DEF k
<1>3. QED
  BY <1>1, <1>2, CacheStep DEF Soundness

\* A cached result is settled, or a block compressed.
LEMMA SettleSound ==
    ASSUME Soundness, NEW c \in Callers, Settle(c) \/ SettleBlock(c) \/ CompressBlock(c)
    PROVE  Soundness'
<1>1. PICK i : i = Len(slots[c])
  OBVIOUS
<1> DEFINE slot == slots[c][i]
<1>2. /\ slots[c] # <<>> /\ Undecided(slot) /\ \A n \in DOMAIN pending[c] : pending[c][n] # i
      /\ Waiting(slots[c], pending[c])
      /\ at[c] = "settle" => Servable(found[c], Space(slot.kind))
      /\ at[c] = "block" => slot.kind \in {"result", "text"}
  BY <1>1, CallFacts DEF Fits, Settle, SettleBlock, CompressBlock
<1>3. /\ slots[c] \in Seq(Slot) /\ found[c] \in Result
  BY CallFacts
<1>4. i \in DOMAIN slots[c] /\ slot \in Slot
  BY <1>1, <1>2, <1>3
<1>5. GoesOn(c) /\ pending' = pending
  <2>1. /\ at[c] \in {"settle", "block"}
        /\ at' = [at EXCEPT ![c] = "classify"]
        /\ UNCHANGED <<netcost, replaced, pending>>
        /\ found' = [found EXCEPT ![c] = Untouched] \/ UNCHANGED found
    BY DEF Settle, SettleBlock, CompressBlock
  <2>2. Untouched \in Result
    BY DEF Untouched, Result, Forms, Ratios
  <2>3. QED
    BY <1>2, <2>1, <2>2 DEF GoesOn, Soundness, TypeOK, Places
\* the slot is given a result, or the entry is marked to be skipped
<1>6. SUFFICES CacheSound' /\ \E r, charge : Gives(c, i, r, charge)
  BY <1>2, <1>4, <1>5, Admits
<1>7. CASE Settle(c)
  <2>1. Servable(found[c], Space(slot.kind))
    BY <1>2, <1>7 DEF Settle
  <2>2. \/ MarkSkip(KeyOf(slot)) /\ UNCHANGED <<slots, floor>>
        \/ \E charge \in Charges(c, i, found[c].form) :
              /\ slots' = [slots EXCEPT ![c][i] = Admitted(slot, found[c], charge)]
              /\ Lowered(c, i, charge) /\ UNCHANGED cache
    BY <1>1, <1>7 DEF Settle
  <2>3. QED
    BY <1>3, <1>4, <2>1, <2>2, GateCharges, GateRefuses, EntrySound
<1>8. CASE SettleBlock(c)
  <2>1. Servable(found[c], Space(slot.kind)) /\ UNCHANGED floor
    BY <1>2, <1>8 DEF SettleBlock
  <2>2. \/ MarkSkip(KeyOf(slot)) /\ UNCHANGED slots
        \/ /\ slots' = [slots EXCEPT ![c][i] = Admitted(slot, found[c], "no")]
           /\ UNCHANGED cache
    BY <1>1, <1>8 DEF SettleBlock
  <2>3. QED
    BY <1>3, <1>4, <2>1, <2>2, GateCharges, GateRefuses, EntrySound
<1>9. CASE CompressBlock(c)
  <2>1. slot.kind \in {"result", "text"} /\ UNCHANGED floor
    BY <1>2, <1>9 DEF CompressBlock
  <2>2. PICK r \in Compressed :
           \/ MarkSkip(KeyOf(slot)) /\ UNCHANGED slots
           \/ /\ Put(KeyOf(slot), r)
              /\ slots' = [slots EXCEPT ![c][i] = Admitted(slot, r, "no")]
    BY <1>1, <1>9 DEF CompressBlock
  <2>3. r \in Result /\ Servable(r, Space(slot.kind))
    BY <2>1, CompressedResults DEF Servable, Space
  <2>4. QED
    BY <1>4, <2>1, <2>2, <2>3, GateCharges, GateRefuses, EntrySound
<1>10. QED
  BY <1>7, <1>8, <1>9

\* Behind a miss only later ones wait.
LEMMA WaitingTail ==
    ASSUME NEW s, NEW q \in Seq(Nat), q # <<>>, Waiting(s, q)
    PROVE  Waiting(s, Tail(q)) /\ \A n \in DOMAIN Tail(q) : Tail(q)[n] # Head(q)
<1> DEFINE p == Tail(q)
           L == Len(q)
<1>1. /\ L \in Nat \ {0} /\ DOMAIN q = 1 .. L /\ DOMAIN p = 1 .. (L - 1) /\ Head(q) = q[1]
      /\ \A n \in 1 .. (L - 1) : p[n] = q[n + 1]
      /\ \A n \in 1 .. L : q[n] \in Nat
  OBVIOUS
<1> HIDE DEF p, L
<1>2. \A n \in 1 .. (L - 1) : n + 1 \in 1 .. L /\ 1 < n + 1 /\ 1 \in 1 .. L /\ n \in Nat
  BY <1>1
<1>3. \A n \in 1 .. (L - 1) : q[1] < q[n + 1]
  BY <1>1, <1>2 DEF Waiting
<1>4. ASSUME NEW m \in 1 .. (L - 1), NEW n \in 1 .. (L - 1), m < n
      PROVE  p[m] < p[n]
  <2>1. m + 1 < n + 1
    BY <1>2, <1>4
  <2>2. q[m + 1] < q[n + 1]
    BY <1>1, <1>2, <2>1 DEF Waiting
  <2>3. QED
    BY <1>1, <2>2
<1>5. \A n \in DOMAIN p : p[n] # Head(q)
  BY <1>1, <1>2, <1>3
<1>6. Waiting(s, p)
  BY <1>1, <1>2, <1>4 DEF Waiting
<1>7. QED
  BY <1>5, <1>6 DEF p

\* The misses are merged in their order.
LEMMA MergeSound ==
    ASSUME Soundness, NEW c \in Callers, Merge(c)
    PROVE  Soundness'
<1>1. PICK i : i = Head(pending[c])
  OBVIOUS
<1> DEFINE slot == slots[c][i]
           p == Tail(pending[c])
<1>2. /\ at[c] \in {"merge", "overdue"}
      /\ at' = [at EXCEPT ![c] = IF Len(pending[c]) = 1 THEN "dedup" ELSE at[c]]
      /\ pending' = [pending EXCEPT ![c] = p]
      /\ UNCHANGED <<netcost, replaced, found>>
  BY DEF Merge
<1>3. /\ slots[c] \in Seq(Slot) /\ pending[c] \in Seq(Nat)
      /\ pending[c] # <<>> /\ Waiting(slots[c], pending[c])
  BY <1>2, CallFacts DEF Fits
<1>4. Waiting(slots[c], p) /\ \A n \in DOMAIN p : p[n] # i
  BY <1>1, <1>3, WaitingTail
<1>5. i \in DOMAIN slots[c] /\ slot \in Slot /\ Undecided(slot) /\ slot.kind \in StringKinds
  <2>1. 1 \in DOMAIN pending[c] /\ i = pending[c][1]
    BY <1>1, <1>3
  <2>2. QED
    BY <1>3, <2>1 DEF Waiting
<1>6. p \in Seq(Nat) /\ (p = <<>> <=> Len(pending[c]) = 1)
  <2>1. p \in Seq(Nat) /\ Len(p) = Len(pending[c]) - 1 /\ Len(pending[c]) \in Nat
    BY <1>3
  <2> HIDE DEF p
  <2>2. p = <<>> <=> Len(p) = 0
    BY <2>1, EmptySeq
  <2>3. QED
    BY <2>1, <2>2
<1> HIDE DEF p
<1>7. GoesOn(c) /\ pending'[c] = p
  BY <1>2, <1>4, <1>6 DEF GoesOn, Soundness, TypeOK, Places
<1>8. SUFFICES CacheSound' /\ \E r, charge : Gives(c, i, r, charge)
  BY <1>4, <1>5, <1>7, Admits
<1>9. PICK r \in Result, passes \in BOOLEAN :
         /\ MergeResult(c, i, r, passes)
         /\ r.form \in {"original", "folded", "marked", "bare", "unasked"}
  <2>1. Untouched \in Result /\ Untouched.form = "original"
    BY DEF Untouched, Result, Forms, Ratios
  <2>2. PICK r \in IF at[c] = "overdue" THEN {Untouched} ELSE Compressed :
          \E passes \in Gate(r.ratio) : MergeResult(c, i, r, passes)
    BY <1>1 DEF Merge
  <2>3. r \in Result /\ r.form \in {"original", "folded", "marked", "bare", "unasked"}
    BY <2>1, <2>2, CompressedResults
  <2>4. Gate(r.ratio) \subseteq BOOLEAN
    BY DEF Gate
  <2>5. QED
    BY <2>2, <2>3, <2>4
<1>10. CASE MarkSkip(KeyOf(slot)) /\ UNCHANGED <<slots, floor>>
  BY <1>5, <1>10, GateRefuses, EntrySound
<1>11. ASSUME Put(KeyOf(slot), r), slot.kind \in {"tool", "read"} => Recoverable(r),
              NEW charge \in Charges(c, i, r.form),
              slots' = [slots EXCEPT ![c][i] = Admitted(slot, r, charge)],
              Lowered(c, i, charge)
       PROVE  CacheSound' /\ \E q, x : Gives(c, i, q, x)
  <2>1. Servable(r, Space(slot.kind))
    BY <1>9, <1>11 DEF Servable, Space, Recoverable
  <2>2. QED
    BY <1>5, <1>9, <1>11, <2>1, GateCharges, EntrySound
<1>12. QED
  BY <1>9, <1>10, <1>11 DEF MergeResult

-----------------------------------------------------------------------------
(* The rest of a call. *)

\* A call begins, ends a pass, is overdue, fails or returns.
LEMMA PassSound ==
    ASSUME Soundness, NEW c \in Callers,
           Begin(c) \/ EndPass1(c) \/ Compress(c) \/ Overdue(c) \/ Raise(c) \/ Return(c)
    PROVE  Soundness'
<1>1. /\ slots[c] \in Seq(Slot) /\ pending[c] \in Seq(Nat) /\ floor[c] \in Nat
      /\ found[c] \in Result
      /\ Fits(at[c], slots[c], pending[c], found[c], floor[c])
  BY CallFacts
<1>2. netcost' = netcost /\ replaced' \subseteq Callers /\ UNCHANGED cache
  BY DEF Begin, EndPass1, Compress, Overdue, Raise, Return, Soundness, TypeOK
<1>3. CacheSound'
  BY <1>2 DEF Soundness, CacheSound
<1>4. Fits("raised", <<>>, <<>>, found[c], floor[c]) /\ Fits("idle", <<>>, <<>>, found[c], 0)
  BY DEF Fits, FreeBehindPaid, FloorPaid, Waiting
<1>5. <<>> \in Seq(Slot) /\ <<>> \in Seq(Nat)
  OBVIOUS
<1>6. CASE Begin(c) \/ EndPass1(c) \/ Compress(c) \/ Overdue(c)
  <2>1. UNCHANGED <<slots, pending, found, floor>>
    BY <1>6 DEF Begin, EndPass1, Compress, Overdue
  <2>2. PICK place \in {"classify", "dedup", "compress", "merge", "overdue"} :
           /\ at' = [at EXCEPT ![c] = place]
           /\ place \in {"compress", "merge", "overdue"} => pending[c] # <<>>
           /\ place = "dedup" => pending[c] = <<>>
           /\ at[c] # "raised"
    BY <1>1, <1>6 DEF Begin, EndPass1, Compress, Overdue, Fits
  <2>3. Fits(place, slots[c], pending[c], found[c], floor[c])
    BY <1>1, <2>2 DEF Fits
  <2>4. QED
    BY <1>2, <1>3, <2>1, <2>2, <2>3, CallStep DEF Soundness, TypeOK, Places, Kept
<1>7. CASE Raise(c)
  <2>1. /\ at' = [at EXCEPT ![c] = "raised"] /\ slots' = [slots EXCEPT ![c] = <<>>]
        /\ pending' = [pending EXCEPT ![c] = <<>>] /\ UNCHANGED <<found, floor>>
    BY <1>7 DEF Raise
  <2>2. QED
    BY <1>2, <1>3, <1>4, <1>5, <2>1, CallStep DEF Soundness, TypeOK, Places, Kept
<1>8. CASE Return(c)
  <2>1. /\ at' = [at EXCEPT ![c] = "idle"] /\ slots' = [slots EXCEPT ![c] = <<>>]
        /\ floor' = [floor EXCEPT ![c] = 0] /\ UNCHANGED <<pending, found>>
        /\ at[c] \in {"answer", "raised"}
    BY <1>8 DEF Return
  <2>2. pending[c] = <<>>
    BY <1>1, <2>1 DEF Fits
  <2>3. Fits(at'[c], slots'[c], pending'[c], found'[c], floor'[c])
    BY <1>4, <2>1, <2>2 DEF Soundness, TypeOK
  <2>4. QED
    BY <1>2, <1>3, <1>5, <2>1, <2>3, CallStep DEF Soundness, TypeOK, Places, Kept
<1>9. QED
  BY <1>6, <1>7, <1>8

\* Some tool outputs that are not frozen become pointers.
LEMMA DedupSound ==
    ASSUME Soundness, NEW c \in Callers, Dedup(c)
    PROVE  Soundness'
<1> DEFINE s == slots[c]
<1>1. PICK folded \in SUBSET {i \in DOMAIN s : Repeats(c, i)} :
         slots' = [slots EXCEPT ![c] =
                     [i \in DOMAIN s |-> IF i \in folded
                                         THEN [s[i] EXCEPT !.form = "pointer"]
                                         ELSE s[i]]]
  BY DEF Dedup
<1> DEFINE t == [i \in DOMAIN s |-> IF i \in folded THEN [s[i] EXCEPT !.form = "pointer"]
                                    ELSE s[i]]
<1>2. /\ s \in Seq(Slot) /\ pending[c] \in Seq(Nat) /\ floor[c] \in Nat
      /\ found[c] \in Result
  BY CallFacts
<1>3. /\ \A i \in DOMAIN s : Lawful(s[i])
      /\ FreeBehindPaid(s) /\ FloorPaid(s, floor[c]) /\ pending[c] = <<>>
  BY CallFacts DEF Fits, Dedup
<1>4. \A i \in folded : s[i].kind \in {"tool", "read", "result"} /\ ~s[i].frozen
  BY DEF Repeats
<1>5. \A i \in DOMAIN s : s[i] \in Slot
  BY <1>2
<1>6. DOMAIN t = DOMAIN s
  OBVIOUS
<1>7. ASSUME NEW i \in DOMAIN s
      PROVE  /\ t[i] \in Slot /\ Lawful(t[i]) /\ t[i].paid = s[i].paid
             /\ PaidFor(s[i]) => PaidFor(t[i])
  <2>1. CASE i \in folded
    <3>1. t[i] = [s[i] EXCEPT !.form = "pointer"]
      BY <2>1
    <3>2. s[i] \in Slot /\ ~s[i].frozen
      BY <1>4, <1>5, <2>1
    <3> HIDE DEF t
    <3>3. /\ t[i] \in Slot /\ t[i].paid = s[i].paid /\ t[i].form = "pointer" /\ ~t[i].frozen
      BY <3>1, <3>2 DEF Slot, Forms
    <3>4. QED
      BY <3>3 DEF Lawful, PaidFor
  <2>2. CASE i \notin folded
    BY <1>3, <1>5, <2>2
  <2>3. QED
    BY <2>1, <2>2
<1>8. t \in Seq(Slot)
  <2>1. Len(s) \in Nat /\ DOMAIN s = 1 .. Len(s)
    BY <1>2
  <2>2. t \in [1 .. Len(s) -> Slot]
    BY <1>7, <2>1
  <2> HIDE DEF t
  <2>3. QED
    BY <2>1, <2>2
<1> HIDE DEF t
<1>9. FreeBehindPaid(t)
  <2>1. ASSUME NEW i \in DOMAIN t, t[i].paid = "free"
        PROVE  \E j \in 1 .. (i - 1) : PaidFor(t[j])
    <3>1. PICK j \in 1 .. (i - 1) : PaidFor(s[j])
      BY <1>3, <1>6, <1>7, <2>1 DEF FreeBehindPaid
    <3>2. Len(s) \in Nat /\ DOMAIN s = 1 .. Len(s) /\ i \in 1 .. Len(s)
      BY <1>2, <1>6, <2>1
    <3>3. j \in DOMAIN s
      BY <3>1, <3>2
    <3>4. QED
      BY <1>7, <3>1, <3>3
  <2>2. QED
    BY <2>1 DEF FreeBehindPaid
<1>10. Fits("answer", t, pending[c], found[c], floor[c])
  BY <1>3, <1>6, <1>7, <1>9 DEF Fits, FloorPaid, Waiting
<1>11. /\ slots' = [slots EXCEPT ![c] = t] /\ at' = [at EXCEPT ![c] = "answer"]
       /\ UNCHANGED <<netcost, replaced, cache, pending, found, floor>>
  BY <1>1 DEF Dedup, t
<1>12. CacheSound'
  BY <1>11 DEF Soundness, CacheSound
<1>13. QED
  BY <1>8, <1>10, <1>11, <1>12, CallStep DEF Soundness, TypeOK, Places, Kept

\* Soundness holds in every state.
LEMMA SoundAlways == Spec => []Soundness
<1>1. Init => Soundness
  BY DEF Init, Soundness, TypeOK, CacheSound, Fits, FreeBehindPaid, FloorPaid, Waiting, Absent,
         Skipped, Untouched, Result, Forms, Ratios
<1>2. Soundness /\ [Next]_vars => Soundness'
  <2>1. ASSUME Soundness, UNCHANGED vars PROVE Soundness'
    BY <2>1 DEF vars, own, Soundness, TypeOK, CacheSound, Fits, Lawful, FreeBehindPaid,
               FloorPaid, PaidFor, Waiting, Undecided, Open, Servable, Space
  <2>2. QED
    BY <2>1, KeepSound, LookUpSound, SettleSound, MergeSound, PassSound, DedupSound DEF Next
<1>3. QED
  BY <1>1, <1>2, PTL DEF Spec

-----------------------------------------------------------------------------
(* The theorems. *)

\* Slots, misses, floors and cache entries stay well typed; a call's misses and
\* its floor name slots of its own.
THEOREM TypeCorrect == Spec => []TypeOK
BY SoundAlways, PTL DEF Soundness

\* A string tool output compressed as text or code is never replaced by a summary
\* without a marker, neither freshly nor from an entry that another call made by
\* its own rule, and nothing is blanked out.  What the model makes of a text that
\* was taken for anything else is not excluded.
THEOREM BareIsNeverServed == Spec => []BareNeverServed
<1>1. Soundness => BareNeverServed
  BY DEF Soundness, BareNeverServed, Slots, Fits, Lawful
<1>2. QED
  BY <1>1, SoundAlways, PTL

\* Whatever the cache holds and the gates decide, a frozen message goes out as it
\* came, but for a string that the net-cost policy opened.
THEOREM FrozenMessagesStay == Spec => []FrozenStays
<1>1. Soundness => FrozenStays
  BY DEF Soundness, FrozenStays, Slots, Fits, Lawful
<1>2. QED
  BY <1>1, SoundAlways, PTL

\* A slot only rides free behind a shallower one that was charged its suffix and
\* mutated, though hits are charged in pass 1 and misses in pass 3.
THEOREM FreeRidesArePaidFor == Spec => []FreeRideBehindMutation
<1>1. Soundness => FreeRideBehindMutation
  BY DEF Soundness, FreeRideBehindMutation, Fits, FreeBehindPaid, PaidFor
<1>2. QED
  BY <1>1, SoundAlways, PTL
=============================================================================
