--------------------------- MODULE RemoteKompress ---------------------------
(***************************************************************************)
(* The proxy's view of the broker's readiness:                             *)
(* headroom/transforms/kompress_remote.py, with the router that asks it    *)
(* before every compression (content_router.py).                           *)
(*                                                                         *)
(* Compression threads, the probe of the eager preload and a background    *)
(* probe share one object.  Its lock covers the decision to start a        *)
(* background probe and the reprobe clock; readiness and metadata are      *)
(* plain attributes that the threads write one statement at a time.        *)
(***************************************************************************)
EXTENDS FiniteSets

CONSTANT Callers    \* the threads that compress

ASSUME RemoteAssumption == IsFiniteSet(Callers)

Probers == {"eager", "background"}

VARIABLES
    broker,         \* "up", or "down": what a probe of /readyz finds
    ready,          \* _ready
    metadata,       \* _provider and _backend: "none" or "named"
    coolingDown,    \* now < _next_reprobe_at
    caller,         \* caller -> where its compression is
    prober          \* prober -> where its preload() is

sharedVars == <<ready, metadata, coolingDown>>
vars == <<broker, sharedVars, caller, prober>>

ProbeSteps == {"reset_ready", "reset_metadata", "asking", "set_metadata", "set_ready"}
FailSteps  == {"unset_ready", "unset_metadata", "unset_clock"}

\* The eager preload probes early or, held up by the loads before it, late.
Init ==
    /\ broker \in {"up", "down"}
    /\ ready = FALSE
    /\ metadata = "none"
    /\ coolingDown = FALSE
    /\ caller = [c \in Callers |-> "idle"]
    /\ prober = [p \in Probers |-> IF p = "eager" THEN "reset_ready" ELSE "off"]

-----------------------------------------------------------------------------
(* preload(), statement by statement. *)

Step(p, from, to) ==
    /\ prober[p] = from
    /\ prober' = [prober EXCEPT ![p] = to]

ResetReady(p) ==
    /\ Step(p, "reset_ready", "reset_metadata")
    /\ ready' = FALSE
    /\ UNCHANGED <<broker, metadata, coolingDown, caller>>

ResetMetadata(p) ==
    /\ Step(p, "reset_metadata", "asking")
    /\ metadata' = "none"
    /\ UNCHANGED <<broker, ready, coolingDown, caller>>

\* /readyz says ready, with its provider and backend.
ProbeSucceeds(p) ==
    /\ broker = "up"
    /\ Step(p, "asking", "set_metadata")
    /\ UNCHANGED <<broker, sharedVars, caller>>

\* Anything else: the attributes are left as they are.
ProbeFails(p) ==
    /\ broker = "down"
    /\ Step(p, "asking", "off")
    /\ UNCHANGED <<broker, sharedVars, caller>>

SetMetadata(p) ==
    /\ Step(p, "set_metadata", "set_ready")
    /\ metadata' = "named"
    /\ UNCHANGED <<broker, ready, coolingDown, caller>>

SetReady(p) ==
    /\ Step(p, "set_ready", "off")
    /\ ready' = TRUE
    /\ UNCHANGED <<broker, metadata, coolingDown, caller>>

Probe(p) ==
    \/ ResetReady(p) \/ ResetMetadata(p)
    \/ ProbeSucceeds(p) \/ ProbeFails(p)
    \/ SetMetadata(p) \/ SetReady(p)

-----------------------------------------------------------------------------
(* One compression. *)

\* Mistake: the text is passed through, and nobody probes again.
AskAlone(c) ==
    /\ caller[c] = "idle"
    /\ caller' = [caller EXCEPT ![c] = IF ready THEN "posting" ELSE "idle"]
    /\ UNCHANGED <<broker, sharedVars, prober>>

\* The router posts only when the broker was ready, and otherwise makes sure
\* that somebody is probing it.
Ask(c) ==
    /\ caller[c] = "idle"
    /\ caller' = [caller EXCEPT ![c] = IF ready THEN "posting" ELSE "ensuring"]
    /\ UNCHANGED <<broker, sharedVars, prober>>

\* ensure_background_load, under the lock.
Ensure(c) ==
    /\ caller[c] = "ensuring"
    /\ caller' = [caller EXCEPT ![c] = "idle"]
    /\ IF ready \/ coolingDown \/ prober["background"] # "off"
       THEN UNCHANGED <<coolingDown, prober>>
       ELSE /\ coolingDown' = TRUE
            /\ prober' = [prober EXCEPT !["background"] = "reset_ready"]
    /\ UNCHANGED <<broker, ready, metadata>>

\* A 200 with a text, compressed or, from a broker that fails open, the same.
\* Numbers in it that cannot be read raise, but leave the readiness alone.
PostSucceeds(c) ==
    /\ caller[c] = "posting"
    /\ caller' = [caller EXCEPT ![c] = "idle"]
    /\ UNCHANGED <<broker, sharedVars, prober>>

\* A timeout, a status, a reply that does not parse: whatever /readyz says, a
\* single request can fail.
PostFails(c) ==
    /\ caller[c] = "posting"
    /\ caller' = [caller EXCEPT ![c] = "unset_ready"]
    /\ UNCHANGED <<broker, sharedVars, prober>>

UnsetReady(c) ==
    /\ caller[c] = "unset_ready"
    /\ caller' = [caller EXCEPT ![c] = "unset_metadata"]
    /\ ready' = FALSE
    /\ UNCHANGED <<broker, metadata, coolingDown, prober>>

UnsetMetadata(c) ==
    /\ caller[c] = "unset_metadata"
    /\ caller' = [caller EXCEPT ![c] = "unset_clock"]
    /\ metadata' = "none"
    /\ UNCHANGED <<broker, ready, coolingDown, prober>>

\* The next call may probe at once; this one gets its own text back.
UnsetClock(c) ==
    /\ caller[c] = "unset_clock"
    /\ caller' = [caller EXCEPT ![c] = "idle"]
    /\ coolingDown' = FALSE
    /\ UNCHANGED <<broker, ready, metadata, prober>>

Compress(c) ==
    \/ Ask(c) \/ Ensure(c) \/ PostSucceeds(c) \/ PostFails(c)
    \/ UnsetReady(c) \/ UnsetMetadata(c) \/ UnsetClock(c)

-----------------------------------------------------------------------------
\* The reprobe interval passes.
Cool ==
    /\ coolingDown
    /\ coolingDown' = FALSE
    /\ UNCHANGED <<broker, ready, metadata, caller, prober>>

BrokerChanges ==
    /\ broker' = IF broker = "up" THEN "down" ELSE "up"
    /\ UNCHANGED <<sharedVars, caller, prober>>

Next ==
    \/ \E p \in Probers : Probe(p)
    \/ \E c \in Callers : Compress(c)
    \/ Cool \/ BrokerChanges

\* Threads run and their HTTP timeouts fire; the clock advances; there is
\* traffic, for without it nothing probes a broker again.
Fairness ==
    /\ \A p \in Probers : WF_vars(Probe(p))
    /\ \A c \in Callers : WF_vars(Compress(c))
    /\ WF_vars(Cool)

Spec == Init /\ [][Next]_vars /\ Fairness

-----------------------------------------------------------------------------
(* Properties. *)

\* A broker that stays up is found again and again, whatever probes and
\* failures were under way when it came up and however often a single request
\* still fails; when none does any more, it is found for good: no write of a
\* probe or of a failure that was late takes it away.
FindsBrokerAgain ==
    <>[](broker = "up") =>
        /\ []<>ready
        /\ <>[][\A c \in Callers : ~PostFails(c)]_vars => <>[]ready

=============================================================================
