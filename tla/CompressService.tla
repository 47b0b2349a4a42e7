--------------------------- MODULE CompressService ---------------------------
(***************************************************************************)
(* What the Kompress broker promises its callers, with no queue, lock,     *)
(* thread or process: every call that is accepted is answered once, either *)
(* with a compression or with the caller's own text, and after the first   *)
(* failure of the provider nobody is served a compression any more until   *)
(* the broker is started again (nothing in the broker restarts it).        *)
(***************************************************************************)
CONSTANT Requests

VARIABLES
    status,     \* request -> "idle", "pending" or how it was answered
    healthy     \* the provider has not failed yet

vars == <<status, healthy>>

Init ==
    /\ status = [r \in Requests |-> "idle"]
    /\ healthy = TRUE

Submit(r) ==
    /\ status[r] = "idle"
    /\ status' = [status EXCEPT ![r] = "pending"]
    /\ UNCHANGED healthy

Refuse(r) ==
    /\ status[r] = "idle"
    /\ status' = [status EXCEPT ![r] = "refused"]
    /\ UNCHANGED healthy

Compress(r) ==
    /\ status[r] = "pending"
    /\ healthy
    /\ status' = [status EXCEPT ![r] = "compressed"]
    /\ UNCHANGED healthy

PassThrough(r) ==
    /\ status[r] = "pending"
    /\ status' = [status EXCEPT ![r] = "original"]
    /\ UNCHANGED healthy

Degrade ==
    /\ healthy
    /\ healthy' = FALSE
    /\ UNCHANGED status

Next ==
    \/ Degrade
    \/ \E r \in Requests : Submit(r) \/ Refuse(r) \/ Compress(r) \/ PassThrough(r)

SafeSpec == Init /\ [][Next]_vars

\* Fail-open: an accepted call does not wait for ever.
Spec == SafeSpec /\ \A r \in Requests : WF_vars(Compress(r) \/ PassThrough(r))

=============================================================================
