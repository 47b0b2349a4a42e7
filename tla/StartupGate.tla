---------------------------- MODULE StartupGate ----------------------------
(***************************************************************************)
(* The startup gate: codexpp-startup-gate.ps1, with the route keepers it   *)
(* starts and stops (RouteKeeper).                                         *)
(*                                                                         *)
(* A gate runs when a client is launched, or only to ask for readiness.    *)
(* It stops the watch of whoever came before, runs a keeper once, starts a *)
(* watch, and lets the client through when the route state that the watch  *)
(* publishes passes its test.  Gates are not serialised: two launches run  *)
(* two of them on the same files.                                          *)
(***************************************************************************)
EXTENDS RouteKeeper

VARIABLES
    gate,       \* gate -> where it is
    known       \* gate -> what it remembers

gateVars == <<gate, known>>
vars == <<routeVars, gateVars>>

Once(g)  == <<g, "once">>
Watch(g) == <<g, "watch">>

GateStages == {"idle", "reuse", "stop", "replace", "remove", "run", "await", "refresh",
               "base", "check", "spawn", "note", "wait", "confirm", "opened", "failed"}
GateEnded(g) == gate[g] \in {"opened", "failed"}

\* EffectiveRouteMode; whether it keeps a watch it has found; the configuration
\* before its keeper ran; whether ProcessRouteBaseUrl is the proxy's; the route
\* state it is about to write back.
Memory == [mode : {"official", "proxy"}, reuses : BOOLEAN, before : Hashes,
           based : BOOLEAN, copy : RouteStates \cup {None}]
NothingKnown == [mode |-> "proxy", reuses |-> FALSE, before |-> None,
                 based |-> FALSE, copy |-> None]

Init ==
    /\ KeeperInit
    /\ gate = [g \in Gates |-> "idle"]
    /\ known = [g \in Gates |-> NothingKnown]
    /\ allows = [g \in Gates |-> FALSE]

Move(g, from, to) ==
    /\ gate[g] = from
    /\ gate' = [gate EXCEPT ![g] = to]

Quit(g, from, verdict) ==
    /\ Move(g, from, verdict)
    /\ known' = [known EXCEPT ![g] = NothingKnown]

-----------------------------------------------------------------------------
(* What a gate tests. *)

\* Test-ExistingRouteKeeperWatch: the signal may be old, the state may not.
ReusableWatch(g) ==
    /\ signal # "none"
    /\ route # None
    /\ route.status = "ready"
    /\ route.hash = config
    /\ route.fresh
    /\ Watches(route.keeper) /\ Alive(route.keeper)
    /\ watchFile \in {None, route.keeper}

\* The watch state file and the signal, when the test requires them.
SignalReady(g) ==
    /\ signal = "fresh"
    /\ watchFile # None
    /\ Alive(watchFile)
    /\ allows[g] => allows[watchFile[1]]
    /\ route.keeper = watchFile

ProxyStates == {"ready", "pending"}

\* Test-RouteReadyState
RouteReady(g, requireSignal) ==
    /\ route # None
    /\ config.contract # None
    /\ route.contract \in {None, config.contract}
    /\ route.hash = config
    /\ known[g].mode = "proxy" => route.status \in ProxyStates /\ config.contract \in Responses
    /\ IF route.status = "official-bypass" /\ ~requireSignal
       THEN ~Watches(route.keeper) /\ relay = "official" /\ route.fresh
       ELSE /\ \/ route.status \in {"ready", "official-bypass"}
               \/ route.status = "pending" /\ allows[g] /\ allows[route.keeper[1]]
            /\ Watches(route.keeper) /\ Alive(route.keeper)
    /\ requireSignal => SignalReady(g)

\* What Wait-Readiness waits for; broker, proxy and monitor answer with the
\* gateway.
ServicesReady(g) == health = "ready" \/ (health = "pending" /\ allows[g])
Ready(g) == ServicesReady(g) /\ known[g].based /\ RouteReady(g, FALSE)

-----------------------------------------------------------------------------
(* From the start to the single run. *)

\* The mode is that of the profile, once.  In proxy mode the services are
\* ensured first, which may fail.  -AllowRelayPending is for launches only.
Begin(g) ==
    /\ \E launch, pending \in BOOLEAN :
          /\ pending => launch
          /\ \/ relay # "official" /\ Move(g, "idle", "failed") /\ UNCHANGED <<allows, asked, known>>
             \/ /\ relay # "invalid"
                /\ Move(g, "idle", IF launch THEN "replace"
                                   ELSE IF relay = "proxy" THEN "reuse" ELSE "stop")
                /\ allows' = [allows EXCEPT ![g] = pending]
                /\ asked' = [asked EXCEPT ![Once(g)] = relay]
                /\ known' = [known EXCEPT ![g].mode = relay]
    /\ UNCHANGED <<world, files, holder, stage, seen, own, lastHash, faults>>

\* Only to ask for readiness, a watch that is there is good enough.
Reuse(g) ==
    /\ IF ReusableWatch(g)
       THEN /\ Move(g, "reuse", "wait")
            /\ known' = [known EXCEPT ![g].reuses = TRUE, ![g].based = TRUE]
       ELSE Move(g, "reuse", "stop") /\ UNCHANGED known
    /\ UNCHANGED routeVars

\* Stop-RouteKeeperWatch: every watch there is, whoever started it.
Watchers == {k \in Keepers : Watches(k) /\ Alive(k)}

KillWatches(victims) ==
    /\ stage' = [k \in Keepers |-> IF k \in victims THEN "killed" ELSE stage[k]]
    /\ holder' = IF holder \in victims THEN None ELSE holder
    /\ Forget(victims)
    /\ UNCHANGED <<world, route, signal, asked, allows, faults>>

StopWatches ==
    /\ KillWatches(Watchers)
    /\ watchFile' = IF watchFile \in Watchers THEN None ELSE watchFile

StopWatch(g) ==
    /\ Move(g, "stop", "run") \/ Move(g, "replace", "remove")
    /\ StopWatches
    /\ UNCHANGED known

\* One of them cannot be identified or does not end in time.
StopWatchFails(g) ==
    /\ Watchers # {}
    /\ Quit(g, "stop", "failed") \/ Quit(g, "replace", "failed")
    /\ \E victims \in SUBSET Watchers : victims # Watchers /\ KillWatches(victims)
    /\ UNCHANGED watchFile

\* Remove-StaleRouteEvidence
RemoveEvidence(g) ==
    /\ Move(g, "remove", "run")
    /\ route' = None /\ signal' = "none"
    /\ UNCHANGED <<world, watchFile, holder, stage, mind, faults, known>>

\* Invoke-RouteKeeper up to the start of the keeper.
RunOnce(g) ==
    /\ IF config.contract = None
       THEN Quit(g, "run", "failed") /\ UNCHANGED stage
       ELSE /\ Move(g, "run", "await")
            /\ known' = [known EXCEPT ![g].before = config]
            /\ stage' = [stage EXCEPT ![Once(g)] = "start"]
    /\ UNCHANGED <<world, files, holder, mind, faults>>

\* The keeper has ended: the protected contract must be the same, and a new
\* revision is written into the route state.
Await(g) ==
    LET before == known[g].before
    IN  /\ gate[g] = "await" /\ stage[Once(g)] \in Ends
        /\ IF \/ stage[Once(g)] # "ok"
              \/ config.contract # before.contract
              \/ config # before /\ (route = None \/ route.contract \notin {None, config.contract})
           THEN Quit(g, "await", "failed")
           ELSE IF config = before
           THEN Move(g, "await", "base") /\ known' = [known EXCEPT ![g].before = None]
           ELSE /\ Move(g, "await", "refresh")
                /\ known' = [known EXCEPT ![g].before = config, ![g].copy = route]
        /\ UNCHANGED routeVars

\* Update-RouteStateConfigHash: the copy that was read is written back.
Refresh(g) ==
    LET current == known[g].before
    IN  /\ Move(g, "refresh", "base")
        /\ route' = [known[g].copy EXCEPT !.hash = current, !.contract = current.contract,
                                          !.fresh = TRUE]
        /\ known' = [known EXCEPT ![g].before = None, ![g].copy = None]
        /\ UNCHANGED <<world, signal, watchFile, holder, stage, mind, faults>>

\* The base url for the client; without a route state it stays empty.
ReadBase(g) ==
    LET proxied == route # None /\ route.status \in ProxyStates
    IN  /\ IF known[g].mode = "proxy" /\ route # None /\ ~proxied
           THEN Quit(g, "base", "failed")
           ELSE /\ Move(g, "base", IF known[g].mode = "proxy" THEN "spawn" ELSE "check")
                /\ known' = [known EXCEPT ![g].based = proxied]
        /\ UNCHANGED routeVars

CheckOfficial(g) ==
    /\ Quit(g, "check", IF RouteReady(g, FALSE) THEN "opened" ELSE "failed")
    /\ UNCHANGED routeVars

-----------------------------------------------------------------------------
(* The watch, and waiting for it. *)

SpawnWatch(g) ==
    /\ Move(g, "spawn", "note")
    /\ stage' = [stage EXCEPT ![Watch(g)] = "start"]
    /\ UNCHANGED <<world, files, holder, mind, faults, known>>

\* The gate writes the watch state file too, before or after the watch does.
NoteWatch(g) ==
    /\ Move(g, "note", "wait")
    /\ watchFile' = Watch(g)
    /\ UNCHANGED <<world, route, signal, holder, stage, mind, faults, known>>

NoteWatchFails(g) ==
    /\ Quit(g, "note", "failed")
    /\ KillWatches({Watch(g)} \cap Watchers)
    /\ UNCHANGED watchFile

WaitSucceeds(g) ==
    /\ Ready(g)
    /\ Move(g, "wait", "confirm")
    /\ UNCHANGED <<routeVars, known>>

\* Mistake: the deadline is looked at only while the services are up.
WaitTimesOutServed(g) ==
    /\ ServicesReady(g) /\ ~Ready(g)
    /\ Quit(g, "wait", "failed")
    /\ UNCHANGED routeVars

\* ReadinessTimeoutSeconds have passed.  The watch is left running.
WaitTimesOut(g) ==
    /\ ~Ready(g)
    /\ Quit(g, "wait", "failed")
    /\ UNCHANGED routeVars

\* A watch that was kept is tested again at once, a new one until 20 seconds
\* have passed.
Confirmed(g) == IF known[g].reuses THEN ReusableWatch(g) ELSE RouteReady(g, TRUE)

Confirm(g) ==
    /\ Confirmed(g)
    /\ Quit(g, "confirm", "opened")
    /\ UNCHANGED routeVars

\* A gate that gives up on its own watch stops the watches there are.
ConfirmFails(g) ==
    /\ ~Confirmed(g)
    /\ Quit(g, "confirm", "failed")
    /\ IF known[g].reuses THEN UNCHANGED routeVars ELSE StopWatches

GateStep(g) ==
    \/ Reuse(g) \/ StopWatch(g) \/ RemoveEvidence(g) \/ RunOnce(g) \/ Await(g)
    \/ Refresh(g) \/ ReadBase(g) \/ CheckOfficial(g) \/ SpawnWatch(g) \/ NoteWatch(g)
    \/ WaitSucceeds(g) \/ WaitTimesOut(g) \/ Confirm(g) \/ ConfirmFails(g)

-----------------------------------------------------------------------------
Next ==
    \/ \E g \in Gates : Begin(g) \/ GateStep(g) \/ StopWatchFails(g) \/ NoteWatchFails(g)
    \/ \E k \in Keepers : (KeeperStep(k) \/ KeeperFault(k)) /\ UNCHANGED gateVars
    \/ Environment /\ UNCHANGED gateVars

\* Processes run; a watch that keeps ticking sees its 20 seconds pass.  No
\* fairness for launches, faults and the world around.
Fairness ==
    /\ \A g \in Gates : WF_vars(GateStep(g))
    /\ \A k \in Keepers : WF_vars(KeeperStep(k) /\ UNCHANGED gateVars)
    /\ \A k \in Keepers : SF_vars(Decide(k, TRUE) /\ UNCHANGED gateVars)

Spec == Init /\ [][Next]_vars /\ Fairness

-----------------------------------------------------------------------------
(* Properties. *)

\* Every variable has its type; codexpp-route-keeper.ps1 and the files of it.
TypeOK ==
    /\ config \in Configs /\ relay \in Relays /\ health \in Healths
    /\ route \in RouteStates \cup {None}
    /\ signal \in {"none", "fresh", "old"}
    /\ watchFile \in Keepers \cup {None} /\ holder \in Keepers \cup {None}
    /\ stage \in [Keepers -> {"off", "start"} \cup Working \cup Ends]
    /\ seen \in [Keepers -> [hash : Hashes, contract : Contracts \cup {None}]]
    /\ own \in [Keepers -> [relay : Relays, text : Contracts \cup {None}, hash : Hashes,
                            contract : Contracts \cup {None}, health : Healths]]
    /\ lastHash \in [Keepers -> Hashes]
    /\ asked \in [Keepers -> {"official", "proxy"}]
    /\ edits \in 0 .. MaxEdits /\ switches \in 0 .. MaxSwitches /\ faults \in 0 .. MaxFaults
    /\ allows \in [Gates -> BOOLEAN]
    /\ gate \in [Gates -> GateStages] /\ known \in [Gates -> Memory]

\* A route state that names a running keeper was written by the holder of the
\* mutex, whoever may have written it back or taken over a dead keeper's
\* mutex since: a gate identifies the keeper by process alone.
RouteNamesHolder ==
    route # None /\ Alive(route.keeper) => holder = route.keeper

\* Once the configuration, the profile and the gateway stay good, the watch
\* publishes "ready" for the very file there is, and nothing takes it back; once
\* the configuration cannot be read or the profile is invalid, it closes the
\* route for good.
WatchConverges ==
    \A g \in Gates :
        /\ <>[](holder = Watch(g) /\ relay = "proxy" /\ health = "ready"
                /\ config.contract \in Responses)
           => <>[](route # None /\ route.status = "ready" /\ route.keeper = Watch(g)
                   /\ route.hash = config /\ route.contract = config.contract)
        /\ <>[](holder = Watch(g) /\ (relay = "invalid" \/ config = Broken))
           => <>[](route # None /\ route.status = "failed")

\* A launch never hangs: every gate that begins opens or fails.
GateEnds == \A g \in Gates : gate[g] # "idle" ~> GateEnded(g)

=============================================================================
