---------------------------- MODULE RouteKeeper ----------------------------
(***************************************************************************)
(* The route keeper: codexpp-route-keeper.ps1.                             *)
(*                                                                         *)
(* A keeper runs once, or watches.  It holds a machine-wide mutex, reads   *)
(* the configuration, the active profile and the health of the gateway,    *)
(* and publishes what it found in the route state file, which startup      *)
(* gates (StartupGate) and the monitor read.  The three are read one after *)
(* the other, and the configuration several times, while a user edits it.  *)
(*                                                                         *)
(* A configuration is its protected contract (provider, base url, wire     *)
(* api, authentication) with a revision of everything else; its hash is    *)
(* the pair.  All contracts are of one provider.                           *)
(***************************************************************************)
EXTENDS Naturals, FiniteSets

CONSTANTS
    Gates,          \* startup gates; each may start a keeper of each kind
    Contracts,      \* protected contracts
    Responses,      \* those whose wire_api is "responses"
    Local,          \* those whose base_url is the proxy's
    Revisions,      \* what else the configuration says
    None,           \* no process, no file, no contract
    StartRelays,    \* what the active profile may ask for at the start
    StartHealths,   \* what the gateway may say at the start
    MaxEdits,       \* bound: changes of the configuration
    MaxSwitches,    \* bound: changes of the profile and of the health
    MaxFaults,      \* bound: failed writes of keepers, keepers that end or die
    MaxEvents       \* bound: all of these together

ASSUME RouteAssumption ==
    /\ Responses \subseteq Contracts /\ Local \subseteq Contracts
    /\ None \notin Contracts /\ None \notin Gates \X {"once", "watch"}
    /\ StartRelays \subseteq {"official", "proxy"}
    /\ StartHealths \subseteq {"ready", "pending"}
    /\ MaxEdits \in Nat /\ MaxSwitches \in Nat /\ MaxFaults \in Nat /\ MaxEvents \in Nat

Keepers == Gates \X {"once", "watch"}
Watches(k) == k[2] = "watch"

Readable == [contract : Contracts, revision : Revisions]
Broken   == [contract |-> None, revision |-> None]
Configs  == Readable \cup {Broken}
Hashes   == Configs \cup {None}
Relays   == {"official", "proxy", "invalid"}
Healths  == {"ready", "pending", "down"}
Statuses == {"ready", "pending", "official-bypass", "failed"}

VARIABLES
    config,     \* config.toml
    relay,      \* what the active profile of settings.json asks for
    health,     \* what /livez and /health of the gateway say
    route,      \* the route state file, or None
    signal,     \* the ready signal file: "none", "fresh" or "old"
    watchFile,  \* the keeper named by the watch state file, or None
    holder,     \* who holds the mutex, or None
    stage,      \* keeper -> where it is, or how it ended
    seen,       \* keeper -> the snapshot of its tick
    own,        \* keeper -> what Ensure-RouteOnce has read
    lastHash,   \* keeper -> hash of the last tick that succeeded
    asked,      \* keeper -> its -Mode
    allows,     \* gate -> -AllowRelayPending, passed on to its keepers
    edits,      \* how many changes of the configuration there were
    switches,   \* how many changes of profile and health
    faults      \* how many faults there were

files == <<route, signal, watchFile>>
world == <<config, relay, health, edits, switches>>
mind  == <<seen, own, lastHash, asked, allows>>
routeVars == <<world, files, holder, stage, mind, faults>>

Ends    == {"ok", "failed", "busy", "killed"}
Idle    == {"off"} \cup Ends
Alive(k) == stage[k] \notin Idle
Working == {"register", "tick", "contract", "decide", "beat", "ask", "hash",
            "protected", "publish", "signal", "close"}

NothingSeen == [hash |-> None, contract |-> None]
NothingRead == [relay |-> "invalid", text |-> None, hash |-> None,
                contract |-> None, health |-> "down"]

RouteStates ==
    [status : Statuses, hash : Hashes, contract : Contracts \cup {None},
     keeper : Keepers, fresh : BOOLEAN]

KeeperInit ==
    /\ config \in Readable
    /\ relay \in StartRelays
    /\ health \in StartHealths
    /\ route = None /\ signal = "none" /\ watchFile = None
    /\ holder = None
    /\ stage = [k \in Keepers |-> "off"]
    /\ seen = [k \in Keepers |-> NothingSeen]
    /\ own = [k \in Keepers |-> NothingRead]
    /\ lastHash = [k \in Keepers |-> None]
    /\ asked = [k \in Keepers |-> "proxy"]
    /\ edits = 0 /\ switches = 0 /\ faults = 0

Goto(k, from, to) ==
    /\ stage[k] = from
    /\ stage' = [stage EXCEPT ![k] = to]

\* A process that ends gives the mutex up, abandoned or released.
End(k, from, end) ==
    /\ Goto(k, from, end)
    /\ holder' = IF holder = k THEN None ELSE holder

\* What a process held in memory goes with it.
Forget(ks) ==
    /\ seen' = [k \in Keepers |-> IF k \in ks THEN NothingSeen ELSE seen[k]]
    /\ own' = [k \in Keepers |-> IF k \in ks THEN NothingRead ELSE own[k]]
    /\ lastHash' = [k \in Keepers |-> IF k \in ks THEN None ELSE lastHash[k]]

-----------------------------------------------------------------------------
(* Start and mutex. *)

\* WaitOne(0): no waiting.
Acquire(k) ==
    /\ holder = None
    /\ Goto(k, "start", IF Watches(k) THEN "register" ELSE "ask")
    /\ holder' = k
    /\ UNCHANGED <<world, files, mind, faults>>

FindBusy(k) ==
    /\ holder # None
    /\ End(k, "start", "busy")
    /\ UNCHANGED <<world, files, mind, faults>>

\* Write-WatchState
Register(k) ==
    /\ Goto(k, "register", "tick")
    /\ watchFile' = k
    /\ UNCHANGED <<world, route, signal, holder, mind, faults>>

-----------------------------------------------------------------------------
(* One tick of the watch. *)

\* Get-ConfigSnapshot reads the file three times.  Its first reading counts
\* here only when it fails, so it is taken with the second, of the hash.
Sample(k) ==
    /\ IF config.contract = None
       THEN Goto(k, "tick", "close") /\ UNCHANGED seen
       ELSE Goto(k, "tick", "contract") /\ seen' = [seen EXCEPT ![k].hash = config]
    /\ UNCHANGED <<world, files, holder, own, lastHash, asked, allows, faults>>

SampleContract(k) ==
    /\ Goto(k, "contract", IF config.contract = None THEN "close" ELSE "decide")
    /\ seen' = [seen EXCEPT ![k].contract = config.contract]
    /\ UNCHANGED <<world, files, holder, own, lastHash, asked, allows, faults>>

\* The conditions of Write-RouteHeartbeat.
OwnVerdict(k) ==
    /\ route # None
    /\ route.status = "ready"
    /\ route.keeper = k
    /\ route.contract = seen[k].contract

\* Test-RouteStateProtectedContract is not false.
ContractStands(k) ==
    route # None => route.contract \in {None, seen[k].contract}

\* Test-ReadyStateForWatch
StillReady ==
    route # None /\ route.status \in {"ready", "official-bypass"} /\ route.fresh

\* What the tick turns to.  Every watch is started with -Mode proxy, so the
\* mode it compares with the last one changes only on its first tick.
Turn(k, due) ==
    LET changed == seen[k].hash # lastHash[k]
    IN  IF relay = "invalid" \/ (changed /\ ~ContractStands(k)) THEN "close"
        ELSE IF ~changed /\ StillReady /\ ~due                  THEN "tick"
        ELSE IF OwnVerdict(k) /\ lastHash[k] # None /\ (changed \/ StillReady)
             THEN "beat"
        ELSE "ask"

\* due: 20 seconds have passed since the last heartbeat.
Decide(k, due) ==
    /\ Goto(k, "decide", Turn(k, due))
    /\ seen' = IF Turn(k, due) = "tick" THEN [seen EXCEPT ![k] = NothingSeen] ELSE seen
    /\ UNCHANGED <<world, files, holder, own, lastHash, asked, allows, faults>>

Publish(k, status, hash, contract) ==
    route' = [status |-> status, hash |-> hash, contract |-> contract,
              keeper |-> k, fresh |-> TRUE]

Succeed(k) ==
    /\ seen' = [seen EXCEPT ![k] = NothingSeen]
    /\ own' = [own EXCEPT ![k] = NothingRead]
    /\ lastHash' = [lastHash EXCEPT ![k] = seen[k].hash]

\* Mistake: only the time is renewed.
BeatTimeOnly(k) ==
    /\ route' = IF route = None THEN None ELSE [route EXCEPT !.fresh = TRUE]
    /\ IF seen[k].hash # lastHash[k]
       THEN Goto(k, "beat", "signal") /\ UNCHANGED <<seen, own, lastHash>>
       ELSE Goto(k, "beat", "tick") /\ Succeed(k)
    /\ UNCHANGED <<world, signal, watchFile, holder, asked, allows, faults>>

\* Write-RouteHeartbeat: the verdict stands, its time and its hash are
\* renewed.  Only after a change the ready signal is renewed with it.
Beat(k) ==
    /\ Publish(k, "ready", seen[k].hash, seen[k].contract)
    /\ IF seen[k].hash # lastHash[k]
       THEN Goto(k, "beat", "signal") /\ UNCHANGED <<seen, own, lastHash>>
       ELSE Goto(k, "beat", "tick") /\ Succeed(k)
    /\ UNCHANGED <<world, signal, watchFile, holder, asked, allows, faults>>

-----------------------------------------------------------------------------
(* Ensure-RouteOnce. *)

\* A watch follows the profile, a single run insists on its mode.
Fits(k) == relay # "invalid" /\ (Watches(k) \/ relay = asked[k])

\* The profile and the first reading of the configuration.
Ask(k) ==
    /\ IF Fits(k) /\ config.contract # None
       THEN /\ Goto(k, "ask", "hash")
            /\ own' = [own EXCEPT ![k].relay = relay, ![k].text = config.contract]
       ELSE Goto(k, "ask", "close") /\ UNCHANGED own
    /\ UNCHANGED <<world, files, holder, seen, lastHash, asked, allows, faults>>

AskHash(k) ==
    /\ Goto(k, "hash", "protected")
    /\ own' = [own EXCEPT ![k].hash = config]
    /\ UNCHANGED <<world, files, holder, seen, lastHash, asked, allows, faults>>

\* The third reading, and the health of the gateway.
AskProtected(k) ==
    /\ Goto(k, "protected", IF config.contract = None THEN "close" ELSE "publish")
    /\ own' = [own EXCEPT ![k].contract = config.contract, ![k].health = health]
    /\ UNCHANGED <<world, files, holder, seen, lastHash, asked, allows, faults>>

\* The status that what was read deserves: "failed" if it deserves none.
Verdict(k) ==
    LET read == own[k]
    IN  IF read.relay = "official"
        THEN IF read.text \in Local THEN "failed" ELSE "official-bypass"
        ELSE IF read.text \notin Responses THEN "failed"
        ELSE IF read.health = "ready" THEN "ready"
        ELSE IF read.health = "pending" /\ allows[k[1]] THEN "pending"
        ELSE "failed"

PublishVerdict(k) ==
    /\ IF Verdict(k) = "failed"
       THEN Goto(k, "publish", "close") /\ UNCHANGED route
       ELSE /\ Goto(k, "publish", "signal")
            /\ Publish(k, Verdict(k), own[k].hash, own[k].contract)
    /\ UNCHANGED <<world, signal, watchFile, holder, mind, faults>>

\* Mistake: the mutex is held for one verdict, not for the life of the watch.
SignalReleases(k) ==
    /\ signal' = "fresh"
    /\ Succeed(k)
    /\ Goto(k, "signal", IF Watches(k) THEN "tick" ELSE "ok")
    /\ holder' = None
    /\ UNCHANGED <<world, route, watchFile, asked, allows, faults>>

\* Write-ReadySignal, after which a single run is done.
Signal(k) ==
    /\ signal' = "fresh"
    /\ Succeed(k)
    /\ IF Watches(k) THEN Goto(k, "signal", "tick") /\ UNCHANGED holder
                     ELSE End(k, "signal", "ok")
    /\ UNCHANGED <<world, route, watchFile, asked, allows, faults>>

\* Any failure: the route is closed.  What a single run or Ensure-RouteOnce
\* wrote of it a moment before is not told apart from this last word.
Close(k) ==
    /\ Publish(k, "failed", None, None)
    /\ IF Watches(k) THEN Goto(k, "close", "tick") /\ UNCHANGED holder
                     ELSE End(k, "close", "failed")
    /\ seen' = [seen EXCEPT ![k] = NothingSeen]
    /\ own' = [own EXCEPT ![k] = NothingRead]
    /\ UNCHANGED <<world, signal, watchFile, lastHash, asked, allows, faults>>

-----------------------------------------------------------------------------
(* Faults and ends. *)

Eventful == edits + switches + faults < MaxEvents

Fault ==
    /\ faults < MaxFaults /\ Eventful
    /\ faults' = faults + 1

\* A file cannot be written.  If it is the word of failure, the keeper ends.
WriteFails(k) ==
    /\ Fault
    /\ \/ /\ \E s \in {"beat", "publish", "signal"} : Goto(k, s, "close")
          /\ UNCHANGED <<holder, seen, own, lastHash>>
       \/ (End(k, "close", "failed") \/ End(k, "register", "failed")) /\ Forget({k})
    /\ UNCHANGED <<world, files, asked, allows>>

\* No client has been running for a day.
Retire(k) ==
    /\ Watches(k)
    /\ Fault
    /\ End(k, "tick", "ok")
    /\ Forget({k})
    /\ UNCHANGED <<world, files, asked, allows>>

\* The process is killed from outside.
Die(k) ==
    /\ Fault
    /\ Alive(k)
    /\ End(k, stage[k], "killed")
    /\ Forget({k})
    /\ UNCHANGED <<world, files, asked, allows>>

KeeperStep(k) ==
    \/ Acquire(k) \/ FindBusy(k) \/ Register(k)
    \/ Sample(k) \/ SampleContract(k) \/ (\E due \in BOOLEAN : Decide(k, due)) \/ Beat(k)
    \/ Ask(k) \/ AskHash(k) \/ AskProtected(k) \/ PublishVerdict(k) \/ Signal(k) \/ Close(k)

KeeperFault(k) == WriteFails(k) \/ Retire(k) \/ Die(k)

-----------------------------------------------------------------------------
(* The world around. *)

\* The user or the manager rewrites config.toml, or breaks it.
EditConfig ==
    /\ edits < MaxEdits /\ Eventful
    /\ edits' = edits + 1
    /\ \E c \in Configs \ {config} : config' = c
    /\ UNCHANGED <<relay, health, switches, files, holder, stage, mind, faults>>

Switch ==
    /\ switches < MaxSwitches /\ Eventful
    /\ switches' = switches + 1
    /\ UNCHANGED <<config, edits, files, holder, stage, mind, faults>>

SwitchProfile ==
    /\ \E r \in Relays \ {relay} : relay' = r
    /\ UNCHANGED health
    /\ Switch

ChangeHealth ==
    /\ \E h \in Healths \ {health} : health' = h
    /\ UNCHANGED relay
    /\ Switch

\* More than 90 seconds pass: what the files say is old.
Elapse ==
    /\ signal = "fresh" \/ (route # None /\ route.fresh)
    /\ signal' = IF signal = "fresh" THEN "old" ELSE signal
    /\ route' = IF route = None THEN None ELSE [route EXCEPT !.fresh = FALSE]
    /\ UNCHANGED <<world, watchFile, holder, stage, mind, faults>>

Environment == EditConfig \/ SwitchProfile \/ ChangeHealth \/ Elapse

=============================================================================
