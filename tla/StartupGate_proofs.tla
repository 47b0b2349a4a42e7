------------------------- MODULE StartupGate_proofs -------------------------
(***************************************************************************)
(* A route state that names a running keeper names the holder of the mutex *)
(* (RouteNamesHolder), for any number of gates, contracts and revisions.   *)
(*                                                                         *)
(* First the types, then what one step of a keeper can do to its stage,    *)
(* the mutex and the route state, then the inductive invariant.            *)
(***************************************************************************)
EXTENDS StartupGate, TLAPS

StageNames == {"off", "start"} \cup Working \cup Ends
Snapshots  == [hash : Hashes, contract : Contracts \cup {None}]
Readings   == [relay : Relays, text : Contracts \cup {None}, hash : Hashes,
               contract : Contracts \cup {None}, health : Healths]

(* The parts of the type invariant that one kind of step disturbs. *)
WorldOK ==
    /\ config \in Configs /\ relay \in Relays /\ health \in Healths
    /\ edits \in 0 .. MaxEdits /\ switches \in 0 .. MaxSwitches
FaultsOK == faults \in 0 .. MaxFaults
FilesOK ==
    /\ route \in RouteStates \cup {None}
    /\ signal \in {"none", "fresh", "old"}
    /\ watchFile \in Keepers \cup {None}
StageOK ==
    /\ holder \in Keepers \cup {None}
    /\ stage \in [Keepers -> StageNames]
MindOK ==
    /\ seen \in [Keepers -> Snapshots]
    /\ own \in [Keepers -> Readings]
    /\ lastHash \in [Keepers -> Hashes]
ModesOK ==
    /\ asked \in [Keepers -> {"official", "proxy"}]
    /\ allows \in [Gates -> BOOLEAN]
GatesOK == gate \in [Gates -> GateStages] /\ known \in [Gates -> Memory]

\* What a gate is about to write back is a route state, of a configuration.
CopyKept ==
    \A g \in Gates : gate[g] = "refresh" =>
        known[g].before \in Configs /\ known[g].copy \in RouteStates

TypeInv ==
    /\ WorldOK /\ FaultsOK /\ FilesOK /\ StageOK /\ MindOK /\ ModesOK /\ GatesOK
    /\ CopyKept

\* The type invariant is the conjunction of its parts.
LEMMA TypeParts == TypeInv => TypeOK
  BY DEF TypeInv, TypeOK, WorldOK, FaultsOK, FilesOK, StageOK, MindOK, ModesOK, GatesOK,
         StageNames, Snapshots, Readings

\* Every gate has its two keepers, and no keeper is None.
LEMMA KeeperKinds ==
    /\ \A g \in Gates : Once(g) \in Keepers /\ Watch(g) \in Keepers
    /\ \A k \in Keepers : k[1] \in Gates
    /\ None \notin Keepers
  BY RouteAssumption DEF Keepers, Once, Watch

\* A configuration is a hash, and its contract a contract.
LEMMA Hashing ==
    /\ Configs \subseteq Hashes /\ None \in Hashes
    /\ \A c \in Configs : c.contract \in Contracts \cup {None}
  BY DEF Configs, Readable, Broken, Hashes

\* A keeper that has seen nothing is typed.
LEMMA Blank == NothingSeen \in Snapshots /\ NothingRead \in Readings
  BY DEF NothingSeen, NothingRead, Snapshots, Readings, Hashes, Relays, Healths

\* The types at the start.
LEMMA TypeInit == Init => TypeInv
<1> SUFFICES ASSUME Init PROVE TypeInv
  OBVIOUS
<1> USE DEF Init, KeeperInit
<1>1. WorldOK /\ FaultsOK
  BY RouteAssumption DEF WorldOK, FaultsOK, Configs, Relays, Healths
<1>2. FilesOK /\ StageOK
  BY DEF FilesOK, StageOK, StageNames
<1>3. MindOK
  BY Blank, Hashing DEF MindOK
<1>4. ModesOK
  BY DEF ModesOK
<1>5. GatesOK /\ CopyKept
  BY Hashing DEF GatesOK, CopyKept, GateStages, Memory, NothingKnown
<1> QED BY <1>1, <1>2, <1>3, <1>4, <1>5 DEF TypeInv

-----------------------------------------------------------------------------
(* One step of a keeper. *)

\* What a keeper leaves alone.
LEMMA KeeperFrame ==
  ASSUME NEW k \in Keepers, KeeperStep(k)
  PROVE  UNCHANGED <<world, asked, allows, faults>>
<1> USE DEF world, mind
<1>1. CASE Acquire(k)
  BY <1>1 DEF Acquire
<1>2. CASE FindBusy(k)
  BY <1>2 DEF FindBusy
<1>3. CASE Register(k)
  BY <1>3 DEF Register
<1>4. CASE Sample(k)
  BY <1>4 DEF Sample
<1>5. CASE SampleContract(k)
  BY <1>5 DEF SampleContract
<1>6. CASE \E due \in BOOLEAN : Decide(k, due)
  BY <1>6 DEF Decide
<1>7. CASE Beat(k)
  BY <1>7 DEF Beat
<1>8. CASE Ask(k)
  BY <1>8 DEF Ask
<1>9. CASE AskHash(k)
  BY <1>9 DEF AskHash
<1>10. CASE AskProtected(k)
  BY <1>10 DEF AskProtected
<1>11. CASE PublishVerdict(k)
  BY <1>11 DEF PublishVerdict
<1>12. CASE Signal(k)
  BY <1>12 DEF Signal
<1>13. CASE Close(k)
  BY <1>13 DEF Close
<1> QED BY <1>1, <1>2, <1>3, <1>4, <1>5, <1>6, <1>7, <1>8, <1>9, <1>10, <1>11, <1>12, <1>13
        DEF KeeperStep

(* The stage, the mutex and the route state. *)
Publishes(k) == route' \in RouteStates /\ route'.keeper = k

Enters(k) ==
    /\ stage[k] = "start" /\ holder = None
    /\ \E to \in Working : stage' = [stage EXCEPT ![k] = to]
    /\ holder' = k /\ route' = route

Works(k) ==
    /\ stage[k] \in Working
    /\ \E to \in Working : stage' = [stage EXCEPT ![k] = to]
    /\ holder' = holder
    /\ route' = route \/ Publishes(k)

Leaves(k) ==
    /\ Alive(k)
    /\ \E to \in Ends : stage' = [stage EXCEPT ![k] = to]
    /\ holder' = IF holder = k THEN None ELSE holder
    /\ route' = route \/ (Publishes(k) /\ stage[k] \in Working)

Moves(k) == Enters(k) \/ Works(k) \/ Leaves(k)

\* What a keeper publishes is a state of the route.
LEMMA Publishing ==
  ASSUME NEW k \in Keepers, NEW status \in Statuses, NEW hash \in Hashes,
         NEW contract \in Contracts \cup {None}, Publish(k, status, hash, contract)
  PROVE  Publishes(k)
  BY DEF Publish, Publishes, RouteStates

\* Its verdict is a status.
LEMMA VerdictStatus == \A k \in Keepers : Verdict(k) \in Statuses
  BY DEF Verdict, Statuses

\* A keeper's step moves it from one stage to another.
LEMMA KeeperMoves ==
  ASSUME WorldOK, MindOK, StageOK, NEW k \in Keepers, KeeperStep(k)
  PROVE  Moves(k)
<1> USE DEF Moves, Goto, End, files
<1>0. /\ stage \in [Keepers -> StageNames] /\ stage[k] \in StageNames
      /\ seen[k].hash \in Hashes /\ seen[k].contract \in Contracts \cup {None}
      /\ own[k].hash \in Hashes /\ own[k].contract \in Contracts \cup {None}
  BY DEF StageOK, MindOK, Snapshots, Readings
<1>1. CASE Acquire(k)
  BY <1>1 DEF Acquire, Enters, Working
<1>2. CASE FindBusy(k)
  BY <1>2 DEF FindBusy, Leaves, Alive, Idle, Ends
<1>3. CASE Register(k)
  BY <1>3 DEF Register, Works, Working
<1>4. CASE Sample(k)
  BY <1>4 DEF Sample, Works, Working
<1>5. CASE SampleContract(k)
  BY <1>5 DEF SampleContract, Works, Working
<1>6. CASE \E due \in BOOLEAN : Decide(k, due)
  <2>1. PICK due \in BOOLEAN : Decide(k, due)
    BY <1>6
  <2>2. Turn(k, due) \in Working
    BY DEF Turn, Working
  <2> QED BY <2>1, <2>2 DEF Decide, Works, Working
<1>7. CASE Beat(k)
  <2>1. Publishes(k)
    BY <1>0, <1>7, Publishing DEF Beat, Statuses
  <2>2. stage[k] = "beat" /\ \E to \in Working : stage' = [stage EXCEPT ![k] = to]
    BY <1>7 DEF Beat, Working
  <2> QED BY <1>7, <2>1, <2>2 DEF Beat, Works, Working
<1>8. CASE Ask(k)
  BY <1>8 DEF Ask, Works, Working
<1>9. CASE AskHash(k)
  BY <1>9 DEF AskHash, Works, Working
<1>10. CASE AskProtected(k)
  BY <1>10 DEF AskProtected, Works, Working
<1>11. CASE PublishVerdict(k)
  <2>1. route' = route \/ Publishes(k)
    BY <1>0, <1>11, VerdictStatus, Publishing DEF PublishVerdict
  <2>2. stage[k] = "publish" /\ \E to \in Working : stage' = [stage EXCEPT ![k] = to]
    BY <1>11 DEF PublishVerdict, Working
  <2> QED BY <1>11, <2>1, <2>2 DEF PublishVerdict, Works, Working
<1>12. CASE Signal(k)
  BY <1>12 DEF Signal, Works, Leaves, Alive, Idle, Ends, Working
<1>13. CASE Close(k)
  <2>1. Publishes(k)
    BY <1>13, Publishing, Hashing DEF Close, Statuses
  <2>2. CASE Watches(k)
    BY <1>13, <2>1, <2>2 DEF Close, Works, Working
  <2>3. CASE ~Watches(k)
    BY <1>13, <2>1, <2>3 DEF Close, Leaves, Alive, Idle, Ends, Working
  <2> QED BY <2>2, <2>3
<1> QED BY <1>1, <1>2, <1>3, <1>4, <1>5, <1>6, <1>7, <1>8, <1>9, <1>10, <1>11, <1>12, <1>13
        DEF KeeperStep

\* So does a fault that ends it.
LEMMA FaultMoves ==
  ASSUME StageOK, NEW k \in Keepers, KeeperFault(k)
  PROVE  Moves(k)
<1> USE DEF Moves, Goto, End, files, Alive, Idle, Ends, Working
<1>1. CASE WriteFails(k)
  BY <1>1 DEF WriteFails, Works, Leaves
<1>2. CASE Retire(k)
  BY <1>2 DEF Retire, Leaves
<1>3. CASE Die(k)
  BY <1>3 DEF Die, Leaves
<1> QED BY <1>1, <1>2, <1>3 DEF KeeperFault

\* Such a move keeps the stages and the route typed.
LEMMA MovesType ==
  ASSUME StageOK, NEW k \in Keepers, Moves(k)
  PROVE  StageOK' /\ (route \in RouteStates \cup {None} => route' \in RouteStates \cup {None})
  BY DEF StageOK, StageNames, Moves, Enters, Works, Leaves, Publishes

(* The files, and what the keepers hold in memory. *)
LEMMA KeeperFiles ==
  ASSUME FilesOK, NEW k \in Keepers, KeeperStep(k)
  PROVE  signal' \in {"none", "fresh", "old"} /\ watchFile' \in Keepers \cup {None}
<1> USE DEF FilesOK, files
<1>1. CASE Acquire(k)
  BY <1>1 DEF Acquire
<1>2. CASE FindBusy(k)
  BY <1>2 DEF FindBusy
<1>3. CASE Register(k)
  BY <1>3 DEF Register
<1>4. CASE Sample(k)
  BY <1>4 DEF Sample
<1>5. CASE SampleContract(k)
  BY <1>5 DEF SampleContract
<1>6. CASE \E due \in BOOLEAN : Decide(k, due)
  BY <1>6 DEF Decide
<1>7. CASE Beat(k)
  BY <1>7 DEF Beat
<1>8. CASE Ask(k)
  BY <1>8 DEF Ask
<1>9. CASE AskHash(k)
  BY <1>9 DEF AskHash
<1>10. CASE AskProtected(k)
  BY <1>10 DEF AskProtected
<1>11. CASE PublishVerdict(k)
  BY <1>11 DEF PublishVerdict
<1>12. CASE Signal(k)
  BY <1>12 DEF Signal
<1>13. CASE Close(k)
  BY <1>13 DEF Close
<1> QED BY <1>1, <1>2, <1>3, <1>4, <1>5, <1>6, <1>7, <1>8, <1>9, <1>10, <1>11, <1>12, <1>13
        DEF KeeperStep

\* A success that is noted keeps the minds typed.
LEMMA Succeeding ==
  ASSUME MindOK, NEW k \in Keepers, Succeed(k)
  PROVE  MindOK'
<1>1. seen[k].hash \in Hashes
  BY DEF MindOK, Snapshots
<1> QED BY <1>1, Blank DEF MindOK, Succeed

\* So does forgetting.
LEMMA Forgetting ==
  ASSUME MindOK, NEW ks, Forget(ks)
  PROVE  MindOK'
  BY Blank, Hashing DEF MindOK, Forget

\* So does every step of a keeper.
LEMMA KeeperMind ==
  ASSUME WorldOK, MindOK, NEW k \in Keepers, KeeperStep(k)
  PROVE  MindOK'
<1> USE DEF mind
<1>0. /\ config \in Hashes /\ config.contract \in Contracts \cup {None}
      /\ relay \in Relays /\ health \in Healths
      /\ seen[k] \in Snapshots /\ own[k] \in Readings
  BY Hashing DEF WorldOK, MindOK
<1>1. CASE Acquire(k)
  BY <1>1 DEF Acquire, MindOK
<1>2. CASE FindBusy(k)
  BY <1>2 DEF FindBusy, MindOK
<1>3. CASE Register(k)
  BY <1>3 DEF Register, MindOK
<1>4. CASE Sample(k)
  <2>1. [seen[k] EXCEPT !.hash = config] \in Snapshots
    BY <1>0 DEF Snapshots
  <2>2. seen' = seen \/ seen' = [seen EXCEPT ![k] = [seen[k] EXCEPT !.hash = config]]
    BY <1>4 DEF Sample
  <2> QED BY <1>4, <2>1, <2>2 DEF Sample, MindOK
<1>5. CASE SampleContract(k)
  <2>1. [seen[k] EXCEPT !.contract = config.contract] \in Snapshots
    BY <1>0 DEF Snapshots
  <2>2. seen' = [seen EXCEPT ![k] = [seen[k] EXCEPT !.contract = config.contract]]
    BY <1>5 DEF SampleContract
  <2> QED BY <1>5, <2>1, <2>2 DEF SampleContract, MindOK
<1>6. CASE \E due \in BOOLEAN : Decide(k, due)
  BY <1>6, Blank DEF Decide, MindOK
<1>7. CASE Beat(k)
  BY <1>7, Succeeding DEF Beat, MindOK
<1>8. CASE Ask(k)
  <2> DEFINE read == [own[k] EXCEPT !.relay = relay, !.text = config.contract]
  <2>1. read \in Readings
    BY <1>0 DEF Readings
  <2>2. own' = own \/ own' = [own EXCEPT ![k] = read]
    BY <1>0, <1>8 DEF Ask, MindOK, Readings
  <2> QED BY <1>8, <2>1, <2>2 DEF Ask, MindOK
<1>9. CASE AskHash(k)
  <2>1. [own[k] EXCEPT !.hash = config] \in Readings
    BY <1>0 DEF Readings
  <2>2. own' = [own EXCEPT ![k] = [own[k] EXCEPT !.hash = config]]
    BY <1>9 DEF AskHash
  <2> QED BY <1>9, <2>1, <2>2 DEF AskHash, MindOK
<1>10. CASE AskProtected(k)
  <2> DEFINE read == [own[k] EXCEPT !.contract = config.contract, !.health = health]
  <2>1. read \in Readings
    BY <1>0 DEF Readings
  <2>2. own' = [own EXCEPT ![k] = read]
    BY <1>0, <1>10 DEF AskProtected, MindOK, Readings
  <2> QED BY <1>10, <2>1, <2>2 DEF AskProtected, MindOK
<1>11. CASE PublishVerdict(k)
  BY <1>11 DEF PublishVerdict, MindOK
<1>12. CASE Signal(k)
  BY <1>12, Succeeding DEF Signal
<1>13. CASE Close(k)
  BY <1>13, Blank DEF Close, MindOK
<1> QED BY <1>1, <1>2, <1>3, <1>4, <1>5, <1>6, <1>7, <1>8, <1>9, <1>10, <1>11, <1>12, <1>13
        DEF KeeperStep

-----------------------------------------------------------------------------
(* One step of a gate. *)

BeforeRun   == {"idle", "reuse", "stop", "replace", "remove", "run"}
BeforeSpawn == BeforeRun \cup {"await", "refresh", "base", "check", "spawn"}

\* A gate goes on, and takes a copy only of a route state that is there.
GoesOn(g, to, m) ==
    /\ gate' = [gate EXCEPT ![g] = to] /\ known' = [known EXCEPT ![g] = m]
    /\ to = "refresh" => m.before \in Configs /\ m.copy = route /\ route # None
    /\ to \in BeforeRun => gate[g] \in BeforeRun
    /\ to \in BeforeSpawn => gate[g] \in BeforeSpawn

GateMoves(g) == \E to \in GateStages, m \in Memory : GoesOn(g, to, m)

\* What a gate does to the keepers.
Governs(g) ==
    \/ UNCHANGED <<stage, holder, seen, own, lastHash>>
    \/ \E victims \in SUBSET Watchers : KillWatches(victims)
    \/ gate[g] = "run" /\ gate'[g] = "await" /\ stage' = [stage EXCEPT ![Once(g)] = "start"]
       /\ UNCHANGED <<holder, seen, own, lastHash>>
    \/ gate[g] = "spawn" /\ gate'[g] = "note" /\ stage' = [stage EXCEPT ![Watch(g)] = "start"]
       /\ UNCHANGED <<holder, seen, own, lastHash>>

\* What a gate does to the route state.
Rewrites(g) ==
    \/ route' = route \/ route' = None
    \/ gate[g] = "refresh" /\ route' \in RouteStates /\ route'.keeper = known[g].copy.keeper

GateAction(g) == Begin(g) \/ GateStep(g) \/ StopWatchFails(g) \/ NoteWatchFails(g)

\* A gate that goes on with what it knows moves.
LEMMA GoingOn ==
  ASSUME NEW g, NEW from, NEW to \in GateStages, NEW m \in Memory,
         Move(g, from, to), known' = [known EXCEPT ![g] = m],
         to = "refresh" => m.before \in Configs /\ m.copy = route /\ route # None,
         to \in BeforeRun => from \in BeforeRun, to \in BeforeSpawn => from \in BeforeSpawn
  PROVE  GateMoves(g)
  BY DEF Move, GateMoves, GoesOn

\* So does one that goes on with what it knew.
LEMMA GoingOnKnown ==
  ASSUME GatesOK, NEW g \in Gates, NEW from, NEW to \in GateStages \ {"refresh"},
         Move(g, from, to), UNCHANGED known,
         to \in BeforeRun => from \in BeforeRun, to \in BeforeSpawn => from \in BeforeSpawn
  PROVE  GateMoves(g)
<1>1. known[g] \in Memory /\ known' = [known EXCEPT ![g] = known[g]]
  BY DEF GatesOK
<1> QED BY <1>1, GoingOn

\* So does one that is through.
LEMMA Quitting ==
  ASSUME NEW g \in Gates, NEW from, NEW verdict \in {"opened", "failed"}, Quit(g, from, verdict)
  PROVE  GateMoves(g)
<1>1. NothingKnown \in Memory
  BY Hashing DEF NothingKnown, Memory
<1>2. /\ verdict \in GateStages /\ verdict # "refresh"
      /\ verdict \notin BeforeRun /\ verdict \notin BeforeSpawn
  BY DEF GateStages, BeforeRun, BeforeSpawn
<1> QED BY <1>1, <1>2, GoingOn DEF Quit

\* A gate that begins moves.
LEMMA BeginMoves ==
  ASSUME WorldOK, GatesOK, NEW g \in Gates, Begin(g)
  PROVE  GateMoves(g)
<1>1. CASE Move(g, "idle", "failed") /\ UNCHANGED known
  BY <1>1, GoingOnKnown DEF GateStages, BeforeRun, BeforeSpawn
<1>2. CASE /\ relay # "invalid"
           /\ \E to \in {"replace", "reuse", "stop"} : Move(g, "idle", to)
           /\ known' = [known EXCEPT ![g].mode = relay]
  <2> DEFINE m == [known[g] EXCEPT !.mode = relay]
  <2>1. PICK to \in {"replace", "reuse", "stop"} : Move(g, "idle", to)
    BY <1>2
  <2>2. known[g] \in Memory /\ relay \in {"official", "proxy"}
    BY <1>2 DEF GatesOK, WorldOK, Relays
  <2>3. m \in Memory
    BY <2>2 DEF Memory
  <2>4. known' = [known EXCEPT ![g] = m]
    BY <1>2
  <2>5. to \in GateStages /\ to # "refresh" /\ "idle" \in BeforeRun /\ "idle" \in BeforeSpawn
    BY DEF GateStages, BeforeRun, BeforeSpawn
  <2> QED BY <2>1, <2>3, <2>4, <2>5, GoingOn
<1> QED BY <1>1, <1>2 DEF Begin

\* So does one that waits for its keeper.
LEMMA AwaitMoves ==
  ASSUME WorldOK, FilesOK, GatesOK, NEW g \in Gates, Await(g)
  PROVE  GateMoves(g)
<1> USE DEF GateStages, BeforeRun, BeforeSpawn
<1>0. known[g] \in Memory /\ config \in Configs /\ config \in Hashes /\ None \in Hashes
  BY Hashing DEF GatesOK, WorldOK
<1>1. CASE Quit(g, "await", "failed")
  BY <1>1, Quitting
<1>2. CASE Move(g, "await", "base") /\ known' = [known EXCEPT ![g].before = None]
  <2>1. [known[g] EXCEPT !.before = None] \in Memory
    BY <1>0 DEF Memory
  <2>2. known' = [known EXCEPT ![g] = [known[g] EXCEPT !.before = None]]
    BY <1>2
  <2> QED BY <1>2, <2>1, <2>2, GoingOn
<1>3. CASE /\ Move(g, "await", "refresh") /\ route # None /\ route \in RouteStates
           /\ known' = [known EXCEPT ![g].before = config, ![g].copy = route]
  <2> DEFINE m == [known[g] EXCEPT !.before = config, !.copy = route]
  <2>1. m \in Memory /\ m.before = config /\ m.copy = route
    BY <1>0, <1>3 DEF Memory
  <2>2. known' = [known EXCEPT ![g] = m]
    BY <1>0, <1>3 DEF GatesOK, Memory
  <2> HIDE DEF m
  <2> QED BY <1>0, <1>3, <2>1, <2>2, GoingOn
<1> QED BY <1>1, <1>2, <1>3 DEF Await, FilesOK

\* So does every step of a gate.
LEMMA GateMoving ==
  ASSUME WorldOK, FilesOK, GatesOK, NEW g \in Gates, GateAction(g)
  PROVE  GateMoves(g)
<1> USE DEF GateStages, BeforeRun, BeforeSpawn
<1>0. /\ known[g] \in Memory /\ config \in Hashes /\ None \in Hashes
      /\ gate \in [Gates -> GateStages]
  BY Hashing DEF GatesOK, WorldOK
<1>1. CASE Begin(g)
  BY <1>1, BeginMoves
<1>2. CASE Reuse(g)
  <2>1. CASE Move(g, "reuse", "stop") /\ UNCHANGED known
    BY <2>1, GoingOnKnown
  <2>2. CASE /\ Move(g, "reuse", "wait")
             /\ known' = [known EXCEPT ![g].reuses = TRUE, ![g].based = TRUE]
    <3> DEFINE m == [known[g] EXCEPT !.reuses = TRUE, !.based = TRUE]
    <3>1. m \in Memory
      BY <1>0 DEF Memory
    <3>2. known' = [known EXCEPT ![g] = m]
      BY <1>0, <2>2 DEF GatesOK, Memory
    <3> HIDE DEF m
    <3> QED BY <2>2, <3>1, <3>2, GoingOn
  <2> QED BY <1>2, <2>1, <2>2 DEF Reuse
<1>3. CASE StopWatch(g)
  BY <1>3, GoingOnKnown DEF StopWatch
<1>4. CASE StopWatchFails(g)
  BY <1>4, Quitting DEF StopWatchFails
<1>5. CASE RemoveEvidence(g)
  BY <1>5, GoingOnKnown DEF RemoveEvidence
<1>6. CASE RunOnce(g)
  <2>1. [known[g] EXCEPT !.before = config] \in Memory
    BY <1>0 DEF Memory
  <2>2. CASE /\ Move(g, "run", "await")
             /\ known' = [known EXCEPT ![g] = [known[g] EXCEPT !.before = config]]
    BY <2>1, <2>2, GoingOn
  <2>3. CASE Quit(g, "run", "failed")
    BY <2>3, Quitting
  <2> QED BY <1>6, <2>2, <2>3 DEF RunOnce
<1>7. CASE Await(g)
  BY <1>7, AwaitMoves
<1>8. CASE Refresh(g)
  <2> DEFINE m == [known[g] EXCEPT !.before = None, !.copy = None]
  <2>1. m \in Memory
    BY <1>0 DEF Memory
  <2>2. known' = [known EXCEPT ![g] = m]
    BY <1>0, <1>8 DEF Refresh, GatesOK, Memory
  <2>3. Move(g, "refresh", "base")
    BY <1>8 DEF Refresh
  <2> HIDE DEF m
  <2> QED BY <2>1, <2>2, <2>3, GoingOn
<1>9. CASE ReadBase(g)
  <2> DEFINE proxied == route # None /\ route.status \in ProxyStates
             m == [known[g] EXCEPT !.based = proxied]
  <2>1. m \in Memory
    BY <1>0 DEF Memory
  <2>2. CASE /\ Move(g, "base", IF known[g].mode = "proxy" THEN "spawn" ELSE "check")
             /\ known' = [known EXCEPT ![g] = m]
    <3> HIDE DEF m
    <3>1. PICK to \in {"spawn", "check"} : Move(g, "base", to)
      BY <2>2
    <3> QED BY <2>1, <2>2, <3>1, GoingOn
  <2>3. CASE Quit(g, "base", "failed")
    BY <2>3, Quitting
  <2> QED BY <1>9, <2>2, <2>3 DEF ReadBase
<1>10. CASE CheckOfficial(g)
  BY <1>10, Quitting DEF CheckOfficial
<1>11. CASE SpawnWatch(g)
  BY <1>11, GoingOnKnown DEF SpawnWatch
<1>12. CASE NoteWatch(g)
  BY <1>12, GoingOnKnown DEF NoteWatch
<1>13. CASE NoteWatchFails(g)
  BY <1>13, Quitting DEF NoteWatchFails
<1>14. CASE WaitSucceeds(g)
  BY <1>14, GoingOnKnown DEF WaitSucceeds
<1>15. CASE WaitTimesOut(g)
  BY <1>15, Quitting DEF WaitTimesOut
<1>16. CASE Confirm(g)
  BY <1>16, Quitting DEF Confirm
<1>17. CASE ConfirmFails(g)
  BY <1>17, Quitting DEF ConfirmFails
<1> QED BY <1>1, <1>2, <1>3, <1>4, <1>5, <1>6, <1>7, <1>8, <1>9, <1>10, <1>11, <1>12, <1>13,
           <1>14, <1>15, <1>16, <1>17 DEF GateAction, GateStep

\* What a gate leaves alone, and what it does to keepers and files.
LEMMA GateEffects ==
  ASSUME WorldOK, FilesOK, ModesOK, GatesOK, CopyKept, NEW g \in Gates, GateAction(g)
  PROVE  UNCHANGED <<world, faults>> /\ Governs(g) /\ Rewrites(g) /\ FilesOK' /\ ModesOK'
<1> USE DEF world, files, mind, routeVars, Governs, Rewrites, FilesOK
<1>0. /\ Once(g) \in Keepers /\ Watch(g) \in Keepers
      /\ gate \in [Gates -> GateStages]
  BY KeeperKinds DEF GatesOK
<1>1. CASE Begin(g)
  <2>1. relay # "invalid" => relay \in {"official", "proxy"}
    BY DEF WorldOK, Relays
  <2>2. /\ allows' = allows \/ \E b \in BOOLEAN : allows' = [allows EXCEPT ![g] = b]
        /\ \/ asked' = asked
           \/ \E r \in {"official", "proxy"} : asked' = [asked EXCEPT ![Once(g)] = r]
    BY <1>1, <2>1 DEF Begin
  <2>3. ModesOK'
    BY <2>2 DEF ModesOK
  <2> QED BY <1>1, <2>3 DEF Begin
<1>2. CASE Reuse(g) \/ Await(g) \/ ReadBase(g) \/ CheckOfficial(g)
  BY <1>2 DEF Reuse, Await, ReadBase, CheckOfficial, ModesOK
<1>3. CASE WaitSucceeds(g) \/ WaitTimesOut(g) \/ Confirm(g)
  BY <1>3 DEF WaitSucceeds, WaitTimesOut, Confirm, ModesOK
<1>4. CASE StopWatches
  BY <1>4 DEF StopWatches, KillWatches, ModesOK
<1>5. CASE StopWatchFails(g)
  BY <1>5 DEF StopWatchFails, KillWatches, ModesOK
<1>6. CASE RemoveEvidence(g)
  BY <1>6 DEF RemoveEvidence, ModesOK
<1>7. CASE RunOnce(g)
  BY <1>0, <1>7 DEF RunOnce, Move, ModesOK
<1>8. CASE Refresh(g)
  <2> DEFINE current == known[g].before
             fresh == [known[g].copy EXCEPT !.hash = current, !.contract = current.contract,
                                            !.fresh = TRUE]
  <2>1. gate[g] = "refresh"
    BY <1>8 DEF Refresh, Move
  <2>2. known[g].copy \in RouteStates /\ current \in Hashes
        /\ current.contract \in Contracts \cup {None}
    BY <2>1, Hashing DEF CopyKept
  <2>3. fresh \in RouteStates /\ fresh.keeper = known[g].copy.keeper
    BY <2>2 DEF RouteStates
  <2>4. route' = fresh
    BY <1>8 DEF Refresh
  <2> HIDE DEF current, fresh
  <2> QED BY <1>8, <2>1, <2>3, <2>4 DEF Refresh, ModesOK
<1>9. CASE SpawnWatch(g)
  BY <1>0, <1>9 DEF SpawnWatch, Move, ModesOK
<1>10. CASE NoteWatch(g)
  BY <1>0, <1>10 DEF NoteWatch, ModesOK
<1>11. CASE NoteWatchFails(g)
  BY <1>11 DEF NoteWatchFails, KillWatches, ModesOK
<1> QED BY <1>1, <1>2, <1>3, <1>4, <1>5, <1>6, <1>7, <1>8, <1>9, <1>10, <1>11
        DEF GateAction, GateStep, StopWatch, ConfirmFails, ModesOK

-----------------------------------------------------------------------------
(* Types. *)

\* A move of a gate keeps the gates typed and the copy of the configuration.
LEMMA GateTypes ==
  ASSUME FilesOK, GatesOK, CopyKept, NEW g \in Gates, GateMoves(g)
  PROVE  GatesOK' /\ CopyKept'
<1>1. PICK to \in GateStages, m \in Memory : GoesOn(g, to, m)
  BY DEF GateMoves
<1>2. GatesOK'
  BY <1>1 DEF GoesOn, GatesOK
<1>3. ASSUME NEW h \in Gates, gate'[h] = "refresh"
      PROVE  known'[h].before \in Configs /\ known'[h].copy \in RouteStates
  <2>1. CASE h = g
    BY <1>1, <1>3, <2>1 DEF GoesOn, GatesOK, FilesOK
  <2>2. CASE h # g
    BY <1>1, <1>3, <2>2 DEF GoesOn, GatesOK, CopyKept
  <2> QED BY <2>1, <2>2
<1> QED BY <1>2, <1>3 DEF CopyKept

\* What a gate does to its keepers keeps them typed.
LEMMA GovernedTypes ==
  ASSUME StageOK, MindOK, NEW g \in Gates, Governs(g)
  PROVE  StageOK' /\ MindOK'
<1> USE DEF StageOK, StageNames
<1>1. CASE UNCHANGED <<stage, holder, seen, own, lastHash>>
  BY <1>1 DEF MindOK
<1>2. CASE \E victims \in SUBSET Watchers : KillWatches(victims)
  <2>1. PICK victims \in SUBSET Watchers : KillWatches(victims)
    BY <1>2
  <2>2. MindOK'
    BY <2>1, Forgetting DEF KillWatches
  <2> QED BY <2>1, <2>2 DEF KillWatches, Ends
<1>3. CASE /\ \E k \in Keepers : stage' = [stage EXCEPT ![k] = "start"]
           /\ UNCHANGED <<holder, seen, own, lastHash>>
  BY <1>3 DEF MindOK
<1> QED BY <1>1, <1>2, <1>3, KeeperKinds DEF Governs

\* So do the steps of the world around.
LEMMA EnvironmentTypes ==
  ASSUME TypeInv, Environment, UNCHANGED gateVars
  PROVE  TypeInv'
<1> USE DEF TypeInv, files, mind, gateVars
<1>1. FaultsOK' /\ StageOK' /\ MindOK' /\ ModesOK' /\ GatesOK' /\ CopyKept'
  BY DEF Environment, EditConfig, SwitchProfile, ChangeHealth, Switch, Elapse, world,
         FaultsOK, StageOK, MindOK, ModesOK, GatesOK, CopyKept
<1>2. WorldOK'
  BY RouteAssumption
  DEF Environment, EditConfig, SwitchProfile, ChangeHealth, Switch, Elapse, world, WorldOK
<1>3. FilesOK'
  BY DEF Environment, EditConfig, SwitchProfile, ChangeHealth, Switch, Elapse, FilesOK,
         RouteStates
<1> QED BY <1>1, <1>2, <1>3

\* A fault changes the faults and its keeper only.
LEMMA FaultEffects ==
  ASSUME MindOK, FaultsOK, FilesOK, NEW k \in Keepers, KeeperFault(k)
  PROVE  MindOK' /\ FaultsOK' /\ UNCHANGED <<world, files, asked, allows>>
<1>1. FaultsOK' /\ UNCHANGED <<world, files, asked, allows>>
  BY RouteAssumption DEF KeeperFault, WriteFails, Retire, Die, Fault, FaultsOK
<1>2. UNCHANGED <<seen, own, lastHash>> \/ \E ks \in SUBSET Keepers : Forget(ks)
  BY DEF KeeperFault, WriteFails, Retire, Die
<1> QED BY <1>1, <1>2, Forgetting DEF MindOK

\* Every step keeps the types.
LEMMA TypeStep == TypeInv /\ [Next]_vars => TypeInv'
<1> SUFFICES ASSUME TypeInv, [Next]_vars PROVE TypeInv'
  OBVIOUS
<1> USE DEF TypeInv
<1>1. ASSUME NEW g \in Gates, GateAction(g)
      PROVE  TypeInv'
  <2>1. GateMoves(g)
    BY <1>1, GateMoving
  <2>2. UNCHANGED <<world, faults>> /\ Governs(g) /\ FilesOK' /\ ModesOK'
    BY <1>1, GateEffects
  <2>3. GatesOK' /\ CopyKept' /\ StageOK' /\ MindOK'
    BY <2>1, <2>2, GateTypes, GovernedTypes
  <2> QED BY <2>2, <2>3 DEF WorldOK, FaultsOK, world
<1>2. ASSUME NEW k \in Keepers, KeeperStep(k), UNCHANGED gateVars
      PROVE  TypeInv'
  <2>1. StageOK' /\ FilesOK'
    BY <1>2, KeeperMoves, MovesType, KeeperFiles DEF FilesOK
  <2>2. MindOK'
    BY <1>2, KeeperMind
  <2>3. UNCHANGED <<world, asked, allows, faults>>
    BY <1>2, KeeperFrame
  <2> QED BY <1>2, <2>1, <2>2, <2>3
          DEF WorldOK, FaultsOK, ModesOK, GatesOK, CopyKept, world, gateVars
<1>3. ASSUME NEW k \in Keepers, KeeperFault(k), UNCHANGED gateVars
      PROVE  TypeInv'
  <2>1. StageOK'
    BY <1>3, FaultMoves, MovesType
  <2>2. MindOK' /\ FaultsOK' /\ UNCHANGED <<world, files, asked, allows>>
    BY <1>3, FaultEffects
  <2> QED BY <1>3, <2>1, <2>2
          DEF WorldOK, FilesOK, ModesOK, GatesOK, CopyKept, world, files, gateVars
<1>4. CASE Environment /\ UNCHANGED gateVars
  BY <1>4, EnvironmentTypes
<1>5. CASE UNCHANGED vars
  BY <1>5 DEF vars, routeVars, world, files, mind, gateVars, WorldOK, FaultsOK, FilesOK,
              StageOK, MindOK, ModesOK, GatesOK, CopyKept
<1> QED BY <1>1, <1>2, <1>3, <1>4, <1>5 DEF Next, GateAction

\* Whatever gates, keepers and users do, every variable keeps its type.
THEOREM TypeCorrect == Spec => []TypeOK
<1>1. TypeInv => TypeOK
  BY TypeParts
<1> QED BY <1>1, TypeInit, TypeStep, PTL DEF Spec

-----------------------------------------------------------------------------
(* The inductive invariant. *)

\* A keeper works exactly while it holds the mutex.
HolderWorks == \A k \in Keepers : stage[k] \in Working <=> holder = k

\* Who is named in the route state, or in a copy of it that a gate is about to
\* write back, has held the mutex: it is not about to take it.
Began(k) == stage[k] \in Working \cup Ends
NamedBegan ==
    /\ route # None => Began(route.keeper)
    /\ \A g \in Gates : gate[g] = "refresh" => Began(known[g].copy.keeper)

\* A gate starts each of its keepers once.
StartedOnce ==
    \A g \in Gates :
        /\ gate[g] \in BeforeRun => stage[Once(g)] = "off"
        /\ gate[g] \in BeforeSpawn => stage[Watch(g)] = "off"

HolderInv == TypeInv /\ HolderWorks /\ NamedBegan /\ StartedOnce

\* At the start nobody works and nobody is named.
LEMMA HolderInit == Init => HolderWorks /\ NamedBegan /\ StartedOnce
  BY KeeperKinds
  DEF Init, KeeperInit, HolderWorks, NamedBegan, StartedOnce, Working

\* A keeper that is off or starting neither works nor has ended.
LEMMA Kinds == "off" \notin Working \cup Ends /\ "start" \notin Working \cup Ends
  BY DEF Working, Ends

\* A keeper that moves has been started, and gets the mutex only when it is free.
LEMMA KeeperHolds ==
  ASSUME HolderInv, NEW k \in Keepers, Moves(k), UNCHANGED gateVars
  PROVE  HolderWorks' /\ NamedBegan' /\ StartedOnce'
<1> USE DEF HolderInv, TypeInv, StageOK, Moves
<1>0. /\ None \notin Keepers /\ stage \in [Keepers -> StageNames]
      /\ \A g \in Gates : Once(g) \in Keepers /\ Watch(g) \in Keepers
  BY KeeperKinds
<1>1. stage[k] # "off"
  BY Kinds DEF Enters, Works, Leaves, Alive, Idle
<1>2. PICK to \in Working \cup Ends : stage' = [stage EXCEPT ![k] = to]
  BY DEF Enters, Works, Leaves
<1>3. HolderWorks'
  <2>1. CASE Enters(k)
    BY <1>0, <2>1, Kinds DEF Enters, HolderWorks
  <2>2. CASE Works(k)
    BY <1>0, <2>2 DEF Works, HolderWorks
  <2>3. CASE Leaves(k)
    BY <1>0, <2>3 DEF Leaves, HolderWorks, Working, Ends
  <2> QED BY <2>1, <2>2, <2>3
<1>4. \A j \in Keepers : Began(j) => Began(j)'
  BY <1>0, <1>2 DEF Began
<1>5. Began(k)'
  BY <1>0, <1>2 DEF Began
<1>6. NamedBegan'
  <2>1. route' # None => Began(route.keeper)'
    <3>1. CASE route' = route
      BY <1>4, <3>1 DEF NamedBegan, FilesOK, RouteStates
    <3>2. CASE Publishes(k)
      BY <1>5, <3>2 DEF Publishes
    <3> QED BY <3>1, <3>2 DEF Enters, Works, Leaves
  <2>2. \A g \in Gates : gate'[g] = "refresh" => Began(known[g].copy.keeper)'
    BY <1>4 DEF NamedBegan, CopyKept, RouteStates, gateVars
  <2> QED BY <2>1, <2>2 DEF NamedBegan
<1>7. StartedOnce'
  BY <1>0, <1>1, <1>2 DEF StartedOnce, gateVars
<1> QED BY <1>3, <1>6, <1>7

\* What a gate does to the keepers takes the mutex from nobody who works on,
\* and starts nobody whom a route state names.
LEMMA GovernHolds ==
  ASSUME HolderInv, NEW g \in Gates, Governs(g), GateMoves(g)
  PROVE  /\ HolderWorks' /\ StartedOnce'
         /\ \A k \in Keepers : Began(k) => Began(k)'
<1> USE DEF HolderInv, TypeInv, StageOK, GatesOK
<1>0. /\ None \notin Keepers /\ stage \in [Keepers -> StageNames]
      /\ \A h \in Gates : Once(h) \in Keepers /\ Watch(h) \in Keepers
      /\ "off" \notin Working \cup Ends /\ "start" \notin Working \cup Ends
  BY KeeperKinds, Kinds
<1>1. PICK to \in GateStages, m \in Memory : GoesOn(g, to, m)
  BY DEF GateMoves
<1>2. ASSUME NEW h \in Gates
      PROVE  /\ gate'[h] \in BeforeRun => gate[h] \in BeforeRun
             /\ gate'[h] \in BeforeSpawn => gate[h] \in BeforeSpawn
  BY <1>1 DEF GoesOn
<1>3. CASE UNCHANGED <<stage, holder>>
  BY <1>0, <1>2, <1>3 DEF HolderWorks, StartedOnce, Began
<1>4. CASE \E victims \in SUBSET Watchers : KillWatches(victims)
  <2>1. PICK victims \in SUBSET Watchers : KillWatches(victims)
    BY <1>4
  <2>2. \A k \in Keepers : stage'[k] = IF k \in victims THEN "killed" ELSE stage[k]
    BY <2>1 DEF KillWatches
  <2>3. \A k \in victims : k \in Keepers /\ stage[k] # "off"
    BY <2>1 DEF Watchers, Alive, Idle
  <2>4. holder' = IF holder \in victims THEN None ELSE holder
    BY <2>1 DEF KillWatches
  <2>5. HolderWorks'
    BY <1>0, <2>2, <2>3, <2>4 DEF HolderWorks, Working
  <2>6. StartedOnce'
    BY <1>0, <1>2, <2>2, <2>3 DEF StartedOnce
  <2> QED BY <2>2, <2>5, <2>6 DEF Began, Ends
<1>5. ASSUME NEW k \in Keepers, stage[k] = "off", stage' = [stage EXCEPT ![k] = "start"],
             UNCHANGED holder
      PROVE  HolderWorks' /\ \A j \in Keepers : Began(j) => Began(j)'
  BY <1>0, <1>5 DEF HolderWorks, Began
<1>6. CASE /\ gate[g] = "run" /\ gate'[g] = "await" /\ UNCHANGED holder
           /\ stage' = [stage EXCEPT ![Once(g)] = "start"]
  <2>1. stage[Once(g)] = "off"
    BY <1>6 DEF StartedOnce, BeforeRun
  <2>2. StartedOnce'
    <3> SUFFICES ASSUME NEW h \in Gates
                 PROVE  /\ gate'[h] \in BeforeRun => stage'[Once(h)] = "off"
                        /\ gate'[h] \in BeforeSpawn => stage'[Watch(h)] = "off"
      BY DEF StartedOnce
    <3>1. Once(g) # Watch(h) /\ (h # g => Once(g) # Once(h))
      BY DEF Once, Watch
    <3>2. gate'[g] \notin BeforeRun
      BY <1>6 DEF BeforeRun
    <3> QED BY <1>0, <1>2, <1>6, <3>1, <3>2 DEF StartedOnce
  <2> QED BY <1>0, <1>5, <1>6, <2>1, <2>2
<1>7. CASE /\ gate[g] = "spawn" /\ gate'[g] = "note" /\ UNCHANGED holder
           /\ stage' = [stage EXCEPT ![Watch(g)] = "start"]
  <2>1. stage[Watch(g)] = "off"
    BY <1>7 DEF StartedOnce, BeforeSpawn
  <2>2. StartedOnce'
    <3> SUFFICES ASSUME NEW h \in Gates
                 PROVE  /\ gate'[h] \in BeforeRun => stage'[Once(h)] = "off"
                        /\ gate'[h] \in BeforeSpawn => stage'[Watch(h)] = "off"
      BY DEF StartedOnce
    <3>1. Watch(g) # Once(h) /\ (h # g => Watch(g) # Watch(h))
      BY DEF Once, Watch
    <3>2. gate'[g] \notin BeforeSpawn
      BY <1>7 DEF BeforeRun, BeforeSpawn
    <3> QED BY <1>0, <1>2, <1>7, <3>1, <3>2 DEF StartedOnce
  <2> QED BY <1>0, <1>5, <1>7, <2>1, <2>2
<1> QED BY <1>3, <1>4, <1>6, <1>7 DEF Governs

\* A gate writes back or copies only what named such a keeper already.
LEMMA RewriteHolds ==
  ASSUME HolderInv, NEW g \in Gates, GateMoves(g), Rewrites(g),
         \A k \in Keepers : Began(k) => Began(k)'
  PROVE  NamedBegan'
<1> USE DEF HolderInv, TypeInv
<1>1. route # None => route.keeper \in Keepers /\ Began(route.keeper)
  BY DEF NamedBegan, FilesOK, RouteStates
<1>2. \A h \in Gates : gate[h] = "refresh" =>
        known[h].copy.keeper \in Keepers /\ Began(known[h].copy.keeper)
  BY DEF NamedBegan, CopyKept, RouteStates
<1>3. route' # None => Began(route.keeper)'
  BY <1>1, <1>2 DEF Rewrites
<1>4. PICK to \in GateStages, m \in Memory : GoesOn(g, to, m)
  BY DEF GateMoves
<1>5. ASSUME NEW h \in Gates, gate'[h] = "refresh"
      PROVE  Began(known[h].copy.keeper)'
  <2>1. CASE h = g
    <3>1. known'[g].copy = route /\ route # None
      BY <1>4, <1>5, <2>1 DEF GoesOn, GatesOK
    <3> QED BY <1>1, <2>1, <3>1
  <2>2. CASE h # g
    <3>1. gate[h] = "refresh" /\ known'[h] = known[h]
      BY <1>4, <1>5, <2>2 DEF GoesOn, GatesOK
    <3> QED BY <1>2, <3>1
  <2> QED BY <2>1, <2>2
<1> QED BY <1>3, <1>5 DEF NamedBegan

\* The world around leaves holder and name alone.
LEMMA EnvironmentHolds ==
  ASSUME HolderInv, Environment, UNCHANGED gateVars
  PROVE  HolderWorks' /\ NamedBegan' /\ StartedOnce'
<1> USE DEF HolderInv, TypeInv, gateVars
<1>1. UNCHANGED <<stage, holder>>
  BY DEF Environment, EditConfig, SwitchProfile, ChangeHealth, Switch, Elapse
<1>2. route' = route \/ (route # None /\ route' = [route EXCEPT !.fresh = FALSE])
  BY DEF Environment, EditConfig, SwitchProfile, ChangeHealth, Switch, Elapse, files
<1>3. route' # None => route # None /\ route'.keeper = route.keeper
  BY <1>2 DEF FilesOK, RouteStates
<1> QED BY <1>1, <1>3 DEF HolderWorks, NamedBegan, StartedOnce, Began

\* Every step keeps the holder the one that works, and the name a beginner.
LEMMA HolderStep == HolderInv /\ [Next]_vars => HolderInv'
<1> SUFFICES ASSUME HolderInv, [Next]_vars PROVE HolderWorks' /\ NamedBegan' /\ StartedOnce'
  BY TypeStep DEF HolderInv
<1>1. ASSUME NEW g \in Gates, GateAction(g)
      PROVE  HolderWorks' /\ NamedBegan' /\ StartedOnce'
  <2>1. GateMoves(g) /\ Governs(g) /\ Rewrites(g)
    BY <1>1, GateMoving, GateEffects DEF HolderInv, TypeInv
  <2> QED BY <2>1, GovernHolds, RewriteHolds
<1>2. ASSUME NEW k \in Keepers, KeeperStep(k) \/ KeeperFault(k), UNCHANGED gateVars
      PROVE  HolderWorks' /\ NamedBegan' /\ StartedOnce'
  BY <1>2, KeeperMoves, FaultMoves, KeeperHolds DEF HolderInv, TypeInv
<1>3. CASE Environment /\ UNCHANGED gateVars
  BY <1>3, EnvironmentHolds
<1>4. CASE UNCHANGED vars
  BY <1>4 DEF vars, routeVars, files, gateVars, HolderInv, HolderWorks, NamedBegan,
              StartedOnce, Began
<1> QED BY <1>1, <1>2, <1>3, <1>4 DEF Next, GateAction

\* So the route names its holder.
LEMMA HolderNamed == HolderInv => RouteNamesHolder
  BY DEF HolderInv, TypeInv, FilesOK, RouteStates, HolderWorks, NamedBegan, Began,
         RouteNamesHolder, Alive, Idle

\* A running keeper that the route state names holds the mutex, for any
\* number of gates, whatever is edited, killed or written back.
THEOREM NamesTheHolder == Spec => []RouteNamesHolder
<1>1. Init => HolderInv
  BY TypeInit, HolderInit DEF HolderInv
<1> QED BY <1>1, HolderStep, HolderNamed, PTL DEF Spec

=============================================================================
