---------------------------- MODULE MCSimulation ----------------------------
(***************************************************************************)
(* What a simulation that runs ahead rests on, in four parts that share    *)
(* no state; a behaviour is one of a single part.                          *)
(*   "inputs"      Inputs: the inputs of a player on their way to the      *)
(*                 server or to another client.                            *)
(*   "prediction"  Prediction: two predicted entities of one client.       *)
(*   "spawns"      RollbackSpawns: the entities that the simulation of one *)
(*                 client spawns and despawns.                             *)
(*   "window"      PredictionWindow: two peers that wait for each other's  *)
(*                 inputs.                                                 *)
(***************************************************************************)
EXTENDS Inputs, Prediction, RollbackSpawns, PredictionWindow, TLC

\* Bound of the prediction: the client's ticks, the acts of its simulation and the
\* changes on the server, together.
CONSTANT MaxEffort

VARIABLE part

Setting(simulated, oneOff, revisits, forces, shifts) ==
    [simulated |-> simulated, oneOff |-> oneOff, revisits |-> revisits,
     forces |-> forces, shifts |-> shifts]

MCSettings ==
    {Setting({"Det", "Pre"}, {"Skip"}, FALSE, TRUE, FALSE),
     Setting({"Det"}, {"PreSkip"}, FALSE, FALSE, FALSE),
     Setting({"Pre"}, {}, TRUE, FALSE, TRUE)}

AnySetting == CHOOSE s \in SpawnSettings : TRUE

ActsWritten == UNION {{e} \X {t \in DOMAIN acts[e] : acts[e][t] # Keep} : e \in PredEntities}
ServerChanges == UNION {{e} \X ChangesOf(server[e]) : e \in PredEntities}
Effort == now + 2 * Cardinality(ActsWritten) + Cardinality(ServerChanges)

SimulationInit ==
    /\ InputInit
    /\ PredInit
    /\ SpawnInit
    /\ WindowInit
    /\ part \in {"inputs", "prediction", "spawns", "window"}
    /\ part # "inputs" => role = "server"
    /\ part # "spawns" => setting = AnySetting

SimulationNext ==
    \/ part = "inputs" /\ InputNext /\ UNCHANGED <<part, predVars, spawnVars, windowVars>>
    \/ part = "prediction" /\ PredNext /\ Effort' <= MaxEffort
       /\ UNCHANGED <<part, inputVars, spawnVars, windowVars>>
    \/ part = "spawns" /\ SpawnNext /\ UNCHANGED <<part, inputVars, predVars, windowVars>>
    \/ part = "window" /\ WindowNext /\ UNCHANGED <<part, inputVars, predVars, spawnVars>>

SimulationSpec ==
    SimulationInit /\ [][SimulationNext]_<<part, inputVars, predVars, spawnVars, windowVars>>

\* Nothing tells the entities of Prediction apart.
AnyEntity == Permutations(PredEntities)
=============================================================================
