----------------------------- MODULE MCFlowFork -----------------------------
(***************************************************************************)
(* Instances of FlowFork for TLC, and what the comments and the messages   *)
(* of flow-master.js say that the code does not do.                        *)
(***************************************************************************)
EXTENDS FlowFork

World(cores, modes, hwm, entries, early, others, stops) ==
  [cores |-> cores, modes |-> modes, hwm |-> hwm, entries |-> entries, crashes |-> 1,
   early |-> early, slow |-> others, fails |-> others, stops |-> stops]

(* Two workers with one slot each, all modes, with a crash and every fault *)
(* at any time, or a crash once ready; one worker that may crash once it   *)
(* is ready, or be stopped.                                                *)
MCWorlds ==
  {World(2, ModesOfFlows, 1, 4, TRUE, TRUE, FALSE),
   World(2, ModesOfFlows, 1, 4, FALSE, FALSE, FALSE),
   World(1, {"balanced"}, 2, 5, FALSE, FALSE, TRUE)}
MCCrash == {World(2, {"roundrobin"}, 2, 2, FALSE, FALSE, FALSE)}

(* flow-master.js:58 "Worker has crashed. Restart": a worker whose process *)
(* has died gets a process that runs.                                      *)
CrashedWorkerRestarts ==
  \A w \in 1..2 : proc[child[w]] = "closed" ~> proc[child[w]] = "running"
=============================================================================
