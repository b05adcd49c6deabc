----------------------------- MODULE MCPrograms -----------------------------
(* The programs around the library for TLC: the car example, the traffic   *)
(* light, and the editor's index.  They share nothing: a behaviour is one  *)
(* program's, and the others stay where they began, so that the states add *)
(* up.                                                                     *)
EXTENDS ExampleProject, TrafficLight, WorkspaceIndexer, TLC

CONSTANTS app, impl, v, w

VARIABLE which    \* the program that runs

MCNoise == {-10, -9, 0, 9, 10}

(* One file's vtable, initialised by position, names a function of the     *)
(* other.                                                                  *)
MCImplements == (app :> impl) @@ (impl :> impl)
MCPositional == {app}

ProgramsInit ==
  /\ ExampleInit /\ LightInit /\ IndexerInit
  /\ which \in {"car", "light", "index"}
  /\ which # "car" => clock = 0
  /\ which # "index" => \A f, g \in Files : disk[f] = disk[g]

CarStep ==
  /\ which = "car" /\ ExampleNext
  /\ UNCHANGED <<which, lightVars, indexerVars>>
LightStep ==
  /\ which = "light" /\ LightNext
  /\ UNCHANGED <<which, exampleVars, indexerVars>>
IndexStep ==
  /\ which = "index" /\ IndexerNext
  /\ UNCHANGED <<which, exampleVars, lightVars>>

ProgramsSpec ==
  /\ ProgramsInit
  /\ [][CarStep \/ LightStep \/ IndexStep
       ]_<<which, exampleVars, lightVars, indexerVars>>
  /\ WF_exampleVars(CarStep) /\ WF_lightVars(LightStep)
  /\ IndexerFairness
=============================================================================
