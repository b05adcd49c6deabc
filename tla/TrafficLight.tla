---------------------------- MODULE TrafficLight ----------------------------
(***************************************************************************)
(* The state machine of sm_api.h as example_state_machine.c drives it: the *)
(* machine holds its current state, a state knows the one that follows it, *)
(* and main's loop asks the current state whether it should exit.          *)
(***************************************************************************)
EXTENDS Integers

CONSTANT NULL

VARIABLES
  lightMain,        \* main's progress: 0 machine, 1..3 states initialised, then its loop
  ptCurrentState,   \* of the machine
  tStates           \* tStates[l]: the state module of light l

lightVars == <<lightMain, ptCurrentState, tStates>>

Lights == {"RED", "YELLOW", "GREEN"}
LightOrder == <<"RED", "YELLOW", "GREEN">>    \* of the enumeration
ExitCount == 10

(* Mutant: yellow is followed by red.                                      *)
NextLightShort(l) == CASE l = "RED" -> "YELLOW" [] l = "YELLOW" -> "RED" [] l = "GREEN" -> "RED"

NextLight(l) == CASE l = "RED" -> "YELLOW" [] l = "YELLOW" -> "GREEN" [] l = "GREEN" -> "RED"

Static == [bLinked |-> FALSE, tSome |-> NULL, iCounter |-> 0]

LightInit ==
  /\ lightMain = 0
  /\ ptCurrentState = NULL
  /\ tStates = [l \in Lights |-> Static]

-----------------------------------------------------------------------------
(* The operations of sm_api.h.  bLinked stands for the API and the machine *)
(* that StateInit sets, tSome for the optional next state.                 *)
JunoSm_Verify == ptCurrentState # NULL
JunoSm_StateVerify(l) == tStates[l].bLinked

JunoSm_StateInit(l, next) ==
  tStates' = [tStates EXCEPT ![l].bLinked = TRUE, ![l].tSome = next]

JunoSm_TransitionState ==
  ptCurrentState' = IF JunoSm_Verify /\ tStates[ptCurrentState].tSome # NULL
                      THEN tStates[ptCurrentState].tSome ELSE ptCurrentState

(* main: the machine, then its states in the order of the enumeration, the *)
(* status of the latter unread.                                            *)
JunoSm_Init ==
  /\ lightMain = 0
  /\ ptCurrentState' = "RED"
  /\ lightMain' = 1
  /\ UNCHANGED tStates

InitState ==
  /\ lightMain \in DOMAIN LightOrder
  /\ JunoSm_StateInit(LightOrder[lightMain], NextLight(LightOrder[lightMain]))
  /\ lightMain' = lightMain + 1
  /\ UNCHANGED ptCurrentState

ShouldExit(l) == tStates[l].iCounter = ExitCount

(* A round of main's loop: JunoSm_GetCurrentState and ShouldExit verify    *)
(* the machine and the state; main would break out if they were not.       *)
Round == lightMain = 4 /\ JunoSm_Verify /\ JunoSm_StateVerify(ptCurrentState)

StateAction ==
  /\ Round
  /\ ~ShouldExit(ptCurrentState)
  /\ tStates' = [tStates EXCEPT ![ptCurrentState].iCounter = @ + 1]
  /\ UNCHANGED <<lightMain, ptCurrentState>>

(* Mutant: the new state is reset in place of the old one.                 *)
TransitionResetsNext ==
  /\ Round
  /\ ShouldExit(ptCurrentState)
  /\ JunoSm_TransitionState
  /\ tStates' = [tStates EXCEPT ![ptCurrentState'].iCounter = 0]
  /\ UNCHANGED lightMain

(* ResetState, then the transition.                                        *)
Transition ==
  /\ Round
  /\ ShouldExit(ptCurrentState)
  /\ tStates' = [tStates EXCEPT ![ptCurrentState].iCounter = 0]
  /\ JunoSm_TransitionState
  /\ UNCHANGED lightMain

LightNext == JunoSm_Init \/ InitState \/ StateAction \/ Transition

(* A sequential program whose one loop never blocks.                       *)
LightSpec == LightInit /\ [][LightNext]_lightVars /\ WF_lightVars(LightNext)

-----------------------------------------------------------------------------
(* A light is entered with its counter at zero and left when it has acted  *)
(* ten times: the equality that decides it can be stepped over by no       *)
(* counter, and no light keeps a count for its next turn.                  *)
FreshLights ==
  \A l \in Lights : tStates[l].iCounter \in IF l = ptCurrentState THEN 0..ExitCount ELSE {0}

(* Once main runs every light comes back for ever: the loop never breaks,  *)
(* no state is left out of the cycle, and none keeps the machine.          *)
EveryLightRecurs == \A l \in Lights : lightMain > 0 ~> lightMain > 0 /\ ptCurrentState = l
=============================================================================
