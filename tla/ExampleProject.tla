--------------------------- MODULE ExampleProject ---------------------------
(***************************************************************************)
(* The car example (examples/example_project).  main starts SystemManager  *)
(* and Engine and runs their OnProcess in turn for ever.  SystemManager    *)
(* commands an engine speed and raises it when the telemetry comes close;  *)
(* Engine obeys and answers with a noisy measurement and a timestamp.  The *)
(* two talk through one pipe each (a circular buffer of JunoQueue) of one  *)
(* broker, and the timestamps are JunoTime's.                              *)
(***************************************************************************)
EXTENDS JunoTime, JunoQueue

CONSTANTS
  Noise,         \* what 10 * noise may be: part of -10..10
  ClockBound,    \* bound: the last value of the clock, in nanos
  RpmBound       \* bound: the highest target, where the noise keeps it

ASSUME ExampleAssumption ==
  /\ zCapacity = 1                \* ENGINE_CMD_MSG_PIPE_DEPTH, ENGINE_TLM_MSG_PIPE_DEPTH
  /\ Noise \subseteq -10..10
  /\ (giSECS_MAX + 1) * MillisPerSec <= CountMax    \* 2^32 * 1000 < 2^64
  /\ ClockBound \in Nat /\ RpmBound \in Nat

VARIABLES
  started,         \* main has called every OnStart
  iCounter,        \* the index into ptAppList of the app whose turn it is
  clock,           \* CLOCK_MONOTONIC, in nanos
  fTargetRpm,      \* SystemManager's
  tEngineStart,    \* SystemManager's: when it was started
  fCurrentRpm,     \* Engine's
  tCmdPipe,        \* Engine's pipe, of commands
  tEngineTlmPipe,  \* SystemManager's pipe, of telemetry
  tMillis          \* history: the elapsed time last logged

exampleVars ==
  <<started, iCounter, clock, fTargetRpm, tEngineStart, fCurrentRpm, tCmdPipe, tEngineTlmPipe, tMillis>>

ExampleInit ==
  /\ started = FALSE /\ iCounter = 0
  /\ clock \in {0, 1}
  /\ fTargetRpm = 0 /\ fCurrentRpm = 0
  /\ tEngineStart = Zero
  /\ tCmdPipe = QueueInit(EmptySlots)
  /\ tEngineTlmPipe = QueueInit(EmptySlots)
  /\ tMillis = 0

-----------------------------------------------------------------------------
(* Mutant: the seconds of the clock are left out.                          *)
NowNoSeconds(nanos) == NanosToTimestamp(nanos % NanosPerSec)

(* Now: the fraction is converted, the seconds are assigned.               *)
Now(nanos) ==
  Stamp(Wrapped(nanos \div NanosPerSec), NanosToTimestamp(nanos % NanosPerSec).iSubSeconds)

(* The clock is read: it never goes back.                                  *)
ReadClock == clock' \in clock..ClockBound

(* Broker and pipe: a full pipe refuses, and neither app looks at that.    *)
Published(pipe, msg) == IF Full(pipe) THEN pipe ELSE Push(pipe, msg)

(* SystemManager's OnStart.  The registry has room for both pipes and      *)
(* nothing else of an OnStart can fail.                                    *)
SystemManagerOnStart ==
  /\ ~started /\ iCounter = 0
  /\ iCounter' = 1
  /\ ReadClock
  /\ tEngineTlmPipe' = QueueInit(tEngineTlmPipe.slots)
  /\ tEngineStart' = Now(clock')
  /\ UNCHANGED <<started, fTargetRpm, fCurrentRpm, tCmdPipe, tMillis>>

EngineOnStart ==
  /\ ~started /\ iCounter = 1
  /\ iCounter' = 0
  /\ started' = TRUE
  /\ tCmdPipe' = QueueInit(tCmdPipe.slots)
  /\ fCurrentRpm' = 0
  /\ UNCHANGED <<clock, fTargetRpm, tEngineStart, tEngineTlmPipe, tMillis>>

Abs(n) == IF n < 0 THEN -n ELSE n

(* The target for the next command, given telemetry.                       *)
Raised(tlm) == IF Abs(tlm.fRpm - fTargetRpm) < 10 THEN fTargetRpm + 10 ELSE fTargetRpm

(* SystemManager's OnProcess: without telemetry, and when the time before  *)
(* the start cannot be subtracted, it repeats the last command; when the   *)
(* elapsed time is no count of millis it returns without one.              *)
SystemManagerOnProcess ==
  /\ started /\ iCounter = 0
  /\ iCounter' = 1
  /\ IF IsEmpty(tEngineTlmPipe)
       THEN /\ tCmdPipe' = Published(tCmdPipe, [fRpm |-> fTargetRpm])
            /\ UNCHANGED <<fTargetRpm, tEngineTlmPipe, tMillis>>
       ELSE LET tlm     == Oldest(tEngineTlmPipe)
                elapsed == SubtractTime(tlm.tTimestamp, tEngineStart)
                millis  == TimestampToMillis(elapsed.tOk)
            IN  /\ tEngineTlmPipe' = Pop(tEngineTlmPipe)
                /\ IF elapsed.tStatus # "SUCCESS"
                     THEN UNCHANGED <<fTargetRpm, tMillis>>
                   ELSE IF millis.tStatus # "SUCCESS"
                     THEN UNCHANGED <<fTargetRpm, tMillis>>
                   ELSE fTargetRpm' = Raised(tlm) /\ tMillis' = millis.tOk
                /\ tCmdPipe' =
                     IF elapsed.tStatus = "SUCCESS" /\ millis.tStatus # "SUCCESS" THEN tCmdPipe
                     ELSE Published(tCmdPipe, [fRpm |-> fTargetRpm'])
  /\ UNCHANGED <<started, clock, tEngineStart, fCurrentRpm>>

(* Mutant: a command that was dequeued is not obeyed.                      *)
ObeyedNever == fCurrentRpm

(* The speed after the command at the front of the pipe, if there is one.  *)
Obeyed == IF IsEmpty(tCmdPipe) THEN fCurrentRpm ELSE Oldest(tCmdPipe).fRpm

(* Mutant: the command is looked at, not taken out of the pipe.            *)
EngineOnProcessLeavesCommand ==
  /\ started /\ iCounter = 1
  /\ iCounter' = 0
  /\ ReadClock
  /\ fCurrentRpm' = Obeyed
  /\ tCmdPipe' = tCmdPipe
  /\ \E n \in Noise :
       /\ fTargetRpm = RpmBound => Abs(fCurrentRpm' + n - fTargetRpm) >= 10
       /\ tEngineTlmPipe' = Published(tEngineTlmPipe,
            [fRpm |-> fCurrentRpm' + n, tTimestamp |-> Now(clock')])
  /\ UNCHANGED <<started, fTargetRpm, tEngineStart, tMillis>>

(* Engine's OnProcess: it reads the clock, takes a command if there is     *)
(* one, and publishes telemetry in any case.                               *)
EngineOnProcess ==
  /\ started /\ iCounter = 1
  /\ iCounter' = 0
  /\ ReadClock
  /\ fCurrentRpm' = Obeyed
  /\ tCmdPipe' = IF IsEmpty(tCmdPipe) THEN tCmdPipe ELSE Pop(tCmdPipe)
  /\ \E n \in Noise :
       /\ fTargetRpm = RpmBound => Abs(fCurrentRpm' + n - fTargetRpm) >= 10
       /\ tEngineTlmPipe' = Published(tEngineTlmPipe,
            [fRpm |-> fCurrentRpm' + n, tTimestamp |-> Now(clock')])
  /\ UNCHANGED <<started, fTargetRpm, tEngineStart, tMillis>>

ExampleNext ==
  \/ SystemManagerOnStart \/ EngineOnStart
  \/ SystemManagerOnProcess \/ EngineOnProcess

(* A sequential program whose one loop never blocks.                       *)
ExampleSpec == ExampleInit /\ [][ExampleNext]_exampleVars /\ WF_exampleVars(ExampleNext)

-----------------------------------------------------------------------------
(* Pipes one message deep are enough, though nobody reads the status of    *)
(* Publish: whoever publishes finds its reader's pipe empty, and the one   *)
(* message that is under way is for the app whose turn it is.              *)
OneMessageUnderWay ==
  /\ iCounter = 0 => IsEmpty(tCmdPipe)
  /\ started /\ iCounter = 1 => IsEmpty(tEngineTlmPipe) /\ Contents(tCmdPipe) = <<[fRpm |-> fTargetRpm]>>

(* The target never runs away from the engine: it is raised only once the  *)
(* engine has obeyed the command before, whatever the noise says.          *)
TargetLeadsByOneStep ==
  fTargetRpm - fCurrentRpm \in IF iCounter = 0 THEN {0} ELSE {0, 10}

(* The elapsed time that is logged never goes back while the clock is      *)
(* within the seconds field, although the stamp of the start and those of  *)
(* the telemetry are taken by different apps and pass through a pipe.      *)
ElapsedMonotone ==
  [][clock < (giSECS_MAX + 1) * NanosPerSec => tMillis' >= tMillis]_exampleVars

(* Engine reaches the target again and again.                              *)
EngineCatchesUp == []<>(fCurrentRpm = fTargetRpm)
=============================================================================
