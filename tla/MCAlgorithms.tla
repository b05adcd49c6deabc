---------------------------- MODULE MCAlgorithms ----------------------------
(* The algorithms for TLC: one client each of the time, vector and CRC     *)
(* functions, and the heap.  They share nothing: a behaviour is one        *)
(* client's, and the others stay where they began, so that the states add  *)
(* up instead of multiplying.                                              *)
EXTENDS TimeClient, VecClient, CrcClient, JunoHeap

CONSTANT Bytes    \* the bytes of chunks that do not begin a message

VARIABLE which    \* the client whose behaviour this is

MCDurations ==
  [iSeconds : {0, 1, giSECS_MAX}, iSubSeconds : {0, 1, 7, giSUBSECS_MAX - 1, giSUBSECS_MAX}]
MCCounts  == 0..CountMax
MCDoubles == -1..(giSECS_MAX * DoubleGrid + 1)

MCRotations == { <<1, 2, -1, 3>>, <<0, 1, 1, -2>>, <<2, 0, -1, 1>> }
MCVectors   == { <<1, -1, 1>>, <<0, 1, 1>>, <<-3, 1, 2>> }

MCOpenings == { <<b>> : b \in Byte }
MCChunks   == { <<b>> : b \in Bytes } \cup (Bytes \X Bytes)

AlgorithmsInit ==
  /\ TimeInit /\ VecInit /\ CrcInit /\ HeapInit
  /\ which \in {"time", "vec", "crc", "heap"}
  /\ which # "vec" => tVec = <<0, 1, 1>>
  /\ which # "crc" => variant = "arc"

TimeStep == which = "time" /\ TimeNext /\ UNCHANGED <<which, vecVars, crcVars, heapVars>>
VecStep  == which = "vec"  /\ VecNext  /\ UNCHANGED <<which, timeVars, crcVars, heapVars>>
CrcStep  == which = "crc"  /\ CrcNext  /\ UNCHANGED <<which, timeVars, vecVars, heapVars>>
HeapStep == which = "heap" /\ HeapNext /\ UNCHANGED <<which, timeVars, vecVars, crcVars>>

AlgorithmsNext == TimeStep \/ VecStep \/ CrcStep \/ HeapStep

AlgorithmsSpec ==
  AlgorithmsInit /\ [][AlgorithmsNext]_<<which, timeVars, vecVars, crcVars, heapVars>>
=============================================================================
