------------------------------ MODULE Sensors ------------------------------
(***************************************************************************)
(* The readings of the power sensors: the current values, and the samples  *)
(* each getAvg method averages and clears.  The calls come in any order,   *)
(* and any reading may fail.  An average is kept as its sum and count.     *)
(***************************************************************************)
EXTENDS Integers, SequencesExt

CONSTANTS
  SensorNames, \* the nine sensors
  Values,      \* what a sensor may report
  Noise,       \* what an uninitialised float may hold
  MaxSamples   \* bound: how many samples are kept before one is averaged

SensorsAssumption ==
  Values \subseteq Nat /\ Noise \in Int /\ MaxSamples \in Nat

VARIABLES
  curr,   \* currSocW ... currGpuV
  prev,   \* prevSocW ... prevGpuV
  avg,    \* the last result of each getAvg method
  since   \* history: what was read since, Failed if a reading failed

vars == <<curr, prev, avg, since>>

Failed == -2

Init ==
  /\ curr = [s \in SensorNames |-> 0]
  /\ prev = [s \in SensorNames |-> <<>>]
  /\ avg = [s \in SensorNames |-> [sum |-> 0, n |-> 1]]
  /\ since = [s \in SensorNames |-> {}]

(* readSensor: -1 when the file does not open; when it holds no number the *)
(* value stays uninitialised.                                              *)
readSensor == Values \cup {-1, Noise}

readSensors ==
  /\ curr' \in [SensorNames -> readSensor]
  /\ UNCHANGED <<prev, avg, since>>

sampleSensors ==
  /\ \A s \in SensorNames : Len(prev[s]) < MaxSamples
  /\ \E value \in [SensorNames -> readSensor], works \in [SensorNames -> BOOLEAN] :
       /\ \A s \in SensorNames : value[s] \in IF works[s] THEN Values ELSE {-1, Noise}
       /\ prev' = [s \in SensorNames |-> Append(prev[s], value[s])]
       /\ since' = [s \in SensorNames |-> since[s] \cup {IF works[s] THEN value[s] ELSE Failed}]
  /\ UNCHANGED <<curr, avg>>

(* getAvg.                                                                 *)
average(vec) ==
  IF vec = <<>> THEN [sum |-> 0, n |-> 1] ELSE [sum |-> FoldSeq(+, 0, vec), n |-> Len(vec)]

(* Mutant: the samples are not cleared.                                    *)
getAvgKeeps(s) ==
  /\ avg' = [avg EXCEPT ![s] = average(prev[s])]
  /\ since' = [since EXCEPT ![s] = {}]
  /\ UNCHANGED <<curr, prev>>

(* getAvgSocW ... getAvgGpuV.                                              *)
getAvg(s) ==
  /\ avg' = [avg EXCEPT ![s] = average(prev[s])]
  /\ prev' = [prev EXCEPT ![s] = <<>>]
  /\ since' = [since EXCEPT ![s] = {}]
  /\ UNCHANGED curr

Next == readSensors \/ sampleSensors \/ \E s \in SensorNames : getAvg(s)

Spec == Init /\ [][Next]_vars

-----------------------------------------------------------------------------
(* Every variable has its type, and no average is a division by zero.      *)
TypeOK ==
  /\ curr \in [SensorNames -> readSensor \cup {0}]
  /\ prev \in [SensorNames -> Seq(readSensor)]
  /\ avg \in [SensorNames -> [sum : Int, n : Nat \ {0}]]
  /\ since \in [SensorNames -> SUBSET (Values \cup {Failed})]

(* An average lies between the least and the greatest value its sensor had *)
(* since it was averaged last, whatever the other sensors did meanwhile,   *)
(* unless one of its readings failed; without a sample it is 0.            *)
AverageOfRecent ==
  [][\A s \in SensorNames : getAvg(s) /\ Failed \notin since[s] =>
       IF since[s] = {} THEN avg'[s].sum = 0
       ELSE \E lo, hi \in since[s] :
              lo * avg'[s].n <= avg'[s].sum /\ avg'[s].sum <= hi * avg'[s].n]_vars
=============================================================================
