------------------------------ MODULE Platform ------------------------------
(***************************************************************************)
(* The parts of AppRegisterServer through which a class derived from       *)
(* Policy measures and steers the machine: the settings of the control     *)
(* groups, the frequencies of CPUs and GPU, the utilization and the        *)
(* sensors.  They share no state and call nothing of each other, so that   *)
(* the order of steps of different parts does not matter: in a behaviour   *)
(* one part moves and the others stay where they begin.                    *)
(***************************************************************************)
EXTENDS Integers

CONSTANTS
  Apps, Self, Main, NumberOfCores, Quotas, NotTold, GrepHits,  \* CGroupSettings
  Domains, DomainOf, Jitter,                         \* CpuFrequency
  nCores, Counting, Switching, LongAt, MaxTicks,     \* Utilization
  SensorNames, Values, Noise, MaxSamples                   \* Sensors

VARIABLES
  part,                                        \* which part moves
  groups, said, refused, phase,                \* CGroupSettings
  governor, speed, cpuAsked, cpuResult, running,  \* CpuFrequency
  gpu, gpuAsked, gpuResult,                    \* GpuFrequency
  stat, online, prev, usage, seen,             \* Utilization
  curr, samples, avg, since                    \* Sensors

Settings == INSTANCE CGroupSettings

Cpu == INSTANCE CpuFrequency WITH asked <- cpuAsked, result <- cpuResult

Gpu == INSTANCE GpuFrequency WITH asked <- gpuAsked, result <- gpuResult

Load == INSTANCE Utilization

Power == INSTANCE Sensors WITH prev <- samples

ASSUME PlatformAssumption ==
  /\ Settings!SettingsAssumption
  /\ Cpu!DomainAssumption
  /\ Load!UtilizationAssumption
  /\ Power!SensorsAssumption

settings == <<groups, said, refused, phase>>
cpuFrequency == <<governor, speed, cpuAsked, cpuResult, running>>
gpuFrequency == <<gpu, gpuAsked, gpuResult>>
utilization == <<stat, online, prev, usage, seen>>
sensors == <<curr, samples, avg, since>>

vars == <<part, settings, cpuFrequency, gpuFrequency, utilization, sensors>>

Parts == {"settings", "cpu", "gpu", "load", "power"}

(* A part that stays is given one of its initial states.                   *)
Init ==
  /\ part \in Parts
  /\ Settings!Init
  /\ Cpu!Init
  /\ part # "cpu" => speed = [d \in Domains |-> cpuAsked] /\ \A d \in Domains : governor[d]
  /\ Gpu!Init
  /\ part # "gpu" => gpu.max = gpuAsked /\ gpu.powered
  /\ Load!Init
  /\ Power!Init

Next ==
  /\ UNCHANGED part
  /\ \/ /\ part = "settings" /\ Settings!Next
        /\ UNCHANGED <<cpuFrequency, gpuFrequency, utilization, sensors>>
     \/ /\ part = "cpu" /\ Cpu!Next
        /\ UNCHANGED <<settings, gpuFrequency, utilization, sensors>>
     \/ /\ part = "gpu" /\ Gpu!Next
        /\ UNCHANGED <<settings, cpuFrequency, utilization, sensors>>
     \/ /\ part = "load" /\ Load!Next
        /\ UNCHANGED <<settings, cpuFrequency, gpuFrequency, sensors>>
     \/ /\ part = "power" /\ Power!Next
        /\ UNCHANGED <<settings, cpuFrequency, gpuFrequency, utilization>>

Spec == Init /\ [][Next]_vars

-----------------------------------------------------------------------------
(* Every variable of every part has its type.                              *)
TypeOK ==
  /\ part \in Parts
  /\ Settings!TypeOK /\ Cpu!TypeOK /\ Gpu!TypeOK /\ Load!TypeOK /\ Power!TypeOK

(* Settings the controller was told about are in force, unless the kernel  *)
(* refused the write, and while grep finds only the pid that is asked for  *)
(* (CGroupSettings).                                                       *)
InForceUnlessRefused == Settings!InForceUnlessRefused

(* A successful SetCpuFreq leaves all CPUs at one frequency, and raising   *)
(* never lowers (CpuFrequency).                                            *)
CpusTogether == Cpu!CpusTogether

RaiseNeverLowers == Cpu!RaiseNeverLowers

(* The next frequency is the least one above the given one, for CPUs and   *)
(* GPU.                                                                    *)
NextIsLeastAbove ==
  /\ part = "cpu" => Cpu!NextIsLeastAbove
  /\ part = "gpu" => Gpu!NextIsLeastAbove

(* The kernel accepts the order in which SetGpuFreq writes the bounds, and *)
(* a success pins the GPU to the frequency (GpuFrequency).                 *)
OrderAccepted == part = "gpu" => Gpu!OrderAccepted

PinnedOrFree == Gpu!PinnedOrFree

(* Each CPU is reported its own load since it was last read (Utilization). *)
LoadOfEach == Load!LoadOfEach

(* An average is over what its sensor read since the last one (Sensors).   *)
AverageOfRecent == Power!AverageOfRecent
=============================================================================
