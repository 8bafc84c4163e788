---------------------------- MODULE CpuFrequency ----------------------------
(***************************************************************************)
(* SetCpuFreq is one chain of shell commands joined by "&&": the first     *)
(* that fails ends it, and what was written before it stays.  It writes    *)
(* the governor of cpu0 only, but the frequency of all four CPUs, which    *)
(* may belong to one clock domain or to several.                           *)
(***************************************************************************)
EXTENDS Frequency

CONSTANTS
  Domains,   \* clock domains of the CPUs (cpufreq policies)
  DomainOf,  \* DomainOf[c]: the domain of CPU c
  Jitter     \* by how much a reading may differ from what was set

CPUs == 0 .. 3

DomainAssumption == DomainOf \in [CPUs -> Domains] /\ Jitter \subseteq Int

VARIABLES
  governor,  \* governor[d]: whether domain d has the governor "userspace"
  speed,     \* speed[d]: the frequency domain d was set to
  asked,     \* the frequency the last SetCpuFreq was called with
  result,    \* whether it returned 0
  running    \* whether the controller is alive

vars == <<governor, speed, asked, result, running>>

(* Another program has left any governor and any frequency the CPUs can    *)
(* have, which the table lists.                                            *)
Init ==
  /\ governor \in [Domains -> BOOLEAN]
  /\ speed \in [Domains -> Table(cpuFreqs)]
  /\ asked = getMinCpuFreq
  /\ result = FALSE
  /\ running = TRUE

-----------------------------------------------------------------------------
(* scaling_setspeed takes a value only under the governor "userspace".     *)
Writable(n, userspace) == \A c \in 0 .. n - 1 : userspace[DomainOf[c]]

(* CPUs 0 .. n-1 were written f.                                           *)
Written(n, f) ==
  [d \in Domains |-> IF \E c \in 0 .. n - 1 : DomainOf[c] = d THEN f ELSE speed[d]]

Userspace == [governor EXCEPT ![DomainOf[0]] = TRUE]

(* Mutant: the commands are joined by ";", the last one's status counts.   *)
SetCpuFreqLast(f) ==
  /\ asked' = f
  /\ governor' \in {governor, Userspace}
  /\ \E n \in 0 .. 4 : Writable(n, governor') /\ speed' = Written(n, f)
  /\ result' = governor'[DomainOf[3]]
  /\ UNCHANGED running

(* Either the first command fails or n of the four writes are made.        *)
SetCpuFreq(f) ==
  /\ asked' = f
  /\ \/ result' = FALSE /\ UNCHANGED <<governor, speed>>
     \/ /\ governor' = Userspace
        /\ \E n \in 0 .. 4 :
             /\ Writable(n, Userspace)
             /\ speed' = Written(n, f)
             /\ result' = (n = 4)
  /\ UNCHANGED running

(* Mutant: the entry before the one the loop stops at.                     *)
NextReadPrevious(f) ==
  LET i == CHOOSE i \in DOMAIN cpuFreqs : cpuFreqs[i] = getNextCpuFreq(f)
  IN  cpuFreqs[IF i > 2 THEN i - 2 ELSE 1]

(* What getNextCpuFreq(getCurrCpuFreq()) returns when f is read.           *)
NextRead(f) == getNextCpuFreq(f)

(* A policy raises the frequency (external): it reads the current one of   *)
(* CPU 0, which may differ a little from what was set, and sets the next.  *)
(* When nothing can be read, std::stoul throws and the controller ends.    *)
Raise ==
  /\ running
  /\ \/ \E j \in Jitter : SetCpuFreq(NextRead(speed[DomainOf[0]] + j))
     \/ running' = FALSE /\ UNCHANGED <<governor, speed, asked, result>>

Set(f) == running /\ SetCpuFreq(f)

Next == Raise \/ \E f \in Table(cpuFreqs) : Set(f)

Spec == Init /\ [][Next]_vars

-----------------------------------------------------------------------------
(* Every variable has its type.                                            *)
TypeOK ==
  /\ governor \in [Domains -> BOOLEAN]
  /\ speed \in [Domains -> Table(cpuFreqs)]
  /\ asked \in Table(cpuFreqs)
  /\ result \in BOOLEAN
  /\ running \in BOOLEAN

(* When SetCpuFreq reported success, every CPU runs at what was asked for, *)
(* be they one clock domain or several, and whatever earlier calls that    *)
(* stopped halfway have left.                                              *)
CpusTogether == result => \A c \in CPUs : speed[DomainOf[c]] = asked

(* getNextCpuFreq returns the least frequency above the one it is given,   *)
(* or the highest: for what can be read when any frequency was set.        *)
NextIsLeastAbove ==
  \A d \in Domains, j \in Jitter :
    LeastAbove(cpuFreqs, speed[d] + j, getNextCpuFreq(speed[d] + j))

(* Raising never lowers the frequency of CPU 0, although the reading it    *)
(* starts from may be off and the call may stop halfway.                   *)
RaiseNeverLowers == [][speed'[DomainOf[0]] < speed[DomainOf[0]] => ~Raise]_vars
=============================================================================
