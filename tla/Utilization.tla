---------------------------- MODULE Utilization ----------------------------
(***************************************************************************)
(* How computeUtilization turns /proc/stat into the load of each CPU since *)
(* the previous call, while the kernel counts and CPUs go off and on line. *)
(*                                                                         *)
(* /proc/stat begins with a line of totals and a line per online CPU, in   *)
(* ascending order.  fgets reads it in pieces of less than 80 characters:  *)
(* a line too long for that comes as two pieces, of which the first holds  *)
(* the counters that are read and the second names no CPU.                 *)
(***************************************************************************)
EXTENDS Integers, SequencesExt

CONSTANTS
  nCores,     \* nCores, and the number of CPUs of the machine
  Counting,   \* CPUs whose counters advance
  Switching,  \* CPUs that go off and on line
  LongAt,     \* from how many ticks on a line is longer than the buffer
  MaxTicks    \* bound: the value counters stop at

CPUs == 0 .. nCores - 1

UtilizationAssumption ==
  /\ nCores \in 1 .. 99
  /\ Counting \subseteq CPUs /\ Switching \subseteq CPUs \ {0}
  /\ LongAt \in Nat /\ MaxTicks \in Nat

VARIABLES
  stat,    \* busy and idle ticks the kernel has counted for each CPU
  online,  \* the CPUs with a line in /proc/stat
  prev,    \* prevUserUtilization, prevSystemUtilization, prevIdleUtilization
  usage,   \* the result of the last computeUtilization
  seen     \* history: stat when computeUtilization last met the CPU online

vars == <<stat, online, prev, usage, seen>>

(* User and system time enter the result only as a sum, which is "busy".   *)
Counters == [busy : Nat, idle : Nat]

Init ==
  /\ stat = [c \in CPUs |-> [busy |-> 0, idle |-> 0]]
  /\ online = CPUs
  /\ prev = stat
  /\ usage = [c \in CPUs |-> 0]
  /\ seen = stat

(* The kernel counts a tick of CPU c, or switches c.                       *)
Count(c, kind) ==
  /\ c \in online \cap Counting
  /\ stat[c][kind] < MaxTicks
  /\ stat' = [stat EXCEPT ![c][kind] = @ + 1]
  /\ UNCHANGED <<online, prev, usage, seen>>

Switch(c) ==
  /\ online' = SymDiff(online, {c})
  /\ UNCHANGED <<stat, prev, usage, seen>>

-----------------------------------------------------------------------------
(* The pieces fgets returns: the number of the CPU a piece names, or -1.   *)
Total == SumFunctionOnSet([c \in CPUs |-> stat[c].busy + stat[c].idle], CPUs)

Line(c) ==
  IF c \notin online THEN <<>>
  ELSE IF stat[c].busy + stat[c].idle >= LongAt THEN <<c, -1>> ELSE <<c>>

Pieces ==
  (IF Total >= LongAt THEN <<-1, -1>> ELSE <<-1>>)
    \o FlattenSeq([i \in 1 .. nCores |-> Line(i - 1)])
    \o <<-1>>

(* Whether a piece begins with "cpu" and the character '0' + i: from 10 on *)
(* that is no digit, and below it may be the first of two.                 *)
Matches(piece, i) ==
  piece >= 0 /\ i <= 9 /\ i = IF piece < 10 THEN piece ELSE piece \div 10

(* Mutant: the next piece is read whether or not this one matched.         *)
PieceAtAlways(i) == i + 2

(* The loop, which stops at the end of the file: the piece it holds when   *)
(* it comes to CPU i.  The first is discarded; another is read only when   *)
(* the one at hand matched.                                                *)
PieceAt(i) ==
  LET pieces == Pieces
      at[j \in 0 .. i] ==
        IF j = 0 THEN 2
        ELSE IF at[j - 1] <= Len(pieces) /\ Matches(pieces[at[j - 1]], j - 1)
               THEN at[j - 1] + 1
               ELSE at[j - 1]
  IN  at[i]

Found(i) == PieceAt(i) <= Len(Pieces) /\ Matches(Pieces[PieceAt(i)], i)

Read(i) == stat[Pieces[PieceAt(i)]]

(* Mutant: the idle time of the interval alone is what is divided by.      *)
computeCoreUtilizationIdle(now, before) ==
  LET busy == now.busy - before.busy
      total == now.idle - before.idle
  IN  IF total = 0 THEN 0 ELSE (busy * 100) \div total

(* computeCoreUtilization: the code subtracts the other way round, in      *)
(* dividend and divisor alike.                                             *)
computeCoreUtilization(now, before) ==
  LET busy == now.busy - before.busy
      total == busy + now.idle - before.idle
  IN  IF total = 0 THEN 0 ELSE (busy * 100) \div total

(* computeUtilization; when the file cannot be opened all CPUs are at 0.   *)
computeUtilization ==
  /\ \/ /\ usage' = [c \in CPUs |->
                     IF Found(c) THEN computeCoreUtilization(Read(c), prev[c]) ELSE 0]
        /\ prev' = [c \in CPUs |-> IF Found(c) THEN Read(c) ELSE prev[c]]
        /\ seen' = [c \in CPUs |-> IF c \in online THEN stat[c] ELSE seen[c]]
     \/ usage' = [c \in CPUs |-> 0] /\ UNCHANGED <<prev, seen>>
  /\ UNCHANGED <<stat, online>>

Next ==
  \/ \E c \in CPUs, kind \in {"busy", "idle"} : Count(c, kind)
  \/ \E c \in Switching : Switch(c)
  \/ computeUtilization

Spec == Init /\ [][Next]_vars

-----------------------------------------------------------------------------
(* Of the CPUs from 10 on only the first digit is compared: with CPUs 1 to *)
(* 9 offline the line of CPU 10 would be taken for CPU 1's.  It cannot     *)
(* happen where there are no such CPUs or CPU 9 stays online.              *)
TenthStays == nCores > 10 => 9 \notin Switching

(* Every variable has its type, and a usage is a percentage.               *)
TypeOK ==
  /\ stat \in [CPUs -> Counters] /\ prev \in [CPUs -> Counters]
  /\ seen \in [CPUs -> Counters]
  /\ online \subseteq CPUs
  /\ TenthStays => usage \in [CPUs -> 0 .. 100]

(* The share of busy ticks among all that CPU c counted since it was last  *)
(* met online, which is 0 when it is offline.                              *)
Share(c) ==
  LET busy == stat[c].busy - seen[c].busy
      all == busy + stat[c].idle - seen[c].idle
  IN  IF c \notin online \/ all = 0 THEN 0 ELSE (busy * 100) \div all

Reported(C) == \A c \in C : usage'[c] = Share(c)

(* As long as the lines fit the buffer and TenthStays, the load of each of *)
(* the first ten CPUs is the share of busy ticks since it was last read,   *)
(* whichever CPUs are offline or have been: none takes another's line, and *)
(* no tick is counted in two intervals or in none.                         *)
LoadOfEach ==
  [][TenthStays /\ seen' # seen /\ Total < LongAt => Reported(CPUs \cap 0 .. 9)]_vars
=============================================================================
