---------------------------- MODULE GpuFrequency ----------------------------
(***************************************************************************)
(* SetGpuFreq keeps the GPU powered and then makes three writes to its     *)
(* range of frequencies, joined by "&&": the first command that fails ends *)
(* the chain, and what was written before it stays.                        *)
(***************************************************************************)
EXTENDS Frequency

VARIABLES
  gpu,     \* min_freq, max_freq, and whether railgate_enable is 0
  asked,   \* the frequency the last SetGpuFreq was called with
  result   \* whether it returned 0

vars == <<gpu, asked, result>>

GpuRanges ==
  [min : Table(gpuFreqs), max : Table(gpuFreqs), powered : BOOLEAN]

(* Whatever another program has left.                                      *)
Init ==
  /\ gpu \in {g \in GpuRanges : g.min <= g.max}
  /\ asked = getMinGpuFreq
  /\ result = FALSE

(* Mutant: the upper bound is written before the lower one is lowered.     *)
GpuWritesSwapped(f) == <<<<"max", f>>, <<"min", getMinGpuFreq>>, <<"min", f>>>>

(* Mutant: the lower bound is not raised again.                            *)
GpuWritesNoPin(f) ==
  <<<<"min", getMinGpuFreq>>, <<"max", f>>, <<"min", getMinGpuFreq>>>>

GpuWrites(f) == <<<<"min", getMinGpuFreq>>, <<"max", f>>, <<"min", f>>>>

(* The kernel keeps min_freq at or below max_freq.                         *)
Fits(g, w) == IF w[1] = "min" THEN w[2] <= g.max ELSE w[2] >= g.min

(* The GPU after the first n writes.                                       *)
AfterWrites(n, f) ==
  LET after[k \in 0 .. n] ==
        IF k = 0 THEN [gpu EXCEPT !.powered = TRUE]
                 ELSE [after[k - 1] EXCEPT ![GpuWrites(f)[k][1]] = GpuWrites(f)[k][2]]
  IN  after[n]

Accepted(n, f) == \A k \in 1 .. n : Fits(AfterWrites(k - 1, f), GpuWrites(f)[k])

SetGpuFreq(f) ==
  /\ asked' = f
  /\ \/ result' = FALSE /\ UNCHANGED gpu
     \/ \E n \in 0 .. 3 :
          /\ Accepted(n, f)
          /\ gpu' = AfterWrites(n, f)
          /\ result' = (n = 3)

Next == \E f \in Table(gpuFreqs) : SetGpuFreq(f)

Spec == Init /\ [][Next]_vars

-----------------------------------------------------------------------------
(* Every variable has its type; the kernel keeps the range in order.       *)
TypeOK ==
  /\ gpu \in GpuRanges
  /\ gpu.min <= gpu.max
  /\ asked \in Table(gpuFreqs)
  /\ result \in BOOLEAN

(* No command is refused because of the order of the bounds, whatever      *)
(* range an earlier call that stopped halfway, or another program, has     *)
(* left: only a failure from outside makes SetGpuFreq fail.                *)
OrderAccepted == \A f \in Table(gpuFreqs) : Accepted(3, f)

(* A call that stopped halfway leaves the GPU able to run at its lowest    *)
(* frequency or as it was; one that succeeded pins it to what was asked.   *)
PinnedOrFree ==
  [][IF result' THEN gpu'.min = asked' /\ gpu'.max = asked' /\ gpu'.powered
                ELSE gpu'.min \in {gpu.min, getMinGpuFreq}]_vars

(* getNextGpuFreq returns the least frequency above the one it is given,   *)
(* or the highest.                                                         *)
NextIsLeastAbove ==
  \A f \in gpu.max - 1 .. gpu.max + 1 :
    LeastAbove(gpuFreqs, f, getNextGpuFreq(f))
=============================================================================
