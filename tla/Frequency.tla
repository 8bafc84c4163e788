----------------------------- MODULE Frequency -----------------------------
(***************************************************************************)
(* The tables of frequencies of Frequency.h, the CPUs' in kHz and the      *)
(* GPU's in Hz, and the next higher frequency of a table (Frequency.cc).   *)
(***************************************************************************)
EXTENDS Integers, Sequences

cpuFreqs ==
  <<102000, 204000, 307200, 403200, 518400, 614400, 710400, 825600, 921600,
    1036800, 1132800, 1224000, 1326000, 1428000, 1479000>>

gpuFreqs ==
  <<76800000, 153600000, 230400000, 307200000, 384000000, 460800000,
    537600000, 614400000, 691200000, 768000000, 844800000, 921600000>>

Table(freqs) == {freqs[i] : i \in DOMAIN freqs}

(* Mutant: the loop goes on only while the frequency is higher.            *)
getNextStrict(freqs, currFrq) ==
  freqs[CHOOSE i \in DOMAIN freqs :
          /\ i = Len(freqs) \/ currFrq <= freqs[i]
          /\ \A j \in 1 .. i - 1 : currFrq > freqs[j]]

(* The loop of getNextCpuFreq and getNextGpuFreq stops at the first index  *)
(* that is the last or has a frequency above the given one.                *)
getNext(freqs, currFrq) ==
  freqs[CHOOSE i \in DOMAIN freqs :
          /\ i = Len(freqs) \/ currFrq < freqs[i]
          /\ \A j \in 1 .. i - 1 : currFrq >= freqs[j]]

(* Both overloads of each compare the values as unsigned integers.         *)
getNextCpuFreq(currFrq) == getNext(cpuFreqs, currFrq)

getNextGpuFreq(currFrq) == getNext(gpuFreqs, currFrq)

getMinCpuFreq == 102000

getMaxCpuFreq == 1479000

getMinGpuFreq == 76800000

(* The next frequency is the least one above the given frequency, or the   *)
(* highest there is: for every frequency of a table and its two neighbours.*)
LeastAbove(freqs, f, g) ==
  LET above == {h \in Table(freqs) : h > f}
  IN  IF above = {} THEN \A h \in Table(freqs) : h <= g
                    ELSE g \in above /\ \A h \in above : g <= h
=============================================================================
