----------------------------- MODULE MCPlatform -----------------------------
(***************************************************************************)
(* Values of the constants of Platform for TLC.                            *)
(***************************************************************************)
EXTENDS Platform

(* Two clock domains, of CPUs 0 and 1 and of CPUs 2 and 3.                 *)
TwoDomains == [c \in 0 .. 3 |-> IF c < 2 THEN "d1" ELSE "d2"]

(* The line of ps of one application does not contain another's pid.       *)
GrepSelf == [p \in Apps |-> {p}]

(* A reading is exact or off by one kHz.                                   *)
OneOff == {-1, 0, 1}
=============================================================================
