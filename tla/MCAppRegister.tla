--------------------------- MODULE MCAppRegister ---------------------------
(***************************************************************************)
(* Values of the constants of AppRegister for TLC.                         *)
(***************************************************************************)
EXTENDS RegistryRefinement, TLC

CONSTANTS p1, p2   \* two pids, told apart by GrepOverlap

(* The order in which every detached or dead pid is met in the map.        *)
SafeOrder == <<"registerNewApps", "deregisterDetachedApps", "deregisterDeadApps">>

(* The order in which Policy.h declares the helpers.                       *)
DeclaredOrder == <<"deregisterDeadApps", "deregisterDetachedApps", "registerNewApps">>

(* No pid's digits occur in the "ps" line of another process ...           *)
GrepSelf == [p \in Pids |-> {p}]

(* ... or they do: as 123 in 1234.                                         *)
GrepOverlap == [p \in Pids |-> IF p = p1 THEN {p1, p2} ELSE {p}]

Symmetry == Permutations(Pids)
=============================================================================
