------------------------- MODULE RegistryRefinement -------------------------
(***************************************************************************)
(* AppRegister implements Registry: the mapping of its state.              *)
(***************************************************************************)
EXTENDS AppRegister

(* The registry is open as long as the app_register of the running         *)
(* controller exists.                                                      *)
RegistryOpen == ControllerRuns /\ reg[ctl].exists

(* Entries of detached_apps the controller has still to process.           *)
DetachedApps ==
  IF cpc = "run" /\ Phase = "deregisterDetachedApps"
    THEN SubSeq(reg[ctl].detachedApps, loop.i + 1, Len(reg[ctl].detachedApps))
    ELSE reg[ctl].detachedApps

Present == {p \in Pids : proc[p] # "none"}

Queue == IF RegistryOpen THEN NewApps ELSE <<>>

Members == IF RegistryOpen THEN registered ELSE {}

Leaving ==
  IF RegistryOpen THEN {DetachedApps[i] : i \in DOMAIN DetachedApps} ELSE {}

R == INSTANCE Registry WITH
       open <- RegistryOpen, present <- Present, queue <- Queue,
       members <- Members, leaving <- Leaving

(* The registration protocol, with its semaphore, its segments, its loops  *)
(* and with every death and exit in between, behaves as the registry does: *)
(* what applications and the derived class can observe of it is atomic.    *)
ImplementsRegistry == R!Spec

(* Nobody is in two places, and nobody anywhere while no register exists.  *)
OnePlace == R!OnePlace

(* Applications are registered in the order in which their calls of        *)
(* registerAttach wrote to new_apps, through the restarts of its loop and  *)
(* whoever dies meanwhile.                                                 *)
InOrder == R!InOrder
=============================================================================
