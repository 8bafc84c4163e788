----------------------- MODULE AppRegisterMap_proofs -----------------------
(***************************************************************************)
(* The map registeredApps, new_apps and the cores stay consistent, for     *)
(* every number of applications, controllers and cores, every order of the *)
(* helpers, and whether or not signals interrupt waits.                    *)
(*                                                                         *)
(* The argument does not use the lock.  shmget with IPC_EXCL is what keeps *)
(* a pid from being twice in the map and new_apps: the app_data segment of *)
(* an application that waits in new_apps or is in the map exists, and      *)
(* nobody with its pid gets past the creation of that segment.  The cores  *)
(* follow from the map, and so do the control groups, if the line of ps of *)
(* no application contains the digits of another's pid (ExactMatches).     *)
(***************************************************************************)
EXTENDS AppRegister_proofs, FiniteSetTheorems, FunctionTheorems

(* How many entries of new_apps the controller has processed, and the      *)
(* indices of the others.                                                  *)
Skipped == IF cpc = "run" /\ Phase = "registerNewApps" THEN loop.i ELSE 0

Waiting == Skipped + 1 .. Len(reg[ctl].newApps)

(* From the creation of the app_data to the entry in new_apps.             *)
AttachingPCs == {"attachSem", "attachWait", "attachCheck", "attachWrite"}

HomesStarted == \A p \in Pids : home[p] \in started \cup {NoPid}

FreshLists == \A c \in Controllers \ started : reg[c].newApps = <<>>

LoopBounds ==
  /\ cpc = "run" /\ Phase = "registerNewApps" => loop.i <= Len(reg[ctl].newApps)
  /\ cpc = "run" /\ Phase = "deregisterDeadApps" => loop.todo \subseteq registered

WaitingOnce ==
  ControllerRuns =>
    \A i \in Waiting :
      /\ reg[ctl].newApps[i] \in dataSeg \ registered
      /\ \A j \in Waiting : reg[ctl].newApps[i] = reg[ctl].newApps[j] => i = j

MapHasData == ControllerRuns => registered \subseteq dataSeg

AttachingNew ==
  \A p \in Pids : pc[p] \in AttachingPCs =>
    /\ p \in dataSeg
    /\ ControllerRuns => p \notin registered /\ \A i \in Waiting : reg[ctl].newApps[i] # p

MapInv ==
  /\ HomesStarted /\ FreshLists /\ LoopBounds
  /\ WaitingOnce /\ MapHasData /\ AttachingNew

-----------------------------------------------------------------------------
(* Steps that only take away.                                              *)

(* What the proofs need of the list of the running controller.             *)
LEMMA ListType ==
  ASSUME TypeOK, ControllerRuns
  PROVE  /\ ctl \in Controllers /\ reg[ctl].newApps \in Seq(Pids)
         /\ Len(reg[ctl].newApps) \in Nat
         /\ Skipped \in Nat
         /\ \A i \in Waiting : i \in Nat /\ reg[ctl].newApps[i] \in Pids
<1>1. ctl \in Controllers
  BY DEF TypeOK
<1>2. reg[ctl].newApps \in Seq(Pids)
  BY <1>1, RegisterLists
<1>3. Skipped \in Nat
  BY DEF TypeOK, Skipped
<1> QED
  BY <1>1, <1>2, <1>3 DEF Waiting

(* No entry joins new_apps or the map, an app_data segment goes only with  *)
(* its App, and nobody begins to attach.                                   *)
LEMMA MapShrinks ==
  ASSUME TypeOK, MapInv, UNCHANGED ctl,
         registered' \subseteq registered,
         ControllerRuns' => /\ ControllerRuns
                            /\ \A i \in Waiting' : i \in Waiting /\ reg'[ctl].newApps[i] = reg[ctl].newApps[i],
         ControllerRuns \/ dataSeg \subseteq dataSeg',
         ControllerRuns => \A p \in dataSeg : p \in dataSeg' \/ p \in registered \ registered',
         \A p \in Pids : pc'[p] \in AttachingPCs => pc[p] \in AttachingPCs
  PROVE  WaitingOnce' /\ MapHasData' /\ AttachingNew'
<1>1. WaitingOnce'
  BY DEF MapInv, WaitingOnce
<1>2. MapHasData'
  BY DEF MapInv, MapHasData
<1>3. AttachingNew'
  BY DEF MapInv, AttachingNew
<1> QED
  BY <1>1, <1>2, <1>3

(* The map and the list stay, nobody begins to attach.                     *)
LEMMA MapStays ==
  ASSUME TypeOK, MapInv, UNCHANGED <<ctl, started, registered, dataSeg>>,
         \A c \in Controllers : reg'[c].newApps = reg[c].newApps,
         ControllerRuns' => ControllerRuns /\ Skipped' = Skipped,
         LoopBounds',
         \A p \in Pids : /\ pc'[p] \in AttachingPCs => pc[p] \in AttachingPCs
                         /\ home'[p] \in {home[p], NoPid} \/ (ControllerRuns /\ home'[p] = ctl)
  PROVE  MapInv'
<1>1. HomesStarted'
  BY DEF MapInv, HomesStarted, TypeOK
<1>2. FreshLists'
  BY DEF MapInv, FreshLists
<1>3. WaitingOnce' /\ MapHasData' /\ AttachingNew'
  <2>1. ControllerRuns' => /\ ControllerRuns
                           /\ \A i \in Waiting' : i \in Waiting /\ reg'[ctl].newApps[i] = reg[ctl].newApps[i]
    BY ListType DEF Waiting
  <2> QED
    BY <2>1, MapShrinks
<1> QED
  BY <1>1, <1>2, <1>3 DEF MapInv

(* ... in particular when the controller does nothing.                     *)
LEMMA AppMoves ==
  ASSUME TypeOK, MapInv, UNCHANGED <<ctlVars, dataSeg>>,
         \A c \in Controllers : reg'[c].newApps = reg[c].newApps,
         \A p \in Pids : /\ pc'[p] \in AttachingPCs => pc[p] \in AttachingPCs
                         /\ home'[p] \in {home[p], NoPid} \/ (ControllerRuns /\ home'[p] = ctl)
  PROVE  MapInv'
<1>1. UNCHANGED <<ctl, cpc, started, loop, registered>>
  BY DEF ctlVars, policyVars
<1>2. Skipped' = Skipped /\ (ControllerRuns' <=> ControllerRuns)
  BY <1>1 DEF Skipped, Phase, ControllerRuns
<1>3. LoopBounds'
  <2>1. cpc = "run" => reg'[ctl].newApps = reg[ctl].newApps
    BY DEF TypeOK, ControllerRuns, Ended
  <2> QED
    BY <1>1, <2>1 DEF MapInv, LoopBounds, Phase
<1> QED
  BY <1>1, <1>2, <1>3, MapStays

-----------------------------------------------------------------------------
(* Applications.                                                           *)

(* The entry an application adds to new_apps is not there and not in the   *)
(* map.                                                                    *)
LEMMA MapAttachWrite ==
  ASSUME TypeOK, MapInv, NEW p \in Pids, AttachWrite(p)
  PROVE  MapInv'
<1>1. /\ home[p] \in Controllers /\ home[p] \in started
      /\ pc[p] = "attachWrite" /\ pc' = [pc EXCEPT ![p] = "attachPost"]
      /\ UNCHANGED <<home, ctl, cpc, started, loop, registered, dataSeg>>
  BY PidsAssumption
     DEF AttachWrite, At, Goto, TypeOK, MapInv, HomesStarted, ctlVars, policyVars, Procs
<1>2. /\ reg'[home[p]].newApps = Append(reg[home[p]].newApps, p)
      /\ \A c \in Controllers \ {home[p]} : reg'[c] = reg[c]
  BY <1>1 DEF AttachWrite, TypeOK, Registers
<1>3. Skipped' = Skipped /\ (ControllerRuns' <=> ControllerRuns)
  BY <1>1 DEF Skipped, Phase, ControllerRuns
<1>4. HomesStarted' /\ FreshLists'
  BY <1>1, <1>2 DEF MapInv, HomesStarted, FreshLists
<1>5. \A q \in Pids : pc'[q] \in AttachingPCs => q # p /\ pc[q] \in AttachingPCs
  BY <1>1 DEF TypeOK, AttachingPCs
<1>6. CASE ~ControllerRuns
  <2>1. LoopBounds'
    BY <1>1, <1>6 DEF LoopBounds, ControllerRuns, Ended
  <2>2. WaitingOnce' /\ MapHasData' /\ AttachingNew'
    BY <1>1, <1>3, <1>5, <1>6 DEF MapInv, WaitingOnce, MapHasData, AttachingNew
  <2> QED
    BY <1>4, <2>1, <2>2 DEF MapInv
<1>7. CASE ControllerRuns /\ home[p] # ctl
  <2>1. reg'[ctl] = reg[ctl]
    BY <1>2, <1>7, ListType
  <2>2. LoopBounds'
    BY <1>1, <2>1 DEF MapInv, LoopBounds, Phase
  <2>3. WaitingOnce' /\ MapHasData' /\ AttachingNew'
    BY <1>1, <1>3, <1>5, <2>1 DEF MapInv, WaitingOnce, MapHasData, AttachingNew, Waiting
  <2> QED
    BY <1>4, <2>2, <2>3 DEF MapInv
<1>8. CASE ControllerRuns /\ home[p] = ctl
  <2> DEFINE s == reg[ctl].newApps
  <2>1. /\ s \in Seq(Pids) /\ Len(s) \in Nat /\ Skipped \in Nat
        /\ reg'[ctl].newApps = Append(s, p)
    BY <1>2, <1>8, ListType
  <2>2. /\ Len(Append(s, p)) = Len(s) + 1
        /\ \A i \in 1 .. Len(s) : Append(s, p)[i] = s[i]
        /\ Append(s, p)[Len(s) + 1] = p
    BY <2>1
  <2>3. \A i \in Waiting' : \/ i \in Waiting /\ reg'[ctl].newApps[i] = s[i]
                            \/ i = Len(s) + 1 /\ reg'[ctl].newApps[i] = p
    BY <1>1, <1>3, <2>1, <2>2 DEF Waiting
  <2>4. p \in dataSeg \ registered /\ \A i \in Waiting : s[i] # p
    BY <1>1, <1>8 DEF MapInv, AttachingNew, AttachingPCs
  <2>5. LoopBounds'
    <3>1. cpc = "run" /\ Phase = "registerNewApps" => loop.i \in Nat /\ loop.i <= Len(s)
      BY DEF MapInv, LoopBounds, TypeOK
    <3> QED
      BY <1>1, <2>1, <2>2, <3>1 DEF MapInv, LoopBounds, Phase
  <2> HIDE DEF s
  <2>6. \A i \in Waiting : s[i] \in dataSeg \ registered /\ \A j \in Waiting : s[i] = s[j] => i = j
    BY <1>8 DEF MapInv, WaitingOnce, s
  <2>7. WaitingOnce'
    <3> SUFFICES ASSUME NEW i \in Waiting'
                 PROVE  /\ reg'[ctl].newApps[i] \in dataSeg \ registered
                        /\ \A j \in Waiting' : reg'[ctl].newApps[i] = reg'[ctl].newApps[j] => i = j
      BY <1>1 DEF WaitingOnce
    <3> QED
      BY <2>3, <2>4, <2>6
  <2>8. MapHasData'
    BY <1>1, <1>3 DEF MapInv, MapHasData
  <2>9. AttachingNew'
    <3> SUFFICES ASSUME NEW q \in Pids, pc'[q] \in AttachingPCs
                 PROVE  /\ q \in dataSeg /\ q \notin registered
                        /\ \A i \in Waiting' : reg'[ctl].newApps[i] # q
      BY <1>1 DEF AttachingNew
    <3>1. q # p /\ q \in dataSeg /\ q \notin registered /\ \A i \in Waiting : s[i] # q
      BY <1>5, <1>8 DEF MapInv, AttachingNew, s
    <3> QED
      BY <2>3, <3>1
  <2> QED
    BY <1>4, <2>5, <2>7, <2>8, <2>9 DEF MapInv
<1> QED
  BY <1>6, <1>7, <1>8

(* The other steps inside the client library touch neither new_apps nor    *)
(* the app_data segments.                                                  *)
LEMMA MapAppStep ==
  ASSUME TypeOK, MapInv, NEW p \in Pids, AppStep(p)
  PROVE  MapInv'
<1> USE DEF AttachingPCs, Goto, Continues, Dies, At, TypeOK
<1>1. CASE AttachSem(p) \/ DetachSem(p) \/ AttachCheck(p) \/ DetachCheck(p)
  <2>1. /\ UNCHANGED <<reg, dataSeg, ctlVars>>
        /\ \A q \in Pids : /\ pc'[q] \in AttachingPCs => pc[q] \in AttachingPCs
                           /\ home'[q] \in {home[q], NoPid}
    BY <1>1 DEF AttachSem, DetachSem, AttachCheck, DetachCheck, GetRegisterSem
  <2> QED
    BY <2>1, AppMoves, PidsAssumption DEF MapInv, Procs
<1>2. CASE AttachWait(p) \/ DetachWait(p) \/ AttachPost(p) \/ DetachPost(p)
  BY <1>2, AppMoves DEF AttachWait, DetachWait, AttachPost, DetachPost, WaitRegister, PostRegister
<1>3. CASE DetachData(p)
  <2>1. /\ UNCHANGED <<reg, dataSeg, ctlVars>>
        /\ \A q \in Pids : /\ pc'[q] \in AttachingPCs => pc[q] \in AttachingPCs
                           /\ home'[q] \in {home[q], NoPid}
    BY <1>3 DEF DetachData
  <2> QED
    BY <2>1, AppMoves DEF MapInv
<1>4. CASE DetachWrite(p)
  <2>1. \A c \in Controllers : reg'[c].newApps = reg[c].newApps
    BY <1>4 DEF DetachWrite, Registers
  <2> QED
    BY <1>4, <2>1, AppMoves DEF DetachWrite
<1>5. CASE AttachWrite(p)
  BY <1>5, MapAttachWrite
<1> QED
  BY <1>1, <1>2, <1>3, <1>4, <1>5 DEF AppStep

(* registerAttach gets past shmget with IPC_EXCL only when no segment has  *)
(* the pid, so that neither new_apps nor the map has it.                   *)
LEMMA MapAttachCreate ==
  ASSUME TypeOK, MapInv, NEW p \in Pids, AttachCreate(p)
  PROVE  MapInv'
<1>1. /\ ControllerRuns /\ p \notin dataSeg /\ dataSeg' = dataSeg \cup {p}
      /\ UNCHANGED <<reg, ctl, cpc, started, loop, registered>>
      /\ home' = [home EXCEPT ![p] = ctl] /\ pc' = [pc EXCEPT ![p] = "attachSem"]
  BY DEF AttachCreate, CreateData, Goto, ctlVars, policyVars
<1>2. Skipped' = Skipped /\ ControllerRuns' /\ Waiting' = Waiting
  BY <1>1 DEF Skipped, Phase, ControllerRuns, Waiting
<1>3. p \notin registered /\ \A i \in Waiting : reg[ctl].newApps[i] # p
  BY <1>1 DEF MapInv, WaitingOnce, MapHasData
<1>4. HomesStarted' /\ FreshLists'
  BY <1>1 DEF MapInv, HomesStarted, FreshLists, TypeOK
<1>5. LoopBounds' /\ WaitingOnce' /\ MapHasData'
  BY <1>1, <1>2 DEF MapInv, LoopBounds, WaitingOnce, MapHasData, Phase
<1>6. AttachingNew'
  BY <1>1, <1>2, <1>3 DEF MapInv, AttachingNew, TypeOK
<1> QED
  BY <1>4, <1>5, <1>6 DEF MapInv

(* A controller starts with an empty map and with lists nobody has written *)
(* to.                                                                     *)
LEMMA MapStart ==
  ASSUME TypeOK, MapInv, NEW c \in Controllers, Start(c)
  PROVE  MapInv'
<1>1. /\ ctl' = c /\ cpc' = "boot" /\ started' = started \cup {c} /\ registered' = {}
      /\ UNCHANGED <<home, pc, reg, dataSeg>> /\ c \notin started
  BY DEF Start, appVars, ipcVars
<1>2. reg'[c].newApps = <<>>
  BY <1>1 DEF MapInv, FreshLists
<1>3. Waiting' = {}
  BY <1>1, <1>2 DEF Waiting, Skipped
<1>4. HomesStarted' /\ FreshLists' /\ LoopBounds'
  BY <1>1 DEF MapInv, HomesStarted, FreshLists, LoopBounds
<1>5. WaitingOnce' /\ MapHasData' /\ AttachingNew'
  BY <1>1, <1>3 DEF MapInv, WaitingOnce, MapHasData, AttachingNew
<1> QED
  BY <1>4, <1>5 DEF MapInv

(* What applications, users and the derived class do, and deaths, keep the *)
(* map consistent.                                                         *)
LEMMA MapEnvironment ==
  ASSUME TypeOK, MapInv, Environment
  PROVE  MapInv'
<1>1. ASSUME NEW p \in Pids, Spawn(p) \/ Reap(p) PROVE MapInv'
  BY <1>1, AppMoves DEF Spawn, Reap, ipcVars
<1>2. ASSUME NEW p \in Pids, Crash(p) \/ AttachRefused(p) \/ DetachBegin(p)
      PROVE  MapInv'
  <2>1. /\ UNCHANGED <<reg, dataSeg, ctlVars>>
        /\ \A q \in Pids : /\ pc'[q] \in AttachingPCs => pc[q] \in AttachingPCs
                           /\ home'[q] \in {home[q], NoPid} \/ (ControllerRuns /\ home'[q] = ctl)
    BY <1>2 DEF Crash, AttachRefused, DetachBegin, Dies, Goto, AttachingPCs, TypeOK
  <2> QED
    BY <2>1, AppMoves
<1>3. ASSUME NEW p \in Pids, AttachCreate(p) PROVE MapInv'
  BY <1>3, MapAttachCreate
<1>4. ASSUME NEW p \in Pids, NEW k \in Cores, AssignCore(p, k) PROVE MapInv'
  <2>1. UNCHANGED <<appVars, ipcVars, ctl, cpc, started, loop, registered>>
    BY <1>4 DEF AssignCore
  <2>2. Skipped' = Skipped /\ (ControllerRuns' <=> ControllerRuns) /\ LoopBounds'
    BY <2>1 DEF Skipped, Phase, ControllerRuns, MapInv, LoopBounds, ipcVars
  <2> QED
    BY <2>1, <2>2, MapStays DEF appVars, ipcVars
<1>5. ASSUME NEW c \in Controllers, Start(c) PROVE MapInv'
  BY <1>5, MapStart
<1>6. CASE ControllerCrash
  <2>1. /\ UNCHANGED <<appVars, reg, dataSeg, ctl, started, loop, registered>>
        /\ cpc' = "killed"
    BY <1>6 DEF ControllerCrash, ControllerEnds, policyVars
  <2>2. ~ControllerRuns' /\ LoopBounds'
    BY <2>1 DEF ControllerRuns, Ended, LoopBounds
  <2> QED
    BY <2>1, <2>2, MapStays DEF appVars
<1>7. CASE DestroyBegin
  <2>1. /\ UNCHANGED <<appVars, reg, dataSeg, ctl, started, loop, registered>>
        /\ cpc = "idle" /\ cpc' = "destroy"
    BY <1>7 DEF DestroyBegin, Lock, ControllerGoto, policyVars
  <2>2. ControllerRuns /\ Skipped' = Skipped /\ LoopBounds'
    BY <2>1 DEF ControllerRuns, Ended, Skipped, LoopBounds
  <2> QED
    BY <2>1, <2>2, MapStays DEF appVars
<1> QED
  BY <1>1, <1>2, <1>3, <1>4, <1>5, <1>6, <1>7 DEF Environment

-----------------------------------------------------------------------------
(* The controller.                                                         *)

(* The map and the list stay; before and after the step the controller has *)
(* skipped nothing of the list, or it ends.                                *)
LEMMA ControllerStays ==
  ASSUME TypeOK, MapInv, UNCHANGED <<pc, home, ctl, started, registered, dataSeg>>,
         \A c \in Controllers : reg'[c].newApps = reg[c].newApps,
         \/ ~ControllerRuns' 
         \/ ControllerRuns /\ Skipped = 0 /\ Skipped' = 0,
         cpc' = "run" => EnterPhase(loop'.phase)
  PROVE  MapInv'
<1>1. LoopBounds'
  <2>1. cpc' = "run" => loop'.i = 0 /\ (Phase' = "deregisterDeadApps" => loop'.todo = registered)
    BY DEF EnterPhase, Phase
  <2>2. cpc' = "run" => 0 <= Len(reg'[ctl].newApps)
    <3>1. cpc' = "run" => ControllerRuns
      BY DEF ControllerRuns, Ended
    <3>2. ControllerRuns => reg'[ctl].newApps = reg[ctl].newApps /\ Len(reg[ctl].newApps) \in Nat
      BY ListType
    <3> QED
      BY <3>1, <3>2
  <2> QED
    BY <2>1, <2>2 DEF LoopBounds
<1> QED
  BY <1>1, MapStays

(* Boot and the end of the destructor.                                     *)
LEMMA MapBoot ==
  ASSUME TypeOK, MapInv, Boot
  PROVE  MapInv'
<1>1. UNCHANGED <<pc, home, ctl, started, registered, dataSeg>>
  BY DEF Boot, SemaphoreCreate, SemaphoreInit, BootLock, RegisterCreate, BootUnlock,
         SetupGroups, Lock, Unlock, appVars, policyVars
<1>2. cpc # "run" /\ cpc' # "run" /\ ControllerRuns
  BY DEF Boot, SemaphoreCreate, SemaphoreInit, BootLock, RegisterCreate, BootUnlock,
         SetupGroups, Lock, Unlock, ControllerGoto, ControllerEnds, ControllerRuns, Ended
<1>3. CASE RegisterCreate
  <2>1. /\ reg'[ctl].newApps = <<>>
        /\ \A c \in Controllers \ {ctl} : reg'[c] = reg[c]
    BY <1>2, <1>3, ListType DEF RegisterCreate, NoRegister, TypeOK
  <2>2. Waiting' = {}
    BY <1>1, <1>2, <2>1 DEF Waiting, Skipped
  <2>3. LoopBounds' /\ HomesStarted'
    BY <1>1, <1>2 DEF LoopBounds, MapInv, HomesStarted
  <2>4. FreshLists'
    BY <1>1, <2>1 DEF MapInv, FreshLists
  <2>5. WaitingOnce' /\ MapHasData' /\ AttachingNew'
    BY <1>1, <1>2, <2>2, MapShrinks
  <2> QED
    BY <2>3, <2>4, <2>5 DEF MapInv
<1>4. CASE ~RegisterCreate
  <2>1. UNCHANGED reg
    BY <1>4 DEF Boot, SemaphoreCreate, SemaphoreInit, BootLock, BootUnlock,
         SetupGroups, Lock, Unlock
  <2> QED
    BY <1>1, <1>2, <2>1, ControllerStays DEF Skipped
<1> QED
  BY <1>3, <1>4

(* A segment goes with its App.                                            *)
LEMMA AppDestroyedShrinks ==
  ASSUME TypeOK, MapInv, NEW p \in Pids, NEW G, AppsDestroyed({p}, G), p \in registered,
         registered' = registered \ {p}, UNCHANGED <<reg, pc, home, ctl, started, cpc>>,
         ControllerRuns, \A i \in Waiting' : i \in Waiting, LoopBounds'
  PROVE  MapInv'
<1>1. dataSeg' = dataSeg \ {p}
  BY DEF AppsDestroyed
<1>2. HomesStarted' /\ FreshLists'
  BY DEF MapInv, HomesStarted, FreshLists
<1>3. WaitingOnce' /\ MapHasData' /\ AttachingNew'
  <2>1. ControllerRuns' <=> ControllerRuns
    BY DEF ControllerRuns
  <2> QED
    BY <1>1, <2>1, MapShrinks
<1> QED
  BY <1>2, <1>3 DEF MapInv

(* deregisterDeadApps erases members of the map only.                      *)
LEMMA MapDeregisterDeadApp ==
  ASSUME TypeOK, MapInv, NEW p \in Pids, DeregisterDeadApp(p)
  PROVE  MapInv'
<1>1. /\ cpc = "run" /\ UNCHANGED <<pc, home, reg, ctl, cpc, started>>
      /\ Phase = "deregisterDeadApps" /\ p \in loop.todo
      /\ loop' = [loop EXCEPT !.todo = @ \ {p}] /\ ControllerRuns
  BY DEF DeregisterDeadApp, appVars, ControllerRuns, Ended
<1>2. loop'.phase = loop.phase /\ loop'.i = loop.i /\ loop'.todo = loop.todo \ {p}
  BY <1>1 DEF TypeOK
<1>3. Phase' = Phase /\ Skipped' = Skipped /\ Waiting' = Waiting /\ ControllerRuns'
  BY <1>1, <1>2 DEF Phase, Skipped, Waiting, ControllerRuns
<1>4. CASE isAppRunning(p)
  <2>1. UNCHANGED <<dataSeg, registered>>
    BY <1>4 DEF DeregisterDeadApp, policyVars
  <2>2. LoopBounds'
    BY <1>1, <1>2, <1>3, <2>1 DEF MapInv, LoopBounds
  <2> QED
    BY <1>1, <1>3, <2>1, <2>2, MapStays
<1>5. CASE ~isAppRunning(p)
  <2>1. AppsDestroyed({p}, cgroups) /\ registered' = registered \ {p}
    BY <1>5 DEF DeregisterDeadApp, Deregister
  <2>2. p \in registered
    BY <1>1 DEF MapInv, LoopBounds
  <2>3. LoopBounds'
    BY <1>1, <1>2, <1>3, <2>1 DEF MapInv, LoopBounds
  <2> QED
    BY <1>1, <1>3, <2>1, <2>2, <2>3, AppDestroyedShrinks
<1> QED
  BY <1>4, <1>5

(* deregisterDetachedApps erases a member of the map, or ends the          *)
(* controller.                                                             *)
LEMMA MapDeregisterDetachedApp ==
  ASSUME TypeOK, MapInv, DeregisterDetachedApp
  PROVE  MapInv'
<1> DEFINE p == reg[ctl].detachedApps[loop.i + 1]
<1>1. /\ cpc = "run" /\ UNCHANGED <<pc, home, reg, ctl, started>>
      /\ Phase = "deregisterDetachedApps" /\ ControllerRuns /\ Skipped = 0
  BY DEF DeregisterDetachedApp, appVars, ControllerRuns, Ended, Skipped
<1>2. CASE p \in registered
  <2>1. Deregister(p) /\ loop' = [loop EXCEPT !.i = @ + 1] /\ UNCHANGED cpc
    BY <1>2 DEF DeregisterDetachedApp
  <2>2. p \in Pids /\ AppsDestroyed({p}, cgroups) /\ registered' = registered \ {p}
    BY <1>2, <2>1 DEF Deregister, TypeOK
  <2>3. Phase' = Phase
    BY <2>1 DEF Phase, TypeOK
  <2>4. LoopBounds' /\ \A i \in Waiting' : i \in Waiting
    BY <1>1, <2>3 DEF LoopBounds, Waiting, Skipped
  <2> HIDE DEF p
  <2> QED
    BY <1>1, <1>2, <2>1, <2>2, <2>4, AppDestroyedShrinks
<1>3. CASE p \notin registered
  <2>1. UNCHANGED <<dataSeg, registered>> /\ cpc' = "crashed"
    BY <1>3 DEF DeregisterDetachedApp, ControllerEnds, policyVars
  <2>2. ~ControllerRuns' /\ LoopBounds'
    BY <2>1 DEF ControllerRuns, Ended, LoopBounds
  <2> QED
    BY <1>1, <2>1, <2>2, MapStays
<1> QED
  BY <1>2, <1>3

(* What registerNewApps does for one entry: the entry is in the map in     *)
(* place of the list and no App is destroyed, or the controller ends.      *)
LEMMA EntryRegistered ==
  ASSUME TypeOK, MapInv, RegisterNewApp
  PROVE  LET p == reg[ctl].newApps[loop.i + 1]
         IN  /\ p \in Pids /\ loop.i + 1 \in Waiting /\ p \in dataSeg /\ p \notin registered
             /\ UNCHANGED dataSeg
             /\ \/ /\ registered' = registered \cup {p}
                   /\ loop' = [loop EXCEPT !.i = @ + 1]
                   /\ cores' = [cores EXCEPT ![p] = {}]
                   /\ UNCHANGED <<cpc, freeCores>>
                \/ cpc' = "failed" /\ UNCHANGED <<policyVars, loop>>
<1> DEFINE p == reg[ctl].newApps[loop.i + 1]
<1>1. cpc = "run" /\ Phase = "registerNewApps" /\ loop.i < Len(reg[ctl].newApps) /\ ControllerRuns
  BY DEF RegisterNewApp, ControllerRuns, Ended
<1>2. loop.i \in Nat /\ Len(reg[ctl].newApps) \in Nat
  BY <1>1, ListType DEF TypeOK
<1>3. loop.i + 1 \in Waiting
  BY <1>1, <1>2 DEF Waiting, Skipped
<1>4. p \in Pids /\ p \in dataSeg /\ p \notin registered
  BY <1>1, <1>3, ListType DEF MapInv, WaitingOnce
<1> HIDE DEF p
<1>5. PICK own \in AppConstructed(p) :
        IF own.ok
           THEN /\ AppsDestroyed({p} \cap registered, own.groups)
                /\ registered' = registered \cup {p}
                /\ cores' = [cores EXCEPT ![p] = {}]
                /\ loop' = [loop EXCEPT !.i = @ + 1]
                /\ UNCHANGED <<sem, cpc, freeCores>>
           ELSE /\ ControllerEnds("failed")
                /\ cgroups' = own.groups
                /\ UNCHANGED <<dataSeg, killed, policyVars, loop>>
  BY DEF RegisterNewApp, p
<1>6. CASE own.ok
  <2>1. dataSeg' = dataSeg
    BY <1>4, <1>5, <1>6 DEF AppsDestroyed
  <2> QED
    BY <1>3, <1>4, <1>5, <1>6, <2>1 DEF p
<1>7. CASE ~own.ok
  <2>1. cpc' = "failed" /\ UNCHANGED <<dataSeg, policyVars, loop>>
    BY <1>5, <1>7 DEF ControllerEnds
  <2> QED
    BY <1>3, <1>4, <2>1 DEF p
<1> QED
  BY <1>6, <1>7

(* registerNewApps keeps the map consistent.                               *)
LEMMA MapRegisterNewApp ==
  ASSUME TypeOK, MapInv, RegisterNewApp
  PROVE  MapInv'
<1> DEFINE p == reg[ctl].newApps[loop.i + 1]
<1>1. /\ cpc = "run" /\ Phase = "registerNewApps" /\ loop.i < Len(reg[ctl].newApps) /\ ControllerRuns
      /\ UNCHANGED <<pc, home, reg, ctl, started>>
  BY DEF RegisterNewApp, ControllerRuns, Ended, appVars
<1>2. loop.i \in Nat /\ Len(reg[ctl].newApps) \in Nat
  BY <1>1, ListType DEF TypeOK
<1>3. /\ p \in Pids /\ loop.i + 1 \in Waiting /\ p \in dataSeg /\ p \notin registered
      /\ UNCHANGED dataSeg
  BY EntryRegistered
<1>4. CASE cpc' = "failed" /\ UNCHANGED <<policyVars, loop>>
  <2>1. ~ControllerRuns' /\ LoopBounds' /\ UNCHANGED registered
    BY <1>4 DEF ControllerRuns, Ended, LoopBounds, policyVars
  <2> QED
    BY <1>1, <1>3, <2>1, MapStays
<1>5. CASE /\ registered' = registered \cup {p}
           /\ loop' = [loop EXCEPT !.i = @ + 1]
           /\ UNCHANGED cpc
  <2>1. loop'.i = loop.i + 1 /\ loop'.phase = loop.phase
    BY <1>5 DEF TypeOK
  <2>2. Phase' = Phase /\ ControllerRuns' /\ Skipped' = loop.i + 1 /\ Skipped = loop.i
    BY <1>1, <1>5, <2>1 DEF Phase, ControllerRuns, Skipped
  <2>3. \A i \in Waiting' : i \in Waiting /\ i # loop.i + 1
    BY <1>1, <1>2, <2>2 DEF Waiting
  <2>4. HomesStarted' /\ FreshLists' /\ LoopBounds'
    BY <1>1, <1>2, <1>5, <2>1, <2>2 DEF MapInv, HomesStarted, FreshLists, LoopBounds
  <2>5. WaitingOnce'
    <3> SUFFICES ASSUME NEW i \in Waiting'
                 PROVE  /\ reg[ctl].newApps[i] \in dataSeg \ (registered \cup {p})
                        /\ \A j \in Waiting' : reg[ctl].newApps[i] = reg[ctl].newApps[j] => i = j
      BY <1>1, <1>3, <1>5 DEF WaitingOnce
    <3> QED
      BY <1>1, <1>3, <2>3 DEF MapInv, WaitingOnce
  <2>6. MapHasData'
    BY <1>1, <1>3, <1>5 DEF MapInv, MapHasData
  <2>7. AttachingNew'
    <3> SUFFICES ASSUME NEW q \in Pids, pc[q] \in AttachingPCs
                 PROVE  /\ q \in dataSeg /\ q \notin registered \cup {p}
                        /\ \A i \in Waiting' : reg[ctl].newApps[i] # q
      BY <1>1, <1>3, <1>5 DEF AttachingNew
    <3> QED
      BY <1>1, <1>3, <2>3 DEF MapInv, AttachingNew
  <2> QED
    BY <2>4, <2>5, <2>6, <2>7 DEF MapInv
<1> QED
  BY <1>4, <1>5, EntryRegistered

(* Resetting n_new leaves nobody waiting; everybody was registered.        *)
LEMMA MapNewAppsDone ==
  ASSUME TypeOK, MapInv, NewAppsDone
  PROVE  MapInv'
<1>1. /\ ControllerRuns /\ UNCHANGED <<pc, home, ctl, cpc, started, registered, dataSeg>>
      /\ reg' = [reg EXCEPT ![ctl].newApps = <<>>] /\ EnterPhase(loop.phase + 1)
  BY DEF NewAppsDone, HelperReturns, appVars, policyVars, ControllerRuns, Ended
<1>2. /\ reg'[ctl].newApps = <<>>
      /\ \A c \in Controllers \ {ctl} : reg'[c] = reg[c]
  BY <1>1, ListType DEF TypeOK, Registers
<1>3. loop'.i = 0 /\ (Phase' = "deregisterDeadApps" => loop'.todo = registered)
  BY <1>1 DEF EnterPhase, Phase
<1>4. Waiting' = {}
  BY <1>1, <1>2, <1>3 DEF Waiting, Skipped
<1>5. HomesStarted' /\ FreshLists' /\ LoopBounds'
  BY <1>1, <1>2, <1>3 DEF MapInv, HomesStarted, FreshLists, LoopBounds
<1>6. WaitingOnce' /\ MapHasData' /\ AttachingNew'
  BY <1>1, <1>4, MapShrinks DEF ControllerRuns
<1> QED
  BY <1>5, <1>6 DEF MapInv

(* A cycle of run() keeps the map consistent.                              *)
LEMMA MapRun ==
  ASSUME TypeOK, MapInv, Run
  PROVE  MapInv'
<1>1. ASSUME RunBegin \/ RunEnd \/ DeadAppsDone \/ DetachedAppsDone
      PROVE  MapInv'
  <2>1. UNCHANGED <<pc, home, ctl, started, registered, dataSeg>> /\ ControllerRuns
    BY <1>1 DEF RunBegin, RunEnd, DeadAppsDone, DetachedAppsDone, HelperReturns, Lock, Unlock,
                ControllerGoto, appVars, policyVars, ControllerRuns, Ended
  <2>2. Skipped = 0
    BY <1>1 DEF RunBegin, RunEnd, DeadAppsDone, DetachedAppsDone, Lock, Unlock,
                ControllerGoto, Skipped
  <2>3. cpc' = "run" => EnterPhase(1) \/ EnterPhase(loop.phase + 1)
    BY <1>1 DEF RunBegin, RunEnd, DeadAppsDone, DetachedAppsDone, HelperReturns, Unlock, ControllerGoto
  <2>4. cpc' = "run" => EnterPhase(loop'.phase) /\ loop'.i = 0
    BY <2>3 DEF EnterPhase
  <2>5. Skipped' = 0
    BY <2>4 DEF Skipped
  <2>6. \A c \in Controllers : reg'[c].newApps = reg[c].newApps
    <3>1. CASE DetachedAppsDone
      BY <3>1 DEF DetachedAppsDone, HelperReturns, TypeOK, Registers
    <3>2. CASE ~DetachedAppsDone
      BY <1>1, <3>2 DEF RunBegin, RunEnd, DeadAppsDone, HelperReturns, Lock, Unlock
    <3> QED
      BY <3>1, <3>2
  <2> QED
    BY <2>1, <2>2, <2>4, <2>5, <2>6, ControllerStays
<1> QED
  BY <1>1, MapDeregisterDeadApp, MapDeregisterDetachedApp, MapRegisterNewApp, MapNewAppsDone DEF Run

(* So does the destructor.                                                 *)
LEMMA MapDestroy ==
  ASSUME TypeOK, MapInv, Destroy
  PROVE  MapInv'
<1>1. cpc # "run" /\ cpc' # "run" /\ ControllerRuns /\ UNCHANGED <<pc, home, ctl, started>>
  BY DEF Destroy, RegisterDestroy, DestroyUnlock, SemaphoreDestroy, GroupsDestroy, DropApp,
         DestroyEnd, Unlock, ControllerGoto, ControllerEnds, ControllerRuns, Ended, appVars
<1>2. CASE RegisterDestroy
  <2>1. UNCHANGED <<registered, dataSeg>>
    BY <1>2 DEF RegisterDestroy, policyVars
  <2>2. \A c \in Controllers : reg'[c].newApps = reg[c].newApps
    <3>1. CASE reg[ctl].newApps = <<>>
      <4>1. NoRegister.newApps = <<>>
        BY DEF NoRegister
      <4>2. reg' = [reg EXCEPT ![ctl] = NoRegister]
        BY <1>2, <3>1 DEF RegisterDestroy
      <4> QED
        BY <3>1, <4>1, <4>2 DEF TypeOK
    <3>2. CASE reg[ctl].newApps # <<>>
      BY <1>2, <3>2 DEF RegisterDestroy
    <3> QED
      BY <3>1, <3>2
  <2> QED
    BY <1>1, <2>1, <2>2, ControllerStays DEF Skipped
<1>3. ASSUME NEW p \in Pids, DropApp(p) PROVE MapInv'
  <2>1. /\ AppsDestroyed({p}, cgroups) /\ p \in registered /\ registered' = registered \ {p}
        /\ UNCHANGED <<reg, cpc>>
    BY <1>3 DEF DropApp
  <2>2. LoopBounds' /\ \A i \in Waiting' : i \in Waiting
    BY <1>1, <2>1 DEF LoopBounds, Waiting, Skipped
  <2> QED
    BY <1>1, <2>1, <2>2, AppDestroyedShrinks
<1>4. CASE DestroyUnlock \/ SemaphoreDestroy \/ GroupsDestroy \/ DestroyEnd
  <2>1. UNCHANGED <<registered, dataSeg, reg>>
    BY <1>4 DEF DestroyUnlock, SemaphoreDestroy, GroupsDestroy, DestroyEnd, Unlock,
                ipcVars, policyVars
  <2> QED
    BY <1>1, <2>1, ControllerStays DEF Skipped
<1> QED
  BY <1>2, <1>3, <1>4 DEF Destroy

(* MapInv is inductive, given the types.                                   *)
LEMMA MapNext == TypeOK /\ MapInv /\ [Next]_vars => MapInv'
<1> SUFFICES ASSUME TypeOK, MapInv, [Next]_vars PROVE MapInv'
  OBVIOUS
<1>1. CASE Next
  BY <1>1, MapEnvironment, MapBoot, MapRun, MapDestroy, MapAppStep DEF Next, ControllerStep
<1>2. CASE UNCHANGED vars
  BY <1>2, AppMoves DEF vars, appVars, ipcVars
<1> QED
  BY <1>1, <1>2

(* Before anything runs there is no map.                                   *)
LEMMA MapInit == Init => MapInv
BY DEF Init, MapInv, HomesStarted, FreshLists, LoopBounds, WaitingOnce, MapHasData, AttachingNew,
       NoRegister, ControllerRuns, Ended, AttachingPCs

(* MapInv holds in every run.                                              *)
LEMMA MapInvariant == Spec => []MapInv
BY MapInit, MapNext, TypeCorrect, PTL DEF Spec

-----------------------------------------------------------------------------
(* What the invariant is for.                                              *)

(* The entries still to be processed, as a sequence.                       *)
LEMMA NewAppsIsRest ==
  ASSUME TypeOK, MapInv, ControllerRuns
  PROVE  /\ NewApps \in Seq(Pids)
         /\ Len(NewApps) = Len(reg[ctl].newApps) - Skipped
         /\ Skipped <= Len(reg[ctl].newApps)
         /\ \A i \in 1 .. Len(NewApps) :
              /\ i + Skipped \in Waiting
              /\ NewApps[i] = reg[ctl].newApps[i + Skipped]
<1> DEFINE s == reg[ctl].newApps
<1>1. s \in Seq(Pids) /\ Len(s) \in Nat /\ Skipped \in Nat
  BY ListType
<1>2. CASE cpc = "run" /\ Phase = "registerNewApps"
  <2>1. NewApps = SubSeq(s, loop.i + 1, Len(s)) /\ Skipped = loop.i /\ loop.i <= Len(s)
    BY <1>2 DEF NewApps, Skipped, MapInv, LoopBounds
  <2> HIDE DEF s
  <2>2. /\ SubSeq(s, loop.i + 1, Len(s)) \in Seq(Pids)
        /\ Len(SubSeq(s, loop.i + 1, Len(s))) = Len(s) - loop.i
        /\ \A i \in 1 .. Len(s) - loop.i : SubSeq(s, loop.i + 1, Len(s))[i] = s[i + loop.i]
    BY <1>1, <2>1, SMTT(30)
  <2> QED
    BY <1>1, <2>1, <2>2 DEF Waiting, s
<1>3. CASE ~(cpc = "run" /\ Phase = "registerNewApps")
  <2>1. NewApps = s /\ Skipped = 0
    BY <1>3 DEF NewApps, Skipped
  <2> HIDE DEF s
  <2> QED
    BY <1>1, <2>1 DEF Waiting, s
<1> QED
  BY <1>2, <1>3

(* A pid is in the map or waits in new_apps, and once at most, in every    *)
(* run: registerNewApps never destroys an App, and kills its application,  *)
(* by assigning over it.                                                   *)
THEOREM RegisteredOnce == Spec => []NoDoubleRegistration
<1>1. TypeOK /\ MapInv => NoDoubleRegistration
  <2> SUFFICES ASSUME TypeOK, MapInv, ControllerRuns
               PROVE  Pending \cap registered = {} /\ Cardinality(Pending) = Len(NewApps)
    BY DEF NoDoubleRegistration
  <2> DEFINE n == Len(NewApps)
  <2>1. n \in Nat /\ DOMAIN NewApps = 1 .. n
    BY NewAppsIsRest
  <2>2. \A i \in 1 .. n : NewApps[i] \notin registered
    BY NewAppsIsRest DEF MapInv, WaitingOnce
  <2>3. \A i, j \in 1 .. n : NewApps[i] = NewApps[j] => i = j
    <3> SUFFICES ASSUME NEW i \in 1 .. n, NEW j \in 1 .. n, NewApps[i] = NewApps[j]
                 PROVE  i = j
      OBVIOUS
    <3>1. Skipped \in Nat
      BY ListType
    <3>2. /\ i + Skipped \in Waiting /\ NewApps[i] = reg[ctl].newApps[i + Skipped]
          /\ j + Skipped \in Waiting /\ NewApps[j] = reg[ctl].newApps[j + Skipped]
      BY NewAppsIsRest
    <3>3. i + Skipped = j + Skipped
      BY <3>2 DEF MapInv, WaitingOnce
    <3> QED
      BY <2>1, <3>1, <3>3
  <2>4. Pending \cap registered = {}
    BY <2>1, <2>2 DEF Pending
  <2>5. Cardinality(Pending) = n
    <3> DEFINE f == [i \in 1 .. n |-> NewApps[i]]
    <3>1. f \in [1 .. n -> Pending]
      BY <2>1 DEF Pending
    <3>2. \A i, j \in 1 .. n : f[i] = f[j] => i = j
      BY <2>3
    <3>3. \A p \in Pending : \E i \in 1 .. n : f[i] = p
      BY <2>1 DEF Pending
    <3>4. f \in Bijection(1 .. n, Pending)
      <4> HIDE DEF f
      <4>1. f \in Injection(1 .. n, Pending)
        BY <3>1, <3>2 DEF Injection, IsInjective
      <4>2. f \in Surjection(1 .. n, Pending)
        BY <3>1, <3>3 DEF Surjection
      <4> QED
        BY <4>1, <4>2 DEF Bijection
    <3>5. ExistsBijection(1 .. n, Pending)
      BY <3>4 DEF ExistsBijection
    <3> HIDE DEF n
    <3> QED
      BY <2>1, <3>5, FS_CountingElements
  <2> QED
    BY <2>4, <2>5
<1> QED
  BY <1>1, MapInvariant, TypeCorrect, PTL

(* The app_data segment an App is attached to is there while the           *)
(* controller serves, whoever dies, detaches or tries to attach again.     *)
THEOREM DataStays == Spec => []RegisteredHaveData
<1>1. MapInv => RegisteredHaveData
  BY DEF MapInv, MapHasData, RegisteredHaveData, Serving, ControllerRuns, Ended
<1> QED
  BY <1>1, MapInvariant, PTL

-----------------------------------------------------------------------------
(* Cores.                                                                  *)

(* Core k is free once, or one App has it.                                 *)
CoreOnce(k) ==
  \/ freeCores[k] = 1 /\ \A p \in registered : k \notin cores[p]
  \/ /\ freeCores[k] = 0
     /\ \E p \in registered : k \in cores[p] /\ \A q \in registered : k \in cores[q] => q = p

CoresInv == ControllerRuns /\ cpc # "dropApps" => \A k \in Cores : CoreOnce(k)

(* A deregistered App gives back what it has.                              *)
LEMMA CoresDeregister ==
  ASSUME TypeOK, CoresInv, ControllerRuns, cpc # "dropApps",
         NEW p \in registered, Deregister(p)
  PROVE  CoresInv'
<1> SUFFICES ASSUME NEW k \in Cores PROVE CoreOnce(k)'
  BY DEF CoresInv
<1>1. CoreOnce(k) /\ p \in Pids
  BY DEF CoresInv, TypeOK
<1>2. /\ freeCores'[k] = freeCores[k] + (IF k \in cores[p] THEN 1 ELSE 0)
      /\ registered' = registered \ {p}
      /\ \A q \in registered' : cores'[q] = cores[q]
  BY <1>1 DEF Deregister, TypeOK
<1>3. CASE freeCores[k] = 1 /\ \A q \in registered : k \notin cores[q]
  BY <1>2, <1>3 DEF CoreOnce
<1>4. CASE freeCores[k] = 0
  <2>1. PICK q \in registered : k \in cores[q] /\ \A r \in registered : k \in cores[r] => r = q
    BY <1>1, <1>4 DEF CoreOnce
  <2>2. CASE q = p
    BY <1>2, <1>4, <2>1, <2>2 DEF CoreOnce
  <2>3. CASE q # p
    BY <1>2, <1>4, <2>1, <2>3 DEF CoreOnce
  <2> QED
    BY <2>2, <2>3
<1> QED
  BY <1>1, <1>3, <1>4 DEF CoreOnce

(* The derived class moves a free core to one App.                         *)
LEMMA CoresAssign ==
  ASSUME TypeOK, CoresInv, NEW p \in Pids, NEW k \in Cores, AssignCore(p, k)
  PROVE  CoresInv'
<1> SUFFICES ASSUME NEW m \in Cores PROVE CoreOnce(m)'
  BY DEF CoresInv
<1>1. /\ CoreOnce(m) /\ CoreOnce(k) /\ p \in registered /\ freeCores[k] > 0
      /\ freeCores' = [freeCores EXCEPT ![k] = @ - 1]
      /\ cores' = [cores EXCEPT ![p] = @ \cup {k}] /\ UNCHANGED registered
  BY DEF CoresInv, AssignCore, ControllerRuns, Ended
<1>2. CASE m = k
  <2>1. freeCores[k] = 1 /\ \A q \in registered : k \notin cores[q]
    BY <1>1 DEF CoreOnce
  <2>2. freeCores'[k] = 0
    BY <1>1, <2>1 DEF TypeOK
  <2>3. k \in cores'[p] /\ \A q \in registered' : k \in cores'[q] => q = p
    BY <1>1, <2>1 DEF TypeOK
  <2> QED
    BY <1>1, <1>2, <2>2, <2>3 DEF CoreOnce
<1>3. CASE m # k
  <2>1. freeCores'[m] = freeCores[m] /\ \A q \in registered : m \in cores'[q] <=> m \in cores[q]
    BY <1>1, <1>3 DEF TypeOK
  <2> QED
    BY <1>1, <2>1 DEF CoreOnce
<1> QED
  BY <1>2, <1>3

(* A new App has no core yet, and takes nobody's place.                    *)
LEMMA CoresRegister ==
  ASSUME TypeOK, MapInv, CoresInv, RegisterNewApp
  PROVE  CoresInv'
<1> DEFINE p == reg[ctl].newApps[loop.i + 1]
<1>1. /\ p \in Pids /\ p \notin registered
      /\ \/ /\ registered' = registered \cup {p}
            /\ cores' = [cores EXCEPT ![p] = {}]
            /\ UNCHANGED <<cpc, freeCores>>
         \/ cpc' = "failed"
  BY EntryRegistered
<1>2. CASE cpc' = "failed"
  BY <1>2 DEF CoresInv, ControllerRuns, Ended
<1>3. CASE /\ registered' = registered \cup {p}
           /\ cores' = [cores EXCEPT ![p] = {}]
           /\ UNCHANGED <<cpc, freeCores>>
  <2> HIDE DEF p
  <2>1. cores'[p] = {} /\ \A q \in registered : q # p /\ cores'[q] = cores[q]
    BY <1>1, <1>3 DEF TypeOK
  <2> SUFFICES ASSUME NEW k \in Cores PROVE CoreOnce(k)'
    BY DEF CoresInv
  <2>2. CoreOnce(k)
    BY DEF CoresInv, RegisterNewApp, ControllerRuns, Ended
  <2> QED
    BY <1>3, <2>1, <2>2 DEF CoreOnce
<1> QED
  BY <1>1, <1>2, <1>3

(* CoresInv is inductive, given the types and the map.                     *)
LEMMA CoresNext == TypeOK /\ MapInv /\ CoresInv /\ [Next]_vars => CoresInv'
<1> SUFFICES ASSUME TypeOK, MapInv, CoresInv, [Next]_vars PROVE CoresInv'
  OBVIOUS
<1>0. ASSUME UNCHANGED <<registered, cores, freeCores>>,
             ControllerRuns' /\ cpc' # "dropApps" => ControllerRuns /\ cpc # "dropApps"
      PROVE  CoresInv'
  BY <1>0 DEF CoresInv, CoreOnce
<1>1. ASSUME NEW p \in Pids, AppStep(p) PROVE CoresInv'
  <2>1. UNCHANGED ctlVars
    BY <1>1 DEF AppStep, AttachSem, AttachWait, AttachCheck, AttachWrite, AttachPost,
                DetachSem, DetachWait, DetachCheck, DetachWrite, DetachPost, DetachData,
                GetRegisterSem, WaitRegister, PostRegister
  <2> QED
    BY <1>0, <2>1 DEF ctlVars, policyVars, ControllerRuns
<1>2. CASE Environment
  <2>1. ASSUME NEW p \in Pids,
               Spawn(p) \/ Crash(p) \/ Reap(p) \/ AttachCreate(p) \/ AttachRefused(p) \/ DetachBegin(p)
        PROVE  CoresInv'
    BY <1>0, <2>1 DEF Spawn, Crash, Reap, AttachCreate, CreateData, AttachRefused, DetachBegin,
                      ctlVars, policyVars, ControllerRuns
  <2>2. ASSUME NEW c \in Controllers, Start(c) PROVE CoresInv'
    BY <2>2 DEF Start, CoresInv, CoreOnce
  <2>3. CASE ControllerCrash \/ DestroyBegin
    BY <1>0, <2>3 DEF ControllerCrash, ControllerEnds, DestroyBegin, Lock, ControllerGoto,
                      policyVars, ControllerRuns, Ended
  <2> QED
    BY <1>2, <2>1, <2>2, <2>3, CoresAssign DEF Environment
<1>3. CASE Boot
  BY <1>0, <1>3 DEF Boot, SemaphoreCreate, SemaphoreInit, BootLock, RegisterCreate, BootUnlock,
                    SetupGroups, Lock, Unlock, ControllerGoto, ControllerEnds, policyVars,
                    ControllerRuns, Ended
<1>4. CASE Run
  <2>1. cpc = "idle" \/ cpc = "run"
    BY <1>4 DEF Run, RunBegin, RunEnd, DeregisterDeadApp, DeadAppsDone, DeregisterDetachedApp,
                DetachedAppsDone, RegisterNewApp, NewAppsDone, Lock, Unlock, ControllerGoto
  <2>2. ControllerRuns /\ cpc # "dropApps"
    BY <2>1 DEF ControllerRuns, Ended
  <2>3. CASE RunBegin \/ RunEnd \/ DeadAppsDone \/ DetachedAppsDone \/ NewAppsDone
    BY <1>0, <2>2, <2>3 DEF RunBegin, RunEnd, DeadAppsDone, DetachedAppsDone, NewAppsDone, Lock,
                            Unlock, HelperReturns, policyVars
  <2>4. ASSUME NEW p \in Pids, DeregisterDeadApp(p) PROVE CoresInv'
    <3>1. p \in registered
      BY <2>4 DEF DeregisterDeadApp, MapInv, LoopBounds
    <3>2. CASE isAppRunning(p)
      BY <1>0, <2>2, <2>4, <3>2 DEF DeregisterDeadApp, policyVars
    <3> QED
      BY <2>2, <2>4, <3>1, <3>2, CoresDeregister DEF DeregisterDeadApp
  <2>5. CASE DeregisterDetachedApp
    <3> DEFINE p == reg[ctl].detachedApps[loop.i + 1]
    <3>1. CASE p \in registered
      BY <2>2, <2>5, <3>1, CoresDeregister DEF DeregisterDetachedApp
    <3>2. CASE p \notin registered
      BY <2>5, <3>2 DEF DeregisterDetachedApp, ControllerEnds, CoresInv, ControllerRuns, Ended
    <3> QED
      BY <3>1, <3>2
  <2> QED
    BY <1>4, <2>3, <2>4, <2>5, CoresRegister DEF Run
<1>5. CASE Destroy
  <2>1. CASE RegisterDestroy \/ DestroyUnlock \/ SemaphoreDestroy \/ GroupsDestroy
    BY <1>0, <2>1 DEF RegisterDestroy, DestroyUnlock, SemaphoreDestroy, GroupsDestroy, Unlock,
                      ControllerGoto, ControllerEnds, policyVars, ControllerRuns, Ended
  <2>2. CASE DestroyEnd
    BY <2>2 DEF DestroyEnd, ControllerEnds, CoresInv, ControllerRuns, Ended
  <2>3. ASSUME NEW p \in Pids, DropApp(p) PROVE CoresInv'
    BY <2>3 DEF DropApp, CoresInv
  <2> QED
    BY <1>5, <2>1, <2>2, <2>3 DEF Destroy
<1>6. CASE UNCHANGED vars
  BY <1>0, <1>6 DEF vars, ctlVars, policyVars, ControllerRuns
<1> QED
  BY <1>1, <1>2, <1>3, <1>4, <1>5, <1>6 DEF Next, ControllerStep

(* No core is lost or given to two applications, in any sequence of        *)
(* registrations, assignments, deaths, detachments and restarts.           *)
THEOREM CoresConserved == Spec => []CoreConservation
<1>1. Init => CoresInv
  BY DEF Init, CoresInv, ControllerRuns, Ended
<1>2. TypeOK /\ CoresInv => CoreConservation
  <2> SUFFICES ASSUME TypeOK, CoresInv, ControllerRuns, cpc # "dropApps", NEW k \in Cores
               PROVE  freeCores[k] + Cardinality({p \in registered : k \in cores[p]}) = 1
    BY DEF CoreConservation
  <2> DEFINE having == {p \in registered : k \in cores[p]}
  <2>1. CASE freeCores[k] = 1 /\ having = {}
    BY <2>1, FS_EmptySet
  <2>2. CASE freeCores[k] = 0 /\ \E p : having = {p}
    <3>1. PICK p : having = {p}
      BY <2>2
    <3>2. Cardinality({p}) = 1
      BY FS_Singleton
    <3>3. Cardinality(having) = 1
      BY <3>1, <3>2
    <3> QED
      BY <2>2, <3>3
  <2>3. \/ freeCores[k] = 1 /\ having = {}
        \/ freeCores[k] = 0 /\ \E p : having = {p}
    <3>1. CoreOnce(k)
      BY DEF CoresInv
    <3>2. CASE freeCores[k] = 1 /\ \A p \in registered : k \notin cores[p]
      BY <3>2
    <3>3. CASE /\ freeCores[k] = 0
               /\ \E p \in registered : k \in cores[p] /\ \A q \in registered : k \in cores[q] => q = p
      <4>1. PICK p \in registered : k \in cores[p] /\ \A q \in registered : k \in cores[q] => q = p
        BY <3>3
      <4>2. having = {p}
        BY <4>1
      <4> QED
        BY <3>3, <4>2
    <3> QED
      BY <3>1, <3>2, <3>3 DEF CoreOnce
  <2> QED
    BY <2>1, <2>2, <2>3
<1> QED
  BY <1>1, <1>2, CoresNext, MapInvariant, TypeCorrect, PTL DEF Spec

-----------------------------------------------------------------------------
(* Control groups.                                                         *)

(* "grep <pid>" finds the threads of that process only.                    *)
ExactMatches == \A p \in Pids : GrepHits[p] \subseteq {p}

GroupsInv == ControllerRuns /\ cpc # "dropApps" => registered \subseteq cgroups

(* Erasing one App removes the group of no other.                          *)
LEMMA GroupsDeregister ==
  ASSUME ExactMatches, GroupsInv, NEW p \in Pids, Deregister(p), cpc' = cpc
  PROVE  GroupsInv'
<1>1. killAppGroups(p) \subseteq {p}
  BY DEF ExactMatches, killAppGroups, getAppPids
<1>2. /\ registered' = registered \ {p}
      /\ cgroups \ {p} \subseteq cgroups'
  BY <1>1 DEF Deregister, AppsDestroyed, CG!Remove
<1> QED
  BY <1>2 DEF GroupsInv, ControllerRuns

(* The constructor of App makes the group of the new member.               *)
LEMMA GroupsRegister ==
  ASSUME TypeOK, MapInv, GroupsInv, RegisterNewApp
  PROVE  GroupsInv'
<1> DEFINE p == reg[ctl].newApps[loop.i + 1]
<1>1. p \notin registered /\ ControllerRuns /\ cpc # "dropApps"
  BY EntryRegistered DEF RegisterNewApp, ControllerRuns, Ended
<1> HIDE DEF p
<1>2. PICK own \in AppConstructed(p) :
        IF own.ok
           THEN /\ AppsDestroyed({p} \cap registered, own.groups)
                /\ registered' = registered \cup {p}
           ELSE ControllerEnds("failed")
  BY DEF RegisterNewApp, p
<1>3. CASE own.ok
  <2>1. own.groups = cgroups \cup {p}
    BY <1>2, <1>3 DEF AppConstructed, CG!Initialize, CG!Outcome
  <2>2. cgroups' = own.groups
    BY <1>1, <1>2, <1>3 DEF AppsDestroyed, CG!Remove
  <2> QED
    BY <1>1, <1>2, <1>3, <2>1, <2>2 DEF GroupsInv
<1>4. CASE ~own.ok
  BY <1>2, <1>4 DEF ControllerEnds, GroupsInv, ControllerRuns, Ended
<1> QED
  BY <1>3, <1>4

(* GroupsInv is inductive, given the types and the map.                    *)
LEMMA GroupsNext ==
  ASSUME ExactMatches
  PROVE  TypeOK /\ MapInv /\ GroupsInv /\ [Next]_vars => GroupsInv'
<1> SUFFICES ASSUME TypeOK, MapInv, GroupsInv, [Next]_vars PROVE GroupsInv'
  OBVIOUS
<1>0. ASSUME registered' = registered, cgroups \subseteq cgroups',
             ControllerRuns' /\ cpc' # "dropApps" => ControllerRuns /\ cpc # "dropApps"
      PROVE  GroupsInv'
  BY <1>0 DEF GroupsInv
<1>1. ASSUME NEW p \in Pids, AppStep(p) PROVE GroupsInv'
  <2>1. UNCHANGED <<ctlVars, cgroups>>
    BY <1>1 DEF AppStep, AttachSem, AttachWait, AttachCheck, AttachWrite, AttachPost,
                DetachSem, DetachWait, DetachCheck, DetachWrite, DetachPost, DetachData,
                GetRegisterSem, WaitRegister, PostRegister, osVars
  <2> QED
    BY <1>0, <2>1 DEF ctlVars, policyVars, ControllerRuns
<1>2. CASE Environment
  <2>1. ASSUME NEW p \in Pids,
               \/ Spawn(p) \/ Crash(p) \/ Reap(p) \/ AttachCreate(p) \/ AttachRefused(p)
               \/ DetachBegin(p) \/ \E k \in Cores : AssignCore(p, k)
        PROVE  GroupsInv'
    BY <1>0, <2>1 DEF Spawn, Crash, Reap, AttachCreate, CreateData, AttachRefused, DetachBegin,
                      AssignCore, osVars, ctlVars, policyVars, ControllerRuns
  <2>2. ASSUME NEW c \in Controllers, Start(c) PROVE GroupsInv'
    BY <2>2 DEF Start, GroupsInv
  <2>3. CASE ControllerCrash \/ DestroyBegin
    BY <1>0, <2>3 DEF ControllerCrash, ControllerEnds, DestroyBegin, Lock, ControllerGoto,
                      policyVars, osVars, ControllerRuns, Ended
  <2> QED
    BY <1>2, <2>1, <2>2, <2>3 DEF Environment
<1>3. CASE Boot
  <2>1. CASE SetupGroups
    <3>1. /\ cgroups \subseteq cgroups'
      BY <2>1 DEF SetupGroups, CG!Setup, CG!Initialize, CG!Outcome
    <3> QED
      BY <1>0, <2>1, <3>1 DEF SetupGroups, policyVars, ControllerRuns, Ended
  <2>2. CASE ~SetupGroups
    BY <1>0, <1>3, <2>2 DEF Boot, SemaphoreCreate, SemaphoreInit, BootLock, RegisterCreate,
                            BootUnlock, Lock, Unlock, ControllerGoto, policyVars, osVars,
                            ControllerRuns, Ended
  <2> QED
    BY <2>1, <2>2
<1>4. CASE Run
  <2>1. ControllerRuns /\ cpc # "dropApps"
    BY <1>4 DEF Run, RunBegin, RunEnd, DeregisterDeadApp, DeadAppsDone, DeregisterDetachedApp,
                DetachedAppsDone, RegisterNewApp, NewAppsDone, Lock, Unlock, ControllerGoto,
                ControllerRuns, Ended
  <2>2. CASE RunBegin \/ RunEnd \/ DeadAppsDone \/ DetachedAppsDone \/ NewAppsDone
    BY <1>0, <2>1, <2>2 DEF RunBegin, RunEnd, DeadAppsDone, DetachedAppsDone, NewAppsDone, Lock,
                            Unlock, HelperReturns, policyVars, osVars
  <2>3. ASSUME NEW p \in Pids, DeregisterDeadApp(p) PROVE GroupsInv'
    <3>1. CASE isAppRunning(p)
      BY <1>0, <2>1, <2>3, <3>1 DEF DeregisterDeadApp, policyVars, osVars
    <3>2. CASE ~isAppRunning(p)
      BY <2>3, <3>2, GroupsDeregister DEF DeregisterDeadApp
    <3> QED
      BY <3>1, <3>2
  <2>4. CASE DeregisterDetachedApp
    <3> DEFINE p == reg[ctl].detachedApps[loop.i + 1]
    <3>1. CASE p \in registered
      BY <2>4, <3>1, GroupsDeregister DEF DeregisterDetachedApp, TypeOK
    <3>2. CASE p \notin registered
      BY <2>4, <3>2 DEF DeregisterDetachedApp, ControllerEnds, GroupsInv, ControllerRuns, Ended
    <3> QED
      BY <3>1, <3>2
  <2> QED
    BY <1>4, <2>2, <2>3, <2>4, GroupsRegister DEF Run
<1>5. CASE Destroy
  <2>1. CASE RegisterDestroy \/ DestroyUnlock \/ SemaphoreDestroy
    BY <1>0, <2>1 DEF RegisterDestroy, DestroyUnlock, SemaphoreDestroy, Unlock, ControllerGoto,
                      ControllerEnds, policyVars, osVars, ControllerRuns, Ended
  <2>2. CASE GroupsDestroy \/ DestroyEnd \/ \E p \in Pids : DropApp(p)
    BY <2>2 DEF GroupsDestroy, DestroyEnd, DropApp, ControllerGoto, ControllerEnds, GroupsInv,
                ControllerRuns, Ended
  <2> QED
    BY <1>5, <2>1, <2>2 DEF Destroy
<1>6. CASE UNCHANGED vars
  BY <1>0, <1>6 DEF vars, osVars, ctlVars, policyVars, ControllerRuns
<1> QED
  BY <1>1, <1>2, <1>3, <1>4, <1>5, <1>6 DEF Next, ControllerStep

(* The control group of an App is there while the controller serves, in    *)
(* every instance in which no line of "ps" holds the digits of a foreign   *)
(* pid: the containment of pids is the only way to lose one.               *)
THEOREM GroupsStay ==
  ASSUME ExactMatches
  PROVE  Spec => []RegisteredHaveGroup
<1>1. Init => GroupsInv
  BY DEF Init, GroupsInv
<1>2. GroupsInv => RegisteredHaveGroup
  BY DEF GroupsInv, RegisteredHaveGroup, Serving, ControllerRuns, Ended
<1> QED
  BY <1>1, <1>2, GroupsNext, MapInvariant, TypeCorrect, PTL DEF Spec
=============================================================================
