---------------------- MODULE AppRegisterAttach_proofs ----------------------
(***************************************************************************)
(* An application that was told it is attached is not forgotten, only one  *)
(* that has left is killed, and the destructor of the controller leaves    *)
(* nothing behind, for every number of applications and controllers in     *)
(* turn, if run() calls deregisterDetachedApps before registerNewApps, as  *)
(* Policy.h declares them, and no signal interrupts a wait.  For a single  *)
(* controller the opposite order will do (AloneInv), and with it           *)
(* deregisterDetachedApps finds every pid it looks up in the map.          *)
(*                                                                         *)
(* The argument is about the registry that AppRegister implements.  The    *)
(* queue and the members lose an application in one way only, by           *)
(* Deregister, and who is deregistered has announced itself or is gone.    *)
(* So what has to be shown is that a member that is still attached has no  *)
(* announcement pending from its pid's past (NoneLeaving); an announcement *)
(* it made to this controller before it attached has been processed,       *)
(* because detached_apps is empty when registerNewApps runs.  In the other *)
(* order the property fails once a controller is succeeded by another.     *)
(***************************************************************************)
EXTENDS RegistryRefinement_proofs

(* run() processes detached_apps before it looks at new_apps.              *)
DetachedFirst ==
  \A n \in DOMAIN RunOrder :
    RunOrder[n] = "registerNewApps" =>
      \E m \in 1 .. n - 1 : RunOrder[m] = "deregisterDetachedApps"

(* From the entry in new_apps to the entry in detached_apps.               *)
AttachedPCs == {"attachPost", "attached"}

MemberPCs ==
  AttachedPCs \cup {"detachSem", "detachWait", "detachCheck", "detachWrite"}

Known == {Queue[i] : i \in DOMAIN Queue} \cup Members

OpenPCs == {"bootUnlock", "setup", "idle", "run", "destroy"}

OpenWhileServing == cpc \in OpenPCs => RegistryOpen

NobodyYet ==
  cpc \in OpeningPCs \cup {"bootUnlock"} =>
    \A p \in Pids : pc[p] \in AttachedPCs => home[p] # ctl

(* The helper of an earlier phase has emptied its list, and the lock keeps *)
(* it empty.                                                               *)
ListsEmptied ==
  cpc = "run" =>
    \A m \in 1 .. loop.phase - 1 :
      /\ RunOrder[m] = "deregisterDetachedApps" => reg[ctl].detachedApps = <<>>
      /\ RunOrder[m] = "registerNewApps" => reg[ctl].newApps = <<>>

NoneLeaving == \A p \in Members : pc[p] \in MemberPCs => p \notin Leaving

HomeNow ==
  \A p \in Known : pc[p] \in MemberPCs \cup {"detachPost"} => home[p] = ctl

AttachedKnown ==
  cpc \in OpenPCs \ {"bootUnlock"} =>
    \A p \in Pids : pc[p] \in AttachedPCs /\ home[p] = ctl => p \in Known

AttachInv ==
  /\ OpenWhileServing /\ NobodyYet /\ ListsEmptied
  /\ NoneLeaving /\ HomeNow /\ AttachedKnown

-----------------------------------------------------------------------------
(* What a step can do to an application that is attached.                  *)

LEMMA AppPcs ==
  ASSUME TypeOK, NEW p \in Pids, AppStep(p)
  PROVE  /\ \A q \in Pids \ {p} : pc'[q] = pc[q] /\ home'[q] = home[q]
         /\ UNCHANGED <<ctl, cpc, loop>>
         /\ home'[p] \in {home[p], NoPid}
         /\ pc'[p] # "idle" => home'[p] = home[p]
         /\ pc'[p] \in MemberPCs => pc[p] \in MemberPCs \/ AttachWrite(p)
         /\ pc'[p] \in AttachedPCs => pc[p] \in AttachedPCs \/ AttachWrite(p)
         /\ pc'[p] = "detachPost" => pc[p] = "detachWrite" /\ DetachWrite(p)
<1>1. UNCHANGED <<ctl, cpc, loop>>
  BY DEF AppStep, AttachSem, AttachWait, AttachCheck, AttachWrite, AttachPost, DetachSem,
         DetachWait, DetachCheck, DetachWrite, DetachPost, DetachData, GetRegisterSem,
         WaitRegister, PostRegister, ctlVars
<1>2. CASE AttachSem(p) \/ DetachSem(p)
  BY <1>1, <1>2 DEF AttachSem, DetachSem, GetRegisterSem, Dies, Continues, Goto, At, TypeOK,
                    MemberPCs, AttachedPCs
<1>3. CASE AttachWait(p) \/ DetachWait(p) \/ AttachPost(p) \/ DetachPost(p)
  BY <1>1, <1>3 DEF AttachWait, DetachWait, AttachPost, DetachPost, WaitRegister, PostRegister,
                    Goto, At, TypeOK, MemberPCs, AttachedPCs
<1>4. CASE AttachCheck(p) \/ DetachCheck(p)
  BY <1>1, <1>4 DEF AttachCheck, DetachCheck, Dies, Continues, Goto, At, TypeOK, MemberPCs,
                    AttachedPCs
<1>5. CASE AttachWrite(p) \/ DetachWrite(p) \/ DetachData(p)
  BY <1>1, <1>5 DEF AttachWrite, DetachWrite, DetachData, Goto, At, TypeOK, MemberPCs,
                    AttachedPCs
<1> QED
  BY <1>2, <1>3, <1>4, <1>5 DEF AppStep

(* Of the steps outside of the library only the beginning of               *)
(* registerDetach concerns an attached application.                        *)
LEMMA EnvironmentPcs ==
  ASSUME TypeOK, Environment, NEW p \in Pids
  PROVE  /\ pc'[p] \in MemberPCs \cup {"detachPost"} =>
              /\ pc[p] \in MemberPCs \cup {"detachPost"}
              /\ \/ pc'[p] = pc[p] /\ home'[p] = home[p]
                 \/ pc'[p] = "detachSem" /\ pc[p] = "attached" /\ home'[p] = ctl /\ ctl' = ctl
<1>1. ASSUME NEW q \in Pids,
             \/ Spawn(q) \/ Crash(q) \/ Reap(q) \/ AttachCreate(q) \/ AttachRefused(q)
             \/ \E k \in Cores : AssignCore(q, k)
      PROVE  pc'[p] \in MemberPCs \cup {"detachPost"} => pc'[p] = pc[p] /\ home'[p] = home[p]
  BY <1>1 DEF Spawn, Crash, Reap, AttachCreate, CreateData, AttachRefused, AssignCore, Dies,
              Goto, appVars, TypeOK, MemberPCs, AttachedPCs
<1>2. ASSUME NEW q \in Pids, DetachBegin(q)
      PROVE  pc'[p] \in MemberPCs \cup {"detachPost"} =>
               \/ pc'[p] = pc[p] /\ home'[p] = home[p]
               \/ pc'[p] = "detachSem" /\ pc[p] = "attached" /\ home'[p] = ctl /\ ctl' = ctl
  BY <1>2 DEF DetachBegin, Dies, Goto, At, ctlVars, TypeOK, MemberPCs, AttachedPCs
<1>3. CASE ControllerCrash \/ DestroyBegin \/ \E c \in Controllers : Start(c)
  BY <1>3 DEF ControllerCrash, DestroyBegin, Start, Lock, appVars
<1> QED
  BY <1>1, <1>2, <1>3 DEF Environment, MemberPCs, AttachedPCs

LEMMA ControllerPcs ==
  ASSUME ControllerStep
  PROVE  UNCHANGED appVars /\ ctl' = ctl
BY DEF ControllerStep, Boot, SemaphoreCreate, SemaphoreInit, BootLock, RegisterCreate,
       BootUnlock, SetupGroups, Run, RunBegin, DeregisterDeadApp, DeadAppsDone,
       DeregisterDetachedApp, DetachedAppsDone, RegisterNewApp, NewAppsDone, RunEnd,
       HelperReturns, Destroy, RegisterDestroy, DestroyUnlock, SemaphoreDestroy, GroupsDestroy,
       DropApp, DestroyEnd, Lock, Unlock

(* Who is attached, or on the way to its announcement, after a step was so *)
(* before it, or has just written its entry.                               *)
LEMMA Moves ==
  ASSUME TypeOK, [Next]_vars, NEW p \in Pids, ~AttachWrite(p)
  PROVE  /\ pc'[p] \in MemberPCs => pc[p] \in MemberPCs
         /\ pc'[p] \in AttachedPCs => pc[p] \in AttachedPCs /\ home'[p] = home[p]
         /\ pc'[p] \in MemberPCs \cup {"detachPost"} =>
              /\ pc[p] \in MemberPCs \cup {"detachPost"}
              /\ home'[p] = home[p] \/ (home'[p] = ctl /\ ctl' = ctl)
<1>1. CASE Environment
  BY <1>1, EnvironmentPcs DEF MemberPCs, AttachedPCs
<1>2. CASE ControllerStep
  BY <1>2, ControllerPcs DEF appVars
<1>3. ASSUME NEW q \in Pids, AppStep(q)
      PROVE  /\ pc'[p] \in MemberPCs => pc[p] \in MemberPCs
             /\ pc'[p] \in AttachedPCs => pc[p] \in AttachedPCs /\ home'[p] = home[p]
             /\ pc'[p] \in MemberPCs \cup {"detachPost"} =>
                  /\ pc[p] \in MemberPCs \cup {"detachPost"}
                  /\ home'[p] = home[p] \/ (home'[p] = ctl /\ ctl' = ctl)
  BY <1>3, AppPcs DEF MemberPCs, AttachedPCs
<1>4. CASE UNCHANGED vars
  BY <1>4 DEF vars, appVars
<1> QED
  BY <1>1, <1>2, <1>3, <1>4 DEF Next

-----------------------------------------------------------------------------
(* The register and the lists.                                             *)

(* Only the constructor and the destructor make the register and remove it. *)
LEMMA ExistsKept ==
  ASSUME TypeOK, [Next]_vars, ~RegisterCreate, ~RegisterDestroy, NEW c \in Controllers
  PROVE  reg'[c].exists = reg[c].exists
<1>1. ASSUME NEW p \in Pids, AppStep(p)
      PROVE  reg'[c].exists = reg[c].exists
  BY <1>1, ExistsStays
<1>2. CASE Environment
  <2>1. ASSUME NEW p \in Pids,
               \/ Spawn(p) \/ Crash(p) \/ Reap(p) \/ AttachCreate(p) \/ AttachRefused(p)
               \/ DetachBegin(p) \/ \E k \in Cores : AssignCore(p, k)
        PROVE  UNCHANGED reg
    BY <2>1 DEF Spawn, Crash, Reap, AttachCreate, CreateData, AttachRefused, DetachBegin,
                AssignCore, ipcVars
  <2>2. CASE ControllerCrash \/ DestroyBegin \/ \E s \in Controllers : Start(s)
    BY <2>2 DEF ControllerCrash, DestroyBegin, Lock, Start, ipcVars
  <2> QED
    BY <1>2, <2>1, <2>2 DEF Environment
<1>3. CASE DetachedAppsDone \/ NewAppsDone
  <2>1. reg' \in {[reg EXCEPT ![ctl].detachedApps = <<>>], [reg EXCEPT ![ctl].newApps = <<>>]}
    BY <1>3 DEF DetachedAppsDone, NewAppsDone, HelperReturns
  <2>2. reg \in [Controllers -> Registers] /\ reg[c] \in Registers
    BY DEF TypeOK
  <2>3. CASE reg' = [reg EXCEPT ![ctl].detachedApps = <<>>]
    BY <2>2, <2>3 DEF Registers
  <2>4. CASE reg' = [reg EXCEPT ![ctl].newApps = <<>>]
    BY <2>2, <2>4 DEF Registers
  <2> QED
    BY <2>1, <2>3, <2>4
<1>4. CASE ControllerStep /\ ~DetachedAppsDone /\ ~NewAppsDone
  BY <1>4 DEF ControllerStep, Boot, SemaphoreCreate, SemaphoreInit, BootLock, BootUnlock,
              SetupGroups, Run, RunBegin, DeregisterDeadApp, DeadAppsDone, RunEnd,
              DeregisterDetachedApp, RegisterNewApp, HelperReturns, Destroy, DestroyUnlock,
              SemaphoreDestroy, GroupsDestroy, DropApp, DestroyEnd, Lock, Unlock, ipcVars
<1>5. CASE UNCHANGED vars
  BY <1>5 DEF vars, ipcVars
<1> QED
  BY <1>1, <1>2, <1>3, <1>4, <1>5 DEF Next

(* How the controller comes to where the register exists.                  *)
LEMMA ControllerWay ==
  ASSUME TypeOK, [Next]_vars
  PROVE  /\ cpc' \in OpenPCs =>
              RegisterCreate \/ (cpc \in OpenPCs /\ ctl' = ctl /\ ~RegisterDestroy)
         /\ cpc' \in OpenPCs \ {"bootUnlock"} => cpc \in OpenPCs
         /\ cpc' \in OpeningPCs \cup {"bootUnlock"} =>
              \/ \E c \in Controllers : Start(c)
              \/ cpc \in OpeningPCs /\ ctl' = ctl
              \/ cpc = "bootUnlock" /\ cpc' = cpc /\ ctl' = ctl
<1>1. ASSUME NEW p \in Pids, AppStep(p)
      PROVE  UNCHANGED <<cpc, ctl>>
  BY <1>1, AppPcs
<1>2. ASSUME UNCHANGED <<cpc, ctl>>
      PROVE  ~RegisterCreate /\ ~RegisterDestroy
  BY <1>2 DEF RegisterCreate, RegisterDestroy, ControllerGoto, ControllerEnds
<1>3. CASE Environment
  <2>1. ASSUME NEW p \in Pids,
               \/ Spawn(p) \/ Crash(p) \/ Reap(p) \/ AttachCreate(p) \/ AttachRefused(p)
               \/ DetachBegin(p) \/ \E k \in Cores : AssignCore(p, k)
        PROVE  UNCHANGED <<cpc, ctl>>
    BY <2>1 DEF Spawn, Crash, Reap, AttachCreate, CreateData, AttachRefused, DetachBegin,
                AssignCore, ctlVars
  <2>2. CASE ControllerCrash \/ DestroyBegin
    BY <2>2 DEF ControllerCrash, ControllerEnds, DestroyBegin, Lock, ControllerGoto,
                RegisterDestroy, OpenPCs, OpeningPCs
  <2>3. CASE \E c \in Controllers : Start(c)
    BY <2>3 DEF Start, OpenPCs, OpeningPCs
  <2> QED
    BY <1>2, <1>3, <2>1, <2>2, <2>3 DEF Environment
<1>4. CASE Boot
  BY <1>4 DEF Boot, SemaphoreCreate, SemaphoreInit, BootLock, RegisterCreate, BootUnlock,
              SetupGroups, Lock, Unlock, ControllerGoto, ControllerEnds, RegisterDestroy,
              OpenPCs, OpeningPCs
<1>5. CASE Run
  <2>1. cpc \in Serving /\ cpc' \in Serving \cup {"crashed", "failed"} /\ ctl' = ctl
    BY <1>5 DEF Run, RunBegin, DeregisterDeadApp, DeadAppsDone, DeregisterDetachedApp,
                DetachedAppsDone, RegisterNewApp, NewAppsDone, RunEnd, HelperReturns, Lock,
                Unlock, ControllerGoto, ControllerEnds, Serving
  <2> QED
    BY <2>1 DEF Serving, OpenPCs, OpeningPCs, RegisterDestroy
<1>6. CASE Destroy
  <2>1. cpc' \in ClosingPCs \cup {"crashed", "done"}
    BY <1>6 DEF Destroy, RegisterDestroy, DestroyUnlock, SemaphoreDestroy, GroupsDestroy,
                DropApp, DestroyEnd, Unlock, ControllerGoto, ControllerEnds, ClosingPCs
  <2> QED
    BY <2>1 DEF ClosingPCs, OpenPCs, OpeningPCs
<1>7. CASE UNCHANGED vars
  BY <1>2, <1>7 DEF vars, ctlVars
<1> QED
  BY <1>1, <1>2, <1>3, <1>4, <1>5, <1>6, <1>7 DEF Next, ControllerStep

LEMMA OpenNext ==
  ASSUME TypeOK, OpenWhileServing, [Next]_vars
  PROVE  OpenWhileServing'
<1> SUFFICES ASSUME cpc' \in OpenPCs
             PROVE  RegistryOpen'
  BY DEF OpenWhileServing
<1>1. ControllerRuns'
  BY DEF ControllerRuns, Ended, OpenPCs
<1>2. CASE RegisterCreate
  <2>1. ctl \in Controllers
    BY <1>2, ListType DEF RegisterCreate, ControllerGoto, ControllerRuns, Ended
  <2>2. ctl' = ctl /\ reg'[ctl].exists
    BY <1>2, <2>1 DEF RegisterCreate, NoRegister, TypeOK
  <2> QED
    BY <1>1, <2>2 DEF RegistryOpen
<1>3. CASE ~RegisterCreate
  <2>1. cpc \in OpenPCs /\ ctl' = ctl /\ ~RegisterDestroy
    BY <1>3, ControllerWay
  <2>2. RegistryOpen
    BY <2>1 DEF OpenWhileServing
  <2>3. ctl \in Controllers
    BY <2>2, ListType DEF RegistryOpen
  <2> QED
    BY <1>1, <1>3, <2>1, <2>2, <2>3, ExistsKept DEF RegistryOpen
<1> QED
  BY <1>2, <1>3

(* A new controller has nobody attached to it.                             *)
LEMMA NobodyNext ==
  ASSUME Invariants, NobodyYet, [Next]_vars
  PROVE  NobodyYet'
<1> SUFFICES ASSUME cpc' \in OpeningPCs \cup {"bootUnlock"}, NEW p \in Pids,
                    pc'[p] \in AttachedPCs, home'[p] = ctl'
             PROVE  FALSE
  BY DEF NobodyYet
<1>1. CASE \E c \in Controllers : Start(c)
  <2>1. PICK c \in Controllers : Start(c)
    BY <1>1
  <2>2. ctl' = c /\ c \notin started /\ home' = home
    BY <2>1 DEF Start, appVars
  <2> QED
    BY <2>2, PidsAssumption DEF Invariants, MapInv, HomesStarted, Procs
<1>2. CASE AttachWrite(p)
  <2>1. home' = home /\ UNCHANGED <<cpc, ctl>>
    BY <1>2 DEF AttachWrite, ctlVars
  <2>2. reg[ctl].exists /\ cpc \notin ControllerLockedPCs
    BY <1>2, <2>1, WriterExcludes
  <2> QED
    BY <2>1, <2>2 DEF Invariants, ClosedInv, ControllerLockedPCs
<1>3. CASE ~AttachWrite(p) /\ ~\E c \in Controllers : Start(c)
  <2>1. pc[p] \in AttachedPCs /\ home'[p] = home[p]
    BY <1>3, Moves DEF Invariants
  <2>2. cpc \in OpeningPCs \cup {"bootUnlock"} /\ ctl' = ctl
    BY <1>3, ControllerWay DEF Invariants
  <2> QED
    BY <2>1, <2>2 DEF NobodyYet
<1> QED
  BY <1>1, <1>2, <1>3


-----------------------------------------------------------------------------
(* Announcements.                                                          *)

(* A list stays empty from its helper to the unlock.                       *)
LEMMA EmptiedNext ==
  ASSUME Invariants, ListsEmptied, [Next]_vars
  PROVE  ListsEmptied'
<1> DEFINE Empty(m) == /\ RunOrder[m] = "deregisterDetachedApps" => reg[ctl].detachedApps = <<>>
                       /\ RunOrder[m] = "registerNewApps" => reg[ctl].newApps = <<>>
<1> SUFFICES ASSUME cpc' = "run", NEW m \in 1 .. loop'.phase - 1
             PROVE  Empty(m)'
  BY DEF ListsEmptied
<1>1. ASSUME cpc = "run", UNCHANGED <<ctl, cpc>>, loop'.phase = loop.phase,
             reg'[ctl] = reg[ctl]
      PROVE  Empty(m)'
  BY <1>1 DEF ListsEmptied
<1>2. CASE Environment
  <2>1. ASSUME NEW p \in Pids,
               \/ Spawn(p) \/ Crash(p) \/ Reap(p) \/ AttachCreate(p) \/ AttachRefused(p)
               \/ DetachBegin(p) \/ \E k \in Cores : AssignCore(p, k)
        PROVE  UNCHANGED <<reg, ctl, cpc, loop>>
    BY <2>1 DEF Spawn, Crash, Reap, AttachCreate, CreateData, AttachRefused, DetachBegin,
                AssignCore, ipcVars, ctlVars
  <2>2. CASE ControllerCrash \/ DestroyBegin \/ \E c \in Controllers : Start(c)
    BY <2>2 DEF ControllerCrash, ControllerEnds, DestroyBegin, Lock, ControllerGoto, Start
  <2> QED
    BY <1>1, <1>2, <2>1, <2>2 DEF Environment
<1>3. ASSUME NEW p \in Pids, AppStep(p)
      PROVE  Empty(m)'
  <2>1. cpc = "run" /\ UNCHANGED <<ctl, cpc, loop>>
    BY <1>3, AppPcs DEF Invariants
  <2>2. ctl \in Controllers
    BY <2>1, Views
  <2>3. CASE AttachWrite(p) \/ DetachWrite(p)
    <3>1. home[p] # ctl
      BY <2>1, <2>3, WriterExcludes DEF ControllerLockedPCs
    <3>2. reg'[ctl] = reg[ctl]
      BY <2>2, <2>3, <3>1 DEF AttachWrite, DetachWrite, Invariants, TypeOK
    <3> QED
      BY <1>1, <2>1, <3>2
  <2>4. CASE ~AttachWrite(p) /\ ~DetachWrite(p)
    <3>1. UNCHANGED reg
      BY <1>3, <2>4 DEF AppStep, AttachSem, AttachWait, AttachCheck, AttachPost, DetachSem,
                        DetachWait, DetachCheck, DetachPost, DetachData, GetRegisterSem,
                        WaitRegister, PostRegister
    <3> QED
      BY <1>1, <2>1, <3>1
  <2> QED
    BY <2>3, <2>4
<1>4. CASE Run
  <2>1. CASE RunBegin
    BY <2>1 DEF RunBegin, EnterPhase
  <2>2. CASE RunEnd
    BY <2>2 DEF RunEnd, Unlock, ControllerGoto
  <2>3. CASE DeadAppsDone \/ DetachedAppsDone \/ NewAppsDone
    <3>1. cpc = "run" /\ ctl \in Controllers /\ loop.phase \in Nat
      BY <2>3, Views DEF DeadAppsDone, DetachedAppsDone, NewAppsDone, Invariants, TypeOK
    <3>2. /\ ctl' = ctl /\ EnterPhase(loop.phase + 1)
          /\ \/ Phase = "deregisterDeadApps" /\ reg' = reg
             \/ Phase = "deregisterDetachedApps" /\ reg' = [reg EXCEPT ![ctl].detachedApps = <<>>]
             \/ Phase = "registerNewApps" /\ reg' = [reg EXCEPT ![ctl].newApps = <<>>]
      BY <2>3 DEF DeadAppsDone, DetachedAppsDone, NewAppsDone, HelperReturns
    <3>3. /\ reg'[ctl].detachedApps = <<>> \/ (/\ reg'[ctl].detachedApps = reg[ctl].detachedApps
                                              /\ Phase # "deregisterDetachedApps")
          /\ reg'[ctl].newApps = <<>> \/ (/\ reg'[ctl].newApps = reg[ctl].newApps
                                         /\ Phase # "registerNewApps")
      BY <3>1, <3>2 DEF Invariants, TypeOK, Registers
    <3>4. m \in 1 .. loop.phase
      BY <3>1, <3>2 DEF EnterPhase
    <3>5. CASE m = loop.phase
      <4>1. m \in DOMAIN RunOrder => Phase = RunOrder[m]
        BY <3>5 DEF Phase
      <4>2. DOMAIN RunOrder = 1 .. Len(RunOrder) /\ Len(RunOrder) \in Nat
        BY ParametersAssumption
      <4>3. m \in DOMAIN RunOrder
        BY <3>1, <3>2, <3>4, <3>5, <4>2 DEF Phase
      <4> QED
        BY <3>2, <3>3, <4>1, <4>3
    <3>6. CASE m \in 1 .. loop.phase - 1
      BY <3>1, <3>2, <3>3, <3>6 DEF ListsEmptied
    <3> QED
      BY <3>1, <3>4, <3>5, <3>6
  <2>4. CASE DeregisterDetachedApp \/ RegisterNewApp \/ \E p \in Pids : DeregisterDeadApp(p)
    <3>1. /\ cpc = "run" /\ UNCHANGED <<reg, ctl>>
          /\ \/ loop' = loop \/ loop' = [loop EXCEPT !.i = @ + 1]
             \/ \E p \in Pids : loop' = [loop EXCEPT !.todo = @ \ {p}]
      BY <2>4 DEF DeregisterDetachedApp, RegisterNewApp, DeregisterDeadApp
    <3>2. loop'.phase = loop.phase
      BY <3>1 DEF Invariants, TypeOK
    <3> QED
      BY <1>1, <3>1, <3>2
  <2> QED
    BY <1>4, <2>1, <2>2, <2>3, <2>4 DEF Run
<1>5. CASE Boot
  BY <1>5 DEF Boot, SemaphoreCreate, SemaphoreInit, BootLock, RegisterCreate, BootUnlock,
              SetupGroups, Lock, Unlock, ControllerGoto, ControllerEnds
<1>6. CASE Destroy
  BY <1>6 DEF Destroy, RegisterDestroy, DestroyUnlock, SemaphoreDestroy, GroupsDestroy,
              DropApp, DestroyEnd, Unlock, ControllerGoto, ControllerEnds
<1>7. CASE UNCHANGED vars
  BY <1>1, <1>7 DEF vars, ipcVars, ctlVars
<1> QED
  BY <1>2, <1>3, <1>4, <1>5, <1>6, <1>7 DEF Next, ControllerStep

(* Only registerNewApps adds to the map.                                   *)
LEMMA MembersGrow ==
  ASSUME [Next]_vars, ~RegisterNewApp
  PROVE  registered' \subseteq registered
<1>1. ASSUME NEW p \in Pids, AppStep(p)
      PROVE  registered' = registered
  BY <1>1 DEF AppStep, AttachSem, AttachWait, AttachCheck, AttachWrite, AttachPost, DetachSem,
         DetachWait, DetachCheck, DetachWrite, DetachPost, DetachData, GetRegisterSem,
         WaitRegister, PostRegister, ctlVars, policyVars
<1>2. CASE Environment
  <2>1. ASSUME NEW p \in Pids,
               \/ Spawn(p) \/ Crash(p) \/ Reap(p) \/ AttachCreate(p) \/ AttachRefused(p)
               \/ DetachBegin(p) \/ \E k \in Cores : AssignCore(p, k)
        PROVE  registered' = registered
    BY <2>1 DEF Spawn, Crash, Reap, AttachCreate, CreateData, AttachRefused, DetachBegin,
                AssignCore, ctlVars, policyVars
  <2>2. CASE ControllerCrash \/ DestroyBegin \/ \E c \in Controllers : Start(c)
    BY <2>2 DEF ControllerCrash, DestroyBegin, Lock, Start, policyVars
  <2> QED
    BY <1>2, <2>1, <2>2 DEF Environment
<1>3. CASE Boot
  BY <1>3 DEF Boot, SemaphoreCreate, SemaphoreInit, BootLock, RegisterCreate, BootUnlock,
              SetupGroups, Lock, Unlock, policyVars
<1>4. CASE Run
  BY <1>4 DEF Run, RunBegin, DeregisterDeadApp, DeadAppsDone, DeregisterDetachedApp, Deregister,
              DetachedAppsDone, NewAppsDone, RunEnd, HelperReturns, Lock, Unlock, policyVars
<1>5. CASE Destroy
  BY <1>5 DEF Destroy, RegisterDestroy, DestroyUnlock, SemaphoreDestroy, GroupsDestroy,
              DropApp, DestroyEnd, Unlock, policyVars
<1>6. CASE UNCHANGED vars
  BY <1>6 DEF vars, ctlVars, policyVars
<1> QED
  BY <1>1, <1>2, <1>3, <1>4, <1>5, <1>6 DEF Next, ControllerStep

-----------------------------------------------------------------------------
(* The queue and the members.                                              *)

(* An open register is that of a running controller, and stays its own.    *)
LEMMA OpenStays ==
  ASSUME Invariants, [Next]_vars, RegistryOpen'
  PROVE  ctl' = ctl
<1>1. ASSUME NEW c \in Controllers, Start(c)
      PROVE  FALSE
  <2>1. ~reg[c].exists
    BY <1>1 DEF Start, Invariants, LockInv, BootState, NotBooted, RegisterHasSemaphore
  <2> QED
    BY <1>1, <2>1 DEF Start, RegistryOpen, ipcVars
<1>2. ASSUME NEW p \in Pids,
             \/ Spawn(p) \/ Crash(p) \/ Reap(p) \/ AttachCreate(p) \/ AttachRefused(p)
             \/ DetachBegin(p) \/ \E k \in Cores : AssignCore(p, k)
      PROVE  ctl' = ctl
  BY <1>2 DEF Spawn, Crash, Reap, AttachCreate, CreateData, AttachRefused, DetachBegin,
              AssignCore, ctlVars
<1>3. CASE ControllerCrash \/ DestroyBegin \/ UNCHANGED vars
  BY <1>3 DEF ControllerCrash, DestroyBegin, Lock, vars, ctlVars
<1>4. ASSUME NEW p \in Pids, AppStep(p)
      PROVE  ctl' = ctl
  BY <1>4, AppPcs DEF Invariants
<1> QED
  BY <1>1, <1>2, <1>3, <1>4, ControllerPcs DEF Next, Environment

(* What a quiet step of the registry does to who is in it: one is erased   *)
(* who has announced itself or is gone, or everything ends.                *)
LEMMA QuietKnown ==
  ASSUME Invariants, Quiet, Queue \in Seq(Pids)
  PROVE  /\ Known' \subseteq Known /\ Leaving' \subseteq Leaving
         /\ RegistryOpen' => \A p \in Known \ Known' :
                               p \in Members /\ (p \in Leaving \/ p \notin Present)
         /\ \A p \in Members' \ Members : RegistryOpen /\ RegistryOpen'
<1>1. CASE R!Open \/ UNCHANGED R!vars \/ \E p \in Pids : R!Appear(p) \/ R!Vanish(p)
  <2>1. UNCHANGED <<Queue, Members, Leaving>>
    BY <1>1 DEF R!Open, R!Appear, R!Vanish, R!vars
  <2> QED
    BY <2>1 DEF Known
<1>2. CASE R!Close
  BY <1>2 DEF R!Close, Known
<1>3. CASE R!Register
  <2>1. /\ Queue # <<>> /\ Members' = Members \cup {Head(Queue)} /\ Queue' = Tail(Queue)
        /\ Leaving' = Leaving /\ RegistryOpen' = RegistryOpen
    BY <1>3 DEF R!Register
  <2>2. RegistryOpen
    BY <2>1 DEF Queue
  <2>3. {Queue[i] : i \in DOMAIN Queue} = {Head(Queue)} \cup {Queue'[i] : i \in DOMAIN Queue'}
    BY <2>1, HeadAndTail
  <2> QED
    BY <2>1, <2>2, <2>3 DEF Known
<1>4. ASSUME NEW p \in Pids, R!Deregister(p)
      PROVE  /\ Known' \subseteq Known /\ Leaving' \subseteq Leaving
             /\ \A q \in Known \ Known' :
                  q \in Members /\ (q \in Leaving \/ q \notin Present)
             /\ Members' \subseteq Members
  BY <1>4 DEF R!Deregister, Known
<1> QED
  BY <1>1, <1>2, <1>3, <1>4 DEF Quiet

(* The queue of the registry is a list of pids, those that wait.           *)
LEMMA QueueType ==
  ASSUME Invariants
  PROVE  /\ Queue \in Seq(Pids) /\ Known \subseteq Pids
         /\ RegistryOpen => /\ ControllerRuns /\ Members = registered
                            /\ {Queue[i] : i \in DOMAIN Queue} = Pending
                            /\ \A p \in Pending : \E i \in Waiting : reg[ctl].newApps[i] = p
<1>1. Members \subseteq Pids
  BY DEF Members, Invariants, TypeOK
<1>2. CASE RegistryOpen
  <2>1. NewApps \in Seq(Pids) /\ DOMAIN NewApps = 1 .. Len(NewApps)
    BY <1>2, NewAppsIsRest DEF RegistryOpen, Invariants
  <2>2. Queue = NewApps
    BY <1>2 DEF Queue
  <2>3. \A p \in Pending : \E i \in Waiting : reg[ctl].newApps[i] = p
    BY <1>2, <2>1, NewAppsIsRest DEF RegistryOpen, Invariants, Pending
  <2>4. \A i \in DOMAIN Queue : Queue[i] \in Pids
    BY <2>1, <2>2
  <2> QED
    BY <1>1, <1>2, <2>1, <2>2, <2>3, <2>4 DEF RegistryOpen, Members, Known, Pending
<1>3. CASE ~RegistryOpen
  <2>1. Queue = <<>> /\ Members = {}
    BY <1>3 DEF Queue, Members
  <2> QED
    BY <1>3, <2>1 DEF Known
<1> QED
  BY <1>2, <1>3

(* An application that is about to write to new_apps is not in there.      *)
LEMMA AttachingUnknown ==
  ASSUME Invariants, NEW p \in Pids, AttachWrite(p)
  PROVE  p \notin Known
<1>1. pc[p] \in AttachingPCs
  BY DEF AttachWrite, At, AttachingPCs
<1>2. CASE RegistryOpen
  BY <1>1, <1>2, QueueType DEF Known, Invariants, MapInv, AttachingNew
<1>3. CASE ~RegistryOpen
  BY <1>3 DEF Known, Queue, Members
<1> QED
  BY <1>2, <1>3

(* A step is the write of one application.                                 *)
LEMMA StepOfOne ==
  ASSUME Invariants, NEW p \in Pids, AttachWrite(p)
  PROVE  \A q \in Pids : (AttachWrite(q) => q = p) /\ ~DetachWrite(q)
<1>1. pc[p] = "attachWrite" /\ pc' = [pc EXCEPT ![p] = "attachPost"]
  BY DEF AttachWrite, At, Goto
<1>2. ASSUME NEW q \in Pids, pc[q] \in {"attachWrite", "detachWrite"},
             pc'[q] \in {"attachPost", "detachPost"}
      PROVE  q = p
  BY <1>1, <1>2 DEF Invariants, TypeOK
<1>3. ASSUME NEW q \in Pids, AttachWrite(q)
      PROVE  q = p
  BY <1>2, <1>3 DEF AttachWrite, At, Goto, Invariants, TypeOK
<1>4. ASSUME NEW q \in Pids, DetachWrite(q)
      PROVE  FALSE
  <2>1. pc[q] = "detachWrite" /\ pc'[q] = "detachPost"
    BY <1>4 DEF DetachWrite, At, Goto, Invariants, TypeOK
  <2> QED
    BY <1>1, <1>2, <2>1
<1> QED
  BY <1>3, <1>4

(* Every step, seen from the registry.                                     *)
LEMMA StepKnown ==
  ASSUME Invariants, [Next]_vars
  PROVE  \/ /\ Quiet /\ \A p \in Pids : ~DetachWrite(p)
            /\ \A p \in Pids : AttachWrite(p) => ~(ControllerRuns /\ home[p] = ctl)
         \/ \E p \in Pids :
              /\ AttachWrite(p) /\ home[p] = ctl /\ RegistryOpen
              /\ Known' = Known \cup {p} /\ UNCHANGED <<Members, Leaving, RegistryOpen>>
         \/ \E p \in Pids :
              /\ DetachWrite(p) /\ pc'[p] = "detachPost"
              /\ Known' = Known /\ UNCHANGED <<Members, RegistryOpen>>
              /\ Leaving' \subseteq Leaving \cup {p}
<1>1. ASSUME NEW p \in Pids, AttachWrite(p), home[p] = ctl, R!Attach(p)
      PROVE  /\ RegistryOpen /\ Known' = Known \cup {p}
             /\ UNCHANGED <<Members, Leaving, RegistryOpen>>
  <2>1. /\ Queue' = Append(Queue, p) /\ RegistryOpen
        /\ UNCHANGED <<Members, Leaving, RegistryOpen>>
    BY <1>1 DEF R!Attach
  <2>2. {Queue'[i] : i \in DOMAIN Queue'} = {Queue[i] : i \in DOMAIN Queue} \cup {p}
    BY <2>1, QueueType, AppendedEntries
  <2> QED
    BY <2>1, <2>2 DEF Known
<1>2. ASSUME NEW p \in Pids, DetachWrite(p)
      PROVE  /\ pc'[p] = "detachPost" /\ Known' = Known /\ UNCHANGED <<Members, RegistryOpen>>
             /\ Leaving' \subseteq Leaving \cup {p}
  <2>1. pc'[p] = "detachPost"
    BY <1>2 DEF DetachWrite, Goto, Invariants, TypeOK
  <2>2. CASE R!Leave(p)
    BY <2>1, <2>2 DEF R!Leave, Known
  <2>3. CASE UNCHANGED R!vars
    BY <2>1, <2>3 DEF R!vars, Known
  <2> QED
    BY <1>2, <2>2, <2>3, DetachWriteLeaves
<1>3. CASE \E p \in Pids : AttachWrite(p)
  <2>1. PICK p \in Pids : AttachWrite(p)
    BY <1>3
  <2>2. \A q \in Pids : (AttachWrite(q) => q = p) /\ ~DetachWrite(q)
    BY <2>1, StepOfOne
  <2>3. CASE home[p] = ctl /\ R!Attach(p)
    BY <1>1, <2>1, <2>3
  <2>4. CASE ~(ControllerRuns /\ home[p] = ctl) /\ Quiet
    BY <2>2, <2>4
  <2> QED
    BY <2>1, <2>3, <2>4, AttachWriteAttaches
<1>4. CASE \E p \in Pids : DetachWrite(p)
  BY <1>2, <1>4
<1>5. CASE \A p \in Pids : ~AttachWrite(p) /\ ~DetachWrite(p)
  BY <1>5, NextQuiet
<1> QED
  BY <1>3, <1>4, <1>5

-----------------------------------------------------------------------------
(* AttachInv.                                                              *)

(* When an application becomes a member no announcement is left.           *)
LEMMA NewMember ==
  ASSUME DetachedFirst, Invariants, AttachInv, RegisterNewApp
  PROVE  Leaving = {}
<1>1. cpc = "run" /\ Phase = "registerNewApps" /\ loop.phase \in Nat
  BY DEF RegisterNewApp, Invariants, TypeOK
<1>2. loop.phase \in DOMAIN RunOrder /\ RunOrder[loop.phase] = "registerNewApps"
  BY <1>1 DEF Phase
<1>3. reg[ctl].detachedApps = <<>>
  BY <1>1, <1>2 DEF DetachedFirst, AttachInv, ListsEmptied
<1>4. DetachedApps = <<>>
  BY <1>1, <1>3 DEF DetachedApps
<1> QED
  BY <1>4 DEF Leaving

LEMMA NoneLeavingNext ==
  ASSUME DetachedFirst, Invariants, AttachInv, [Next]_vars
  PROVE  NoneLeaving'
<1> SUFFICES ASSUME NEW p \in Members', pc'[p] \in MemberPCs, p \in Leaving'
             PROVE  FALSE
  BY DEF NoneLeaving
<1>1. ASSUME p \in Known
      PROVE  pc[p] \in MemberPCs /\ (p \in Members => p \notin Leaving)
  BY <1>1, QueueType, AttachingUnknown, Moves DEF AttachInv, NoneLeaving, Invariants
<1>2. CASE Quiet
  <2>1. /\ p \in Known /\ p \in Leaving
        /\ p \in Members \/ (RegistryOpen /\ RegistryOpen')
    BY <1>2, QueueType, QuietKnown DEF Known
  <2>2. p \notin Members /\ RegistryOpen /\ RegistryOpen'
    BY <1>1, <2>1
  <2>3. p \in registered' \ registered
    BY <2>2 DEF Members
  <2>4. RegisterNewApp
    BY <2>3, MembersGrow
  <2> QED
    BY <2>1, <2>4, NewMember
<1>3. CASE Members' = Members /\ Leaving' = Leaving
  BY <1>1, <1>3 DEF Known
<1>4. ASSUME NEW q \in Pids, pc'[q] = "detachPost", Members' = Members,
             Leaving' \subseteq Leaving \cup {q}
      PROVE  FALSE
  BY <1>1, <1>4 DEF Known, MemberPCs, AttachedPCs
<1> QED
  BY <1>2, <1>3, <1>4, StepKnown

LEMMA HomeNowNext ==
  ASSUME Invariants, AttachInv, [Next]_vars
  PROVE  HomeNow'
<1> SUFFICES ASSUME NEW p \in Known', pc'[p] \in MemberPCs \cup {"detachPost"}
             PROVE  home'[p] = ctl'
  BY DEF HomeNow
<1>1. ctl' = ctl
  <2>1. RegistryOpen'
    BY DEF Known, Queue, Members
  <2> QED
    BY <2>1, OpenStays
<1>2. CASE p \in Known
  <2>1. p \in Pids /\ ~AttachWrite(p)
    BY <1>2, QueueType, AttachingUnknown
  <2>2. pc[p] \in MemberPCs \cup {"detachPost"} /\ home'[p] \in {home[p], ctl}
    BY <2>1, Moves DEF Invariants
  <2> QED
    BY <1>1, <1>2, <2>2 DEF AttachInv, HomeNow
<1>3. CASE AttachWrite(p) /\ home[p] = ctl
  BY <1>1, <1>3 DEF AttachWrite
<1>4. p \in Known \/ (AttachWrite(p) /\ home[p] = ctl)
  BY StepKnown, QueueType, QuietKnown
<1> QED
  BY <1>2, <1>3, <1>4

LEMMA AttachedKnownNext ==
  ASSUME Invariants, AttachInv, [Next]_vars
  PROVE  AttachedKnown'
<1> SUFFICES ASSUME cpc' \in OpenPCs \ {"bootUnlock"}, NEW p \in Pids,
                    pc'[p] \in AttachedPCs, home'[p] = ctl'
             PROVE  p \in Known'
  BY DEF AttachedKnown
<1>1. RegistryOpen' /\ ctl' = ctl
  BY OpenNext, OpenStays DEF AttachInv, OpenWhileServing, Invariants
<1>2. cpc \in OpenPCs /\ ControllerRuns
  BY ControllerWay DEF Invariants, OpenPCs, ControllerRuns, Ended
<1>3. CASE AttachWrite(p)
  <2>1. home[p] = ctl
    BY <1>1, <1>3 DEF AttachWrite
  <2>2. \A q \in Pids : (AttachWrite(q) => q = p) /\ ~DetachWrite(q)
    BY <1>3, StepOfOne
  <2>3. PICK q \in Pids : AttachWrite(q) /\ Known' = Known \cup {q}
    BY <1>2, <1>3, <2>1, <2>2, StepKnown
  <2> QED
    BY <2>2, <2>3
<1>4. CASE ~AttachWrite(p)
  <2>1. pc[p] \in AttachedPCs /\ home[p] = ctl
    BY <1>1, <1>4, Moves DEF Invariants
  <2>2. p \in Known
    BY <1>2, <2>1 DEF AttachInv, NobodyYet, AttachedKnown
  <2>3. p \in Members => p \notin Leaving
    BY <2>1 DEF AttachInv, NoneLeaving, MemberPCs
  <2>4. p \in Present
    BY <2>1 DEF Invariants, TypeOK, Present, AttachedPCs
  <2> QED
    BY <1>1, <2>2, <2>3, <2>4, StepKnown, QuietKnown, QueueType
<1> QED
  BY <1>3, <1>4

LEMMA AttachInit == Init => AttachInv
<1> SUFFICES ASSUME Init
             PROVE  AttachInv
  OBVIOUS
<1>1. ~RegistryOpen
  BY DEF Init, RegistryOpen, ControllerRuns, Ended
<1>2. Members = {} /\ Known = {}
  BY <1>1 DEF Members, Queue, Known
<1>3. cpc = "off"
  BY DEF Init
<1> QED
  BY <1>2, <1>3 DEF AttachInv, OpenWhileServing, NobodyYet, ListsEmptied, NoneLeaving, HomeNow,
                    AttachedKnown, OpenPCs, OpeningPCs

LEMMA AttachNext ==
  ASSUME DetachedFirst
  PROVE  Invariants /\ AttachInv /\ [Next]_vars => AttachInv'
<1> SUFFICES ASSUME Invariants, AttachInv, [Next]_vars
             PROVE  AttachInv'
  OBVIOUS
<1>1. OpenWhileServing' /\ NobodyYet' /\ ListsEmptied'
  BY OpenNext, NobodyNext, EmptiedNext DEF Invariants, AttachInv
<1>2. NoneLeaving' /\ HomeNow' /\ AttachedKnown'
  BY NoneLeavingNext, HomeNowNext, AttachedKnownNext
<1> QED
  BY <1>1, <1>2 DEF AttachInv

-----------------------------------------------------------------------------
(***************************************************************************)
(* The same for a single controller that registers the new applications    *)
(* before it looks for those that leave, and those before the dead ones.   *)
(* Here an announcement is never older than the application: who leaves is *)
(* in new_apps or in the map, once, until the announcement is processed.   *)
(***************************************************************************)

Alone == \A c, d \in Controllers : c = d

DetachedLater ==
  \A n \in DOMAIN RunOrder :
    /\ RunOrder[n] = "deregisterDetachedApps" =>
         \E m \in 1 .. n - 1 : RunOrder[m] = "registerNewApps"
    /\ RunOrder[n] = "deregisterDeadApps" =>
         \E m \in 1 .. n - 1 : RunOrder[m] = "deregisterDetachedApps"

NobodyBefore ==
  cpc \in OpeningPCs \cup {"bootUnlock"} => \A p \in Pids : pc[p] \notin MemberPCs

NotYetLeaving == \A p \in Known : pc[p] \in MemberPCs => p \notin Leaving

MembersKnown ==
  cpc \in OpenPCs \ {"bootUnlock"} =>
    \A p \in Pids : pc[p] \in MemberPCs /\ home[p] = ctl => p \in Known

LeavingKnown == Leaving \subseteq Known

LeftOnce ==
  RegistryOpen =>
    \A i, j \in DOMAIN reg[ctl].detachedApps :
      reg[ctl].detachedApps[i] = reg[ctl].detachedApps[j] => i = j

AloneInv ==
  AttachInv /\ NobodyBefore /\ NotYetLeaving /\ MembersKnown /\ LeavingKnown /\ LeftOnce

(* What the map loses is dead, has announced itself, or goes with the map. *)
LEMMA Leavers ==
  ASSUME [Next]_vars, NEW p \in registered \ registered'
  PROVE  \/ DeregisterDeadApp(p)
         \/ DeregisterDetachedApp /\ p = reg[ctl].detachedApps[loop.i + 1]
         \/ cpc \in {"dropApps"} \cup Ended
<1>1. ASSUME NEW q \in Pids, AppStep(q)
      PROVE  FALSE
  BY <1>1 DEF AppStep, AttachSem, AttachWait, AttachCheck, AttachWrite, AttachPost, DetachSem,
         DetachWait, DetachCheck, DetachWrite, DetachPost, DetachData, GetRegisterSem,
         WaitRegister, PostRegister, ctlVars, policyVars
<1>2. CASE Environment
  <2>1. ASSUME NEW q \in Pids,
               \/ Spawn(q) \/ Crash(q) \/ Reap(q) \/ AttachCreate(q) \/ AttachRefused(q)
               \/ DetachBegin(q) \/ \E k \in Cores : AssignCore(q, k)
        PROVE  FALSE
    BY <2>1 DEF Spawn, Crash, Reap, AttachCreate, CreateData, AttachRefused, DetachBegin,
                AssignCore, ctlVars, policyVars
  <2>2. CASE ControllerCrash \/ DestroyBegin
    BY <2>2 DEF ControllerCrash, DestroyBegin, Lock, policyVars
  <2>3. CASE \E c \in Controllers : Start(c)
    BY <2>3 DEF Start
  <2> QED
    BY <1>2, <2>1, <2>2, <2>3 DEF Environment
<1>3. CASE Boot
  BY <1>3 DEF Boot, SemaphoreCreate, SemaphoreInit, BootLock, RegisterCreate, BootUnlock,
              SetupGroups, Lock, Unlock, policyVars
<1>4. CASE \E q \in Pids : DeregisterDeadApp(q)
  BY <1>4 DEF DeregisterDeadApp, Deregister, policyVars
<1>5. CASE DeregisterDetachedApp
  BY <1>5 DEF DeregisterDetachedApp, Deregister, policyVars
<1>6. CASE \/ RunBegin \/ DeadAppsDone \/ DetachedAppsDone \/ RegisterNewApp \/ NewAppsDone
           \/ RunEnd
  BY <1>6 DEF RunBegin, DeadAppsDone, DetachedAppsDone, RegisterNewApp, NewAppsDone, RunEnd,
              HelperReturns, Lock, Unlock, policyVars
<1>7. CASE \E q \in Pids : DropApp(q)
  BY <1>7 DEF DropApp
<1>8. CASE \/ RegisterDestroy \/ DestroyUnlock \/ SemaphoreDestroy \/ GroupsDestroy
           \/ DestroyEnd
  BY <1>8 DEF RegisterDestroy, DestroyUnlock, SemaphoreDestroy, GroupsDestroy, DestroyEnd,
              Unlock, policyVars
<1>9. CASE UNCHANGED vars
  BY <1>9 DEF vars, ctlVars, policyVars
<1> QED
  BY <1>1, <1>2, <1>3, <1>4, <1>5, <1>6, <1>7, <1>8, <1>9
     DEF Next, ControllerStep, Run, Destroy

(* A register is open because it was, or because it was just made.         *)
LEMMA WasOpen ==
  ASSUME Invariants, OpenWhileServing, [Next]_vars, RegistryOpen'
  PROVE  RegisterCreate \/ (RegistryOpen /\ cpc \in OpenPCs)
<1>1. TypeOK' /\ ClosedInv'
  BY ClosedNext, TypeNext DEF Invariants
<1>2. cpc' \in OpenPCs
  BY <1>1 DEF TypeOK, ClosedInv, RegistryOpen, ControllerRuns, ControllerPCs, Ended, Serving,
              OpenPCs, OpeningPCs, ClosingPCs
<1> QED
  BY <1>2, ControllerWay DEF Invariants, OpenWhileServing

(* How detached_apps changes while its register exists.                    *)
LEMMA AnnouncementsNext ==
  ASSUME Invariants, OpenWhileServing, [Next]_vars, RegistryOpen'
  PROVE  \/ reg'[ctl'].detachedApps = <<>>
         \/ RegistryOpen /\ ctl' = ctl /\ reg'[ctl].detachedApps = reg[ctl].detachedApps
         \/ \E p \in Pids :
              /\ DetachWrite(p) /\ home[p] = ctl /\ RegistryOpen /\ ctl' = ctl
              /\ reg'[ctl].detachedApps = Append(reg[ctl].detachedApps, p)
<1>1. CASE RegisterCreate
  <2>1. ctl \in Controllers /\ ctl' = ctl /\ reg' = [reg EXCEPT ![ctl] = [NoRegister EXCEPT !.exists = TRUE]]
    BY <1>1, ListType DEF RegisterCreate, ControllerGoto, ControllerRuns, Ended, Invariants
  <2> QED
    BY <2>1 DEF NoRegister, Invariants, TypeOK
<1>2. CASE ~RegisterCreate
  <2>1. RegistryOpen /\ ctl' = ctl /\ ctl \in Controllers /\ reg[ctl] \in Registers
    BY <1>2, WasOpen, OpenStays, ListType DEF Invariants, RegistryOpen, TypeOK
  <2>2. ASSUME UNCHANGED reg
        PROVE  reg'[ctl].detachedApps = reg[ctl].detachedApps
    BY <2>2
  <2>3. CASE Environment
    <3>1. ASSUME NEW p \in Pids,
                 \/ Spawn(p) \/ Crash(p) \/ Reap(p) \/ AttachCreate(p) \/ AttachRefused(p)
                 \/ DetachBegin(p) \/ \E k \in Cores : AssignCore(p, k)
          PROVE  UNCHANGED reg
      BY <3>1 DEF Spawn, Crash, Reap, AttachCreate, CreateData, AttachRefused, DetachBegin,
                  AssignCore, ipcVars
    <3>2. ASSUME ControllerCrash \/ DestroyBegin \/ \E c \in Controllers : Start(c)
          PROVE  UNCHANGED reg
      BY <3>2 DEF ControllerCrash, DestroyBegin, Lock, Start, ipcVars
    <3> QED
      BY <2>1, <2>2, <2>3, <3>1, <3>2 DEF Environment
  <2>4. ASSUME NEW p \in Pids, AppStep(p)
        PROVE  \/ reg'[ctl].detachedApps = reg[ctl].detachedApps
               \/ /\ DetachWrite(p) /\ home[p] = ctl
                  /\ reg'[ctl].detachedApps = Append(reg[ctl].detachedApps, p)
    <3>1. CASE AttachWrite(p)
      BY <2>1, <3>1, WriterExcludes DEF AttachWrite, Invariants, TypeOK, Registers
    <3>2. CASE DetachWrite(p)
      BY <2>1, <3>2, WriterExcludes DEF DetachWrite, Invariants, TypeOK, Registers
    <3>3. CASE ~AttachWrite(p) /\ ~DetachWrite(p)
      BY <2>2, <2>4, <3>3
         DEF AppStep, AttachSem, AttachWait, AttachCheck, AttachPost, DetachSem, DetachWait,
             DetachCheck, DetachPost, DetachData, GetRegisterSem, WaitRegister, PostRegister
    <3> QED
      BY <3>1, <3>2, <3>3
  <2>5. CASE Boot /\ ~RegisterCreate
    BY <2>1, <2>2, <2>5 DEF Boot, SemaphoreCreate, SemaphoreInit, BootLock, BootUnlock,
                            SetupGroups, Lock, Unlock
  <2>6. CASE Run
    <3>1. CASE DetachedAppsDone
      BY <2>1, <3>1 DEF DetachedAppsDone, HelperReturns, Invariants, TypeOK, Registers
    <3>2. CASE NewAppsDone
      BY <2>1, <3>2 DEF NewAppsDone, HelperReturns, Invariants, TypeOK, Registers
    <3>3. CASE ~DetachedAppsDone /\ ~NewAppsDone
      BY <2>1, <2>2, <2>6, <3>3
         DEF Run, RunBegin, DeregisterDeadApp, DeadAppsDone, DeregisterDetachedApp,
             RegisterNewApp, RunEnd, HelperReturns, Lock, Unlock
    <3> QED
      BY <2>1, <3>1, <3>2, <3>3
  <2>7. CASE Destroy
    <3>1. CASE RegisterDestroy
      BY <2>1, <3>1 DEF RegisterDestroy, NoRegister, Invariants, TypeOK
    <3>2. CASE ~RegisterDestroy
      BY <2>1, <2>2, <2>7, <3>2 DEF Destroy, DestroyUnlock, SemaphoreDestroy, GroupsDestroy,
                                    DropApp, DestroyEnd, Unlock, ipcVars
    <3> QED
      BY <3>1, <3>2
  <2>8. CASE UNCHANGED vars
    BY <2>1, <2>2, <2>8 DEF vars, ipcVars
  <2> QED
    BY <1>2, <2>1, <2>3, <2>4, <2>5, <2>6, <2>7, <2>8 DEF Next, ControllerStep
<1> QED
  BY <1>1, <1>2

(* Who announces that it leaves is known, and has not done so before.      *)
LEMMA NewAnnouncement ==
  ASSUME Alone, Invariants, AloneInv, NEW p \in Pids, DetachWrite(p), RegistryOpen
  PROVE  p \in Known \ Leaving
<1>1. pc[p] \in MemberPCs /\ home[p] \in Controllers /\ ctl \in Controllers
  BY ListType DEF DetachWrite, At, MemberPCs, Invariants, TypeOK, RegistryOpen
<1>2. home[p] = ctl
  BY <1>1 DEF Alone
<1>3. cpc \in OpenPCs
  BY DEF Invariants, ClosedInv, TypeOK, RegistryOpen, ControllerRuns, ControllerPCs, Ended, Serving,
         OpenPCs, OpeningPCs, ClosingPCs
<1>4. cpc # "bootUnlock"
  BY <1>1 DEF AloneInv, NobodyBefore
<1> QED
  BY <1>1, <1>2, <1>3, <1>4 DEF AloneInv, MembersKnown, NotYetLeaving

LEMMA LeftOnceNext ==
  ASSUME Alone, Invariants, AloneInv, [Next]_vars
  PROVE  LeftOnce'
<1> SUFFICES ASSUME RegistryOpen'
             PROVE  LeftOnce'
  BY DEF LeftOnce
<1>1. CASE reg'[ctl'].detachedApps = <<>>
  BY <1>1 DEF LeftOnce
<1>2. CASE RegistryOpen /\ ctl' = ctl /\ reg'[ctl].detachedApps = reg[ctl].detachedApps
  BY <1>2 DEF AloneInv, LeftOnce
<1>3. ASSUME NEW p \in Pids, DetachWrite(p), home[p] = ctl, RegistryOpen, ctl' = ctl,
             reg'[ctl].detachedApps = Append(reg[ctl].detachedApps, p)
      PROVE  LeftOnce'
  <2> DEFINE s == reg[ctl].detachedApps
  <2>1. p \notin Leaving
    BY <1>3, NewAnnouncement
  <2>2. cpc # "run"
    BY <1>3, WriterExcludes DEF ControllerLockedPCs
  <2>3. Leaving = {s[i] : i \in DOMAIN s}
    BY <1>3, <2>2, OutsideRun DEF Leaving
  <2>4. s \in Seq(Pids)
    BY <1>3, ListType DEF Invariants, RegistryOpen, TypeOK, Registers
  <2>5. /\ DOMAIN s = 1 .. Len(s) /\ Len(s) \in Nat /\ DOMAIN Append(s, p) = 1 .. Len(s) + 1
        /\ \A i \in 1 .. Len(s) : Append(s, p)[i] = s[i]
        /\ Append(s, p)[Len(s) + 1] = p
    BY <2>4
  <2>6. \A i, j \in DOMAIN s : s[i] = s[j] => i = j
    BY <1>3 DEF AloneInv, LeftOnce
  <2>7. \A i, j \in 1 .. Len(s) + 1 : Append(s, p)[i] = Append(s, p)[j] => i = j
    <3> HIDE DEF s
    <3> QED
      BY <2>1, <2>3, <2>5, <2>6
  <2> QED
    BY <1>3, <2>5, <2>7 DEF LeftOnce
<1> QED
  BY <1>1, <1>2, <1>3, AnnouncementsNext DEF AloneInv, AttachInv

(* The announcement that was processed is not met again.                   *)
LEMMA AnnouncementGone ==
  ASSUME Invariants, LeftOnce, DeregisterDetachedApp, RegistryOpen
  PROVE  reg[ctl].detachedApps[loop.i + 1] \notin Leaving'
<1> DEFINE s == reg[ctl].detachedApps
           p == s[loop.i + 1]
<1>1. /\ UNCHANGED <<reg, ctl>> /\ cpc = "run" /\ Phase = "deregisterDetachedApps"
      /\ loop.i < Len(s) /\ s \in Seq(Pids) /\ loop.i \in Nat
  BY Views DEF DeregisterDetachedApp
<1>2. CASE p \notin registered
  BY <1>2 DEF DeregisterDetachedApp, ControllerEnds, Leaving, RegistryOpen, ControllerRuns, Ended
<1>3. CASE p \in registered
  <2>1. cpc' = cpc /\ loop' = [loop EXCEPT !.i = @ + 1]
    BY <1>3 DEF DeregisterDetachedApp
  <2>2. loop'.phase = loop.phase /\ loop'.i = loop.i + 1
    BY <2>1 DEF Invariants, TypeOK
  <2>3. Phase' = Phase
    BY <2>2 DEF Phase
  <2>4. DetachedApps' = SubSeq(s, loop.i + 2, Len(s))
    <3>1. loop'.i + 1 = loop.i + 2
      BY <1>1, <2>2
    <3> QED
      BY <1>1, <2>1, <2>3, <3>1 DEF DetachedApps
  <2>5. Leaving' \subseteq {s[i] : i \in loop.i + 2 .. Len(s)}
    <3> DEFINE n == loop.i + 2
               t == SubSeq(s, n, Len(s))
    <3>1. n \in Nat \ {0} /\ Len(s) \in Nat
      BY <1>1
    <3> HIDE DEF n, s
    <3>2. s \in Seq(Pids)
      BY <1>1 DEF s
    <3>3. \A i \in DOMAIN t : n + i - 1 \in n .. Len(s) /\ t[i] = s[n + i - 1]
      BY <3>1, <3>2
    <3>4. {t[i] : i \in DOMAIN t} \subseteq {s[i] : i \in n .. Len(s)}
      BY <3>3
    <3> QED
      BY <2>4, <3>4 DEF Leaving, n
  <2>6. \A i \in loop.i + 2 .. Len(s) : s[i] # p
    <3>1. \A i, j \in DOMAIN s : s[i] = s[j] => i = j
      BY DEF LeftOnce
    <3>2. DOMAIN s = 1 .. Len(s)
      BY <1>1
    <3> HIDE DEF s
    <3> QED
      BY <1>1, <3>1, <3>2 DEF s
  <2> HIDE DEF s, p
  <2> QED
    BY <2>5, <2>6 DEF p, s
<1> QED
  BY <1>2, <1>3

LEMMA LeavingKnownNext ==
  ASSUME Alone, DetachedLater, Invariants, AloneInv, [Next]_vars
  PROVE  LeavingKnown'
<1> SUFFICES ASSUME NEW p \in Leaving'
             PROVE  p \in Known'
  BY DEF LeavingKnown
<1>1. RegistryOpen'
  BY DEF Leaving
<1>2. CASE Quiet
  <2>1. p \in Leaving /\ p \in Known
    BY <1>2, QueueType, QuietKnown DEF AloneInv, LeavingKnown
  <2>2. SUFFICES ASSUME p \notin Known'
                 PROVE  FALSE
    OBVIOUS
  <2>3. RegistryOpen /\ p \in registered /\ p \notin registered'
    BY <1>1, <1>2, <2>1, <2>2, QueueType, QuietKnown DEF Known, Members
  <2>4. CASE DeregisterDeadApp(p)
    <3>1. /\ cpc = "run" /\ loop.phase \in DOMAIN RunOrder
          /\ RunOrder[loop.phase] = "deregisterDeadApps" /\ Phase = "deregisterDeadApps"
      BY <2>4 DEF DeregisterDeadApp, Phase
    <3>2. reg[ctl].detachedApps = <<>>
      BY <3>1 DEF DetachedLater, AloneInv, AttachInv, ListsEmptied
    <3>3. Leaving = {}
      BY <3>1, <3>2 DEF DetachedApps, Leaving
    <3> QED
      BY <2>1, <3>3
  <2>5. CASE DeregisterDetachedApp /\ p = reg[ctl].detachedApps[loop.i + 1]
    BY <2>3, <2>5, AnnouncementGone DEF AloneInv
  <2>6. CASE cpc \in {"dropApps"} \cup Ended
    BY <2>3, <2>6 DEF Invariants, ClosedInv, ClosingPCs, RegistryOpen, ControllerRuns
  <2> QED
    BY <2>3, <2>4, <2>5, <2>6, Leavers
<1>3. ASSUME NEW q \in Pids, Known' = Known \cup {q}, Leaving' = Leaving
      PROVE  p \in Known'
  BY <1>3 DEF AloneInv, LeavingKnown
<1>4. ASSUME NEW q \in Pids, DetachWrite(q), Known' = Known, RegistryOpen' = RegistryOpen,
             Leaving' \subseteq Leaving \cup {q}
      PROVE  p \in Known'
  BY <1>1, <1>4, NewAnnouncement DEF AloneInv, LeavingKnown
<1> QED
  BY <1>2, <1>3, <1>4, StepKnown

LEMMA NotYetLeavingNext ==
  ASSUME Invariants, AloneInv, [Next]_vars
  PROVE  NotYetLeaving'
<1> SUFFICES ASSUME NEW p \in Known', pc'[p] \in MemberPCs, p \in Leaving'
             PROVE  FALSE
  BY DEF NotYetLeaving
<1>1. p \in Leaving => p \in Known
  BY DEF AloneInv, LeavingKnown
<1>2. p \in Known => p \notin Leaving
  BY QueueType, AttachingUnknown, Moves DEF AloneInv, NotYetLeaving, Invariants
<1>3. CASE Quiet
  BY <1>1, <1>2, <1>3, QueueType, QuietKnown
<1>4. CASE Leaving' = Leaving
  BY <1>1, <1>2, <1>4
<1>5. ASSUME NEW q \in Pids, pc'[q] = "detachPost", Leaving' \subseteq Leaving \cup {q}
      PROVE  FALSE
  BY <1>1, <1>2, <1>5 DEF MemberPCs, AttachedPCs
<1> QED
  BY <1>3, <1>4, <1>5, StepKnown

LEMMA NobodyBeforeNext ==
  ASSUME Alone, Invariants, AloneInv, [Next]_vars
  PROVE  NobodyBefore'
<1> SUFFICES ASSUME cpc' \in OpeningPCs \cup {"bootUnlock"}, NEW p \in Pids,
                    pc'[p] \in MemberPCs
             PROVE  FALSE
  BY DEF NobodyBefore
<1>0. pc[p] \in MemberPCs \cup {"attachWrite"} => home[p] \in Controllers
  BY DEF Invariants, TypeOK, MemberPCs, AttachedPCs
<1>1. CASE \E c \in Controllers : Start(c)
  <2>1. PICK c \in Controllers : Start(c)
    BY <1>1
  <2>2. c \notin started /\ home' = home /\ pc' = pc
    BY <2>1 DEF Start, appVars
  <2>3. home[p] = c
    BY <1>0, <2>2 DEF Alone
  <2> QED
    BY <2>2, <2>3, PidsAssumption DEF Invariants, MapInv, HomesStarted, Procs
<1>2. CASE AttachWrite(p)
  <2>1. UNCHANGED <<cpc, ctl>>
    BY <1>2 DEF AttachWrite, ctlVars
  <2>2. ctl \in Controllers
    BY <2>1, ListType DEF Invariants, OpeningPCs, ControllerRuns, Ended
  <2>3. home[p] = ctl
    BY <1>0, <1>2, <2>2 DEF Alone, AttachWrite, At
  <2>4. reg[ctl].exists /\ cpc \notin ControllerLockedPCs
    BY <1>2, <2>3, WriterExcludes
  <2> QED
    BY <2>1, <2>4 DEF Invariants, ClosedInv, ControllerLockedPCs
<1>3. CASE ~AttachWrite(p) /\ ~\E c \in Controllers : Start(c)
  <2>1. pc[p] \in MemberPCs
    BY <1>3, Moves DEF Invariants
  <2>2. cpc \in OpeningPCs \cup {"bootUnlock"}
    BY <1>3, ControllerWay DEF Invariants
  <2> QED
    BY <2>1, <2>2 DEF AloneInv, NobodyBefore
<1> QED
  BY <1>1, <1>2, <1>3

LEMMA MembersKnownNext ==
  ASSUME Alone, Invariants, AloneInv, [Next]_vars
  PROVE  MembersKnown'
<1> SUFFICES ASSUME cpc' \in OpenPCs \ {"bootUnlock"}, NEW p \in Pids,
                    pc'[p] \in MemberPCs, home'[p] = ctl'
             PROVE  p \in Known'
  BY DEF MembersKnown
<1>1. RegistryOpen' /\ ctl' = ctl
  BY OpenNext, OpenStays DEF AloneInv, AttachInv, OpenWhileServing, Invariants
<1>2. cpc \in OpenPCs /\ ControllerRuns /\ ctl \in Controllers
  BY ControllerWay, ListType DEF Invariants, OpenPCs, ControllerRuns, Ended
<1>3. CASE AttachWrite(p)
  <2>1. home[p] = ctl
    BY <1>1, <1>3 DEF AttachWrite
  <2>2. \A q \in Pids : (AttachWrite(q) => q = p) /\ ~DetachWrite(q)
    BY <1>3, StepOfOne
  <2>3. PICK q \in Pids : AttachWrite(q) /\ Known' = Known \cup {q}
    BY <1>2, <1>3, <2>1, <2>2, StepKnown
  <2> QED
    BY <2>2, <2>3
<1>4. CASE ~AttachWrite(p)
  <2>1. pc[p] \in MemberPCs
    BY <1>4, Moves DEF Invariants
  <2>2. home[p] = ctl
    BY <1>2, <2>1 DEF Alone, Invariants, TypeOK, MemberPCs, AttachedPCs
  <2>3. p \in Known
    BY <1>2, <2>1, <2>2 DEF AloneInv, NobodyBefore, MembersKnown
  <2>4. p \notin Leaving
    BY <2>1, <2>3 DEF AloneInv, NotYetLeaving
  <2>5. p \in Present
    BY <2>1 DEF Invariants, TypeOK, Present, MemberPCs, AttachedPCs
  <2> QED
    BY <1>1, <2>3, <2>4, <2>5, StepKnown, QuietKnown, QueueType
<1> QED
  BY <1>3, <1>4

LEMMA AloneInit == Init => AloneInv
<1> SUFFICES ASSUME Init
             PROVE  AloneInv
  OBVIOUS
<1>1. ~RegistryOpen
  BY DEF Init, RegistryOpen, ControllerRuns, Ended
<1>2. Leaving = {} /\ cpc = "off"
  BY <1>1 DEF Leaving, Init
<1> QED
  BY <1>1, <1>2, AttachInit
     DEF AloneInv, NobodyBefore, NotYetLeaving, MembersKnown, LeavingKnown, LeftOnce, OpenPCs,
         OpeningPCs

LEMMA AloneNext ==
  ASSUME Alone, DetachedLater
  PROVE  Invariants /\ AloneInv /\ [Next]_vars => AloneInv'
<1> SUFFICES ASSUME Invariants, AloneInv, [Next]_vars
             PROVE  AloneInv'
  OBVIOUS
<1>1. AttachInv
  BY DEF AloneInv
<1>2. NotYetLeaving'
  BY NotYetLeavingNext
<1>3. NoneLeaving'
  BY <1>2 DEF NotYetLeaving, NoneLeaving, Known
<1>4. AttachInv'
  BY <1>1, <1>3, OpenNext, NobodyNext, EmptiedNext, HomeNowNext, AttachedKnownNext
     DEF Invariants, AttachInv
<1> QED
  BY <1>2, <1>4, NobodyBeforeNext, MembersKnownNext, LeavingKnownNext, LeftOnceNext DEF AloneInv

LEMMA AloneInvariant ==
  ASSUME Alone, DetachedLater, Uninterrupted
  PROVE  Spec => []AloneInv
BY AloneInit, AloneNext, InvariantsHold, PTL DEF Spec

-----------------------------------------------------------------------------
(* What follows.                                                           *)

(* run() looks for those that leave first, or last with one controller.    *)
InGoodOrder == DetachedFirst \/ (Alone /\ DetachedLater)

LEMMA AttachInvariant ==
  ASSUME InGoodOrder, Uninterrupted
  PROVE  Spec => []AttachInv
<1>1. CASE DetachedFirst
  BY <1>1, AttachInit, AttachNext, InvariantsHold, PTL DEF Spec
<1>2. CASE Alone /\ DetachedLater
  <2>1. Spec => []AloneInv
    BY <1>2, AloneInvariant
  <2>2. AloneInv => AttachInv
    BY DEF AloneInv
  <2> QED
    BY <2>1, <2>2, PTL
<1> QED
  BY <1>1, <1>2 DEF InGoodOrder

(* With a single controller that calls registerNewApps before              *)
(* deregisterDetachedApps and that before deregisterDeadApps, the pid that *)
(* deregisterDetachedApps looks up without a test is in the map: an entry  *)
(* of detached_apps is from an application that is known (LeavingKnown),   *)
(* and nobody waits in new_apps when the helper runs.                      *)
THEOREM DetachedFound ==
  ASSUME Alone, DetachedLater, Uninterrupted
  PROVE  Spec => []DetachedAreRegistered
<1>1. Invariants /\ AloneInv => DetachedAreRegistered
  <2> SUFFICES ASSUME Invariants, AloneInv, cpc = "run", Phase = "deregisterDetachedApps",
                      loop.i < Len(reg[ctl].detachedApps)
               PROVE  reg[ctl].detachedApps[loop.i + 1] \in registered
    BY DEF DetachedAreRegistered
  <2> DEFINE p == reg[ctl].detachedApps[loop.i + 1]
  <2>1. RegistryOpen
    BY DEF AloneInv, AttachInv, OpenWhileServing, OpenPCs
  <2>2. p \in Leaving
    <3>1. /\ DetachedApps \in Seq(Pids) /\ DetachedApps # <<>> /\ Head(DetachedApps) = p
      BY Views, RestOfList
    <3>2. 1 \in DOMAIN DetachedApps /\ DetachedApps[1] = p
      BY <3>1
    <3> QED
      BY <2>1, <3>2 DEF Leaving
  <2>3. p \in Known
    BY <2>2 DEF AloneInv, LeavingKnown
  <2>4. loop.phase \in DOMAIN RunOrder /\ RunOrder[loop.phase] = "deregisterDetachedApps"
    BY DEF Phase
  <2>5. reg[ctl].newApps = <<>>
    BY <2>4 DEF DetachedLater, AloneInv, AttachInv, ListsEmptied
  <2>6. Queue = <<>>
    BY <2>1, <2>5 DEF Queue, NewApps
  <2> QED
    BY <2>1, <2>3, <2>6 DEF Known, Members
<1> QED
  BY <1>1, AloneInvariant, InvariantsHold, PTL

(* An application whose registerAttach has written its entry is in the map *)
(* or in new_apps as long as its controller serves.                        *)
THEOREM AttachNotLost ==
  ASSUME InGoodOrder, Uninterrupted
  PROVE  Spec => []NoLostAttach
<1>1. Invariants /\ AttachInv => NoLostAttach
  <2> SUFFICES ASSUME Invariants, AttachInv, NEW p \in Pids,
                      pc[p] \in AttachedPCs, home[p] = ctl, cpc \in Serving
               PROVE  p \in Pending \cup registered
    BY DEF NoLostAttach, AttachedPCs
  <2>1. cpc \in OpenPCs \ {"bootUnlock"}
    BY DEF Serving, OpenPCs
  <2>2. p \in Known /\ RegistryOpen
    BY <2>1 DEF AttachInv, AttachedKnown, OpenWhileServing
  <2> QED
    BY <2>2, QueueType DEF Known
<1> QED
  BY <1>1, AttachInvariant, InvariantsHold, PTL

(* Who is killed: only an entry of detached_apps is, outside of the        *)
(* destructor.                                                             *)
LEMMA KilledAnnounced ==
  ASSUME Invariants, [Next]_vars, NEW p \in killed' \ killed, cpc # "dropApps"
  PROVE  DeregisterDetachedApp /\ p = reg[ctl].detachedApps[loop.i + 1] /\ p \in registered
<1>1. ASSUME NEW S, NEW g, AppsDestroyed(S, g)
      PROVE  p \in S /\ isAppRunning(p)
  BY <1>1 DEF AppsDestroyed
<1>2. ASSUME NEW q \in Pids, AppStep(q)
      PROVE  FALSE
  BY <1>2 DEF AppStep, AttachSem, AttachWait, AttachCheck, AttachWrite, AttachPost, DetachSem,
         DetachWait, DetachCheck, DetachWrite, DetachPost, DetachData, GetRegisterSem,
         WaitRegister, PostRegister, Dies, Continues, osVars
<1>3. CASE Environment
  <2>1. ASSUME NEW q \in Pids,
               \/ Spawn(q) \/ Crash(q) \/ Reap(q) \/ AttachCreate(q) \/ AttachRefused(q)
               \/ DetachBegin(q) \/ \E k \in Cores : AssignCore(q, k)
        PROVE  FALSE
    BY <2>1 DEF Spawn, Crash, Reap, AttachCreate, CreateData, AttachRefused, DetachBegin,
                AssignCore, Dies, osVars
  <2>2. CASE ControllerCrash \/ DestroyBegin \/ \E c \in Controllers : Start(c)
    BY <2>2 DEF ControllerCrash, DestroyBegin, Lock, Start, osVars
  <2> QED
    BY <1>3, <2>1, <2>2 DEF Environment
<1>4. CASE Boot
  BY <1>4 DEF Boot, SemaphoreCreate, SemaphoreInit, BootLock, RegisterCreate, BootUnlock,
              SetupGroups, Lock, Unlock, osVars
<1>5. CASE Destroy
  BY <1>5 DEF Destroy, RegisterDestroy, DestroyUnlock, SemaphoreDestroy, GroupsDestroy,
              DropApp, DestroyEnd, Unlock, osVars
<1>6. CASE RunBegin \/ RunEnd \/ DeadAppsDone \/ DetachedAppsDone \/ NewAppsDone
  BY <1>6 DEF RunBegin, RunEnd, DeadAppsDone, DetachedAppsDone, NewAppsDone, HelperReturns,
              Lock, Unlock, osVars
<1>7. ASSUME NEW q \in Pids, DeregisterDeadApp(q)
      PROVE  FALSE
  BY <1>1, <1>7 DEF DeregisterDeadApp, Deregister, osVars
<1>8. CASE RegisterNewApp
  <2> DEFINE q == reg[ctl].newApps[loop.i + 1]
  <2>1. q \notin registered
    BY <1>8, EntryRegistered DEF Invariants
  <2>2. p \in {q} \cap registered
    BY <1>1, <1>8 DEF RegisterNewApp
  <2> QED
    BY <2>1, <2>2
<1>9. CASE DeregisterDetachedApp
  BY <1>1, <1>9 DEF DeregisterDetachedApp, Deregister, osVars
<1>10. CASE UNCHANGED vars
  BY <1>10 DEF vars, osVars
<1> QED
  BY <1>2, <1>3, <1>4, <1>5, <1>6, <1>7, <1>8, <1>9, <1>10 DEF Next, ControllerStep, Run

(* Outside of the destructor killApp reaches no application that is        *)
(* attached, or on its way to be or to announce that it leaves.            *)
THEOREM KillsOnlyDetached ==
  ASSUME InGoodOrder, Uninterrupted
  PROVE  Spec => KillOnlyDetached
<1> DEFINE Kills == \A p \in killed' \ killed : cpc = "dropApps" \/ pc[p] \in {"idle", "detachData"}
<1>1. Invariants /\ AttachInv /\ [Next]_vars => Kills
  <2> SUFFICES ASSUME Invariants, AttachInv, [Next]_vars, NEW p \in killed' \ killed,
                      cpc # "dropApps"
               PROVE  pc[p] \in {"idle", "detachData"}
    OBVIOUS
  <2>1. /\ DeregisterDetachedApp /\ p = reg[ctl].detachedApps[loop.i + 1]
        /\ p \in registered /\ cpc = "run" /\ Phase = "deregisterDetachedApps"
        /\ loop.i < Len(reg[ctl].detachedApps)
    BY KilledAnnounced DEF DeregisterDetachedApp
  <2>2. p \in Pids /\ pc[p] \in AppPCs /\ RegistryOpen
    BY <2>1 DEF Invariants, TypeOK, AttachInv, OpenWhileServing, OpenPCs
  <2>3. p \in Members /\ p \in Known
    BY <2>1, <2>2 DEF Members, Known
  <2>4. p \in Leaving
    <3> DEFINE s == reg[ctl].detachedApps
    <3>1. /\ DetachedApps \in Seq(Pids) /\ DetachedApps # <<>> /\ Head(DetachedApps) = p
      BY <2>1, Views, RestOfList
    <3>2. 1 \in DOMAIN DetachedApps /\ DetachedApps[1] = p
      BY <3>1
    <3> QED
      BY <2>2, <3>2 DEF Leaving
  <2>5. pc[p] \notin MemberPCs
    BY <2>3, <2>4 DEF AttachInv, NoneLeaving
  <2>6. pc[p] \notin AttachingPCs
    BY <2>1, <2>2 DEF Invariants, MapInv, AttachingNew, RegistryOpen
  <2>7. pc[p] # "detachPost"
    <3> SUFFICES ASSUME pc[p] = "detachPost"
                 PROVE  FALSE
      OBVIOUS
    <3>1. home[p] = ctl /\ proc[p] = "running" /\ ctl \in Controllers
      BY <2>2, <2>3 DEF AttachInv, HomeNow, Invariants, TypeOK
    <3>2. ctl \in Procs /\ ctl \notin Pids /\ p \in Procs
      BY <2>2, <3>1, PidsAssumption DEF Procs
    <3>3. Accessing(p, ctl) /\ Accessing(ctl, ctl)
      BY <2>1, <2>2, <3>1, <3>2 DEF Accessing, Locked, AppLocked, ControllerLocked, LockedPCs,
                                    CheckPCs, ControllerLockedPCs
    <3> QED
      BY <3>1, <3>2, <3>3, LockInvExclusion, <2>2 DEF Invariants, MutualExclusion
  <2> QED
    BY <2>2, <2>5, <2>6, <2>7 DEF AppPCs, MemberPCs, AttachedPCs, AttachingPCs
<1>2. Invariants /\ AttachInv /\ [Next]_vars => [Kills]_vars
  BY <1>1
<1> QED
  BY <1>2, AttachInvariant, InvariantsHold, PTL DEF Spec, KillOnlyDetached

-----------------------------------------------------------------------------
(***************************************************************************)
(* Policy::~Policy, when it runs to its end, leaves nothing behind, for    *)
(* every number of applications and controllers in turn, if run() calls    *)
(* its helpers in a good order and no signal interrupts a wait.            *)
(*                                                                         *)
(* The segments and semaphores are removed for good because processes keep *)
(* calling semop and looking for the segment, but only a controller makes  *)
(* one of either.  That every application that is still attached is killed *)
(* rests on NoLostAttach: registerDestroy gets past its loop only with     *)
(* new_apps empty, so that whoever is attached then is in the map, whose   *)
(* destructor kills it, and nobody attaches afterwards.                    *)
(***************************************************************************)

ClosedPCs == ClosingPCs \cup {"done"}

RegisterGone == cpc \in ClosedPCs => ctl \in Controllers /\ ~reg[ctl].exists

SemaphoreGone == cpc \in {"groupsDestroy", "dropApps", "done"} => ~sem[ctl].exists

(* Who is still attached is in the map, or has been killed.                *)
AttachedAccounted ==
  cpc \in ClosedPCs =>
    \A p \in Pids :
      pc[p] \in AttachedPCs /\ home[p] = ctl =>
        p \in registered \/ (p \notin dataSeg /\ p \in killed)

MapEmpty == cpc = "done" => registered = {}

ShutdownInv == RegisterGone /\ SemaphoreGone /\ AttachedAccounted /\ MapEmpty

-----------------------------------------------------------------------------
(* A semaphore that was removed stays removed, whatever processes do.      *)
LEMMA StaysRemoved ==
  ASSUME TypeOK, NEW c \in Controllers, ~sem[c].exists, NEW x \in Procs,
         \/ sem' = sem
         \/ \E d \in Controllers : binarySemaphoreWait(x, d) \/ binarySemaphorePost(x, d)
         \/ sem' = [d \in Controllers |-> Undone(sem[d], x)]
  PROVE  ~sem'[c].exists
<1>1. sem \in [Controllers -> Semaphores(Procs)]
  BY DEF TypeOK
<1>2. ASSUME NEW d \in Controllers, binarySemaphoreWait(x, d)
      PROVE  ~sem'[c].exists
  <2>1. d = c => sem' = sem
    BY <1>2 DEF binarySemaphoreWait, CanTake
  <2> QED
    BY <1>1, <1>2, <2>1 DEF binarySemaphoreWait
<1>3. ASSUME NEW d \in Controllers, binarySemaphorePost(x, d)
      PROVE  ~sem'[c].exists
  BY <1>1, <1>3 DEF binarySemaphorePost, Given
<1>4. CASE sem' = [d \in Controllers |-> Undone(sem[d], x)]
  BY <1>1, <1>4, UndoneType
<1> QED
  BY <1>2, <1>3, <1>4

(* What a step of an application leaves alone once the destructor has      *)
(* removed the register.                                                   *)
LEMMA AppStepOutside ==
  ASSUME TypeOK, NEW p \in Pids, AppStep(p) \/ Crash(p) \/ AttachRefused(p) \/ DetachBegin(p)
  PROVE  /\ UNCHANGED <<registered, dataSeg>>
         /\ \A q \in killed \ killed' : pc'[q] = "idle"
         /\ \A c \in Controllers : ~sem[c].exists => ~sem'[c].exists
<1>1. UNCHANGED <<registered, dataSeg>>
  BY DEF AppStep, AttachSem, AttachWait, AttachCheck, AttachWrite, AttachPost, DetachSem,
         DetachWait, DetachCheck, DetachWrite, DetachPost, DetachData, GetRegisterSem,
         WaitRegister, PostRegister, Crash, AttachRefused, DetachBegin, Dies, Continues,
         ctlVars, policyVars, osVars
<1>2. UNCHANGED <<sem, killed>> \/ Dies(p) \/
        (UNCHANGED killed /\ (binarySemaphoreWait(p, home[p]) \/ binarySemaphorePost(p, home[p]))
           /\ home[p] \in Controllers)
  BY DEF AppStep, AttachSem, AttachWait, AttachCheck, AttachWrite, AttachPost, DetachSem,
         DetachWait, DetachCheck, DetachWrite, DetachPost, DetachData, GetRegisterSem,
         WaitRegister, PostRegister, Crash, AttachRefused, DetachBegin, Continues, At,
         osVars, TypeOK
<1>3. ASSUME NEW q \in killed \ killed'
      PROVE  pc'[q] = "idle"
  BY <1>2, <1>3 DEF Dies, TypeOK
<1>4. ASSUME NEW c \in Controllers, ~sem[c].exists
      PROVE  ~sem'[c].exists
  <2>1. p \in Procs
    BY DEF Procs
  <2> QED
    BY <1>2, <1>4, <2>1, StaysRemoved DEF Dies
<1> QED
  BY <1>1, <1>3, <1>4

(* Steps after which the destructor is not past registerDestroy, and those *)
(* of applications.                                                        *)
LEMMA ShutdownOthers ==
  ASSUME Invariants, AttachInv, ShutdownInv, [Next]_vars, ~Destroy
  PROVE  ShutdownInv'
<1>1. ASSUME cpc' \notin ClosedPCs
      PROVE  ShutdownInv'
  BY <1>1 DEF ShutdownInv, RegisterGone, SemaphoreGone, AttachedAccounted, MapEmpty,
              ClosedPCs, ClosingPCs
<1>2. ASSUME UNCHANGED <<ctl, cpc, registered>>,
             \A c \in Controllers : /\ reg'[c].exists = reg[c].exists
                                    /\ ~sem[c].exists => ~sem'[c].exists,
             \A q \in Pids : pc'[q] \in AttachedPCs =>
               /\ q \in killed => q \in killed'
               /\ q \in dataSeg' => q \in dataSeg
      PROVE  ShutdownInv'
  <2> SUFFICES ASSUME cpc \in ClosedPCs
               PROVE  ShutdownInv'
    BY <1>1, <1>2
  <2>1. ctl \in Controllers /\ ~reg[ctl].exists
    BY DEF ShutdownInv, RegisterGone
  <2>2. ASSUME NEW q \in Pids, pc'[q] \in AttachedPCs, home'[q] = ctl
        PROVE  pc[q] \in AttachedPCs /\ home[q] = ctl
    <3>1. CASE AttachWrite(q)
      BY <2>1, <2>2, <3>1, WriterExcludes DEF AttachWrite
    <3> QED
      BY <2>2, <3>1, Moves DEF Invariants
  <2>3. AttachedAccounted'
    BY <1>2, <2>2 DEF ShutdownInv, AttachedAccounted
  <2>4. RegisterGone' /\ SemaphoreGone' /\ MapEmpty'
    BY <1>2, <2>1 DEF ShutdownInv, RegisterGone, SemaphoreGone, MapEmpty
  <2> QED
    BY <2>3, <2>4 DEF ShutdownInv
<1>3. ASSUME NEW p \in Pids, AppStep(p) \/ Crash(p) \/ AttachRefused(p) \/ DetachBegin(p)
      PROVE  ShutdownInv'
  <2>1. UNCHANGED <<ctl, cpc>>
    BY <1>3, AppPcs DEF Invariants, Crash, AttachRefused, DetachBegin, ctlVars
  <2>2. \A c \in Controllers : reg'[c].exists = reg[c].exists
    BY <1>3, ExistsStays DEF Invariants, Crash, AttachRefused, DetachBegin
  <2> QED
    BY <1>2, <1>3, <2>1, <2>2, AppStepOutside DEF Invariants, AttachedPCs
<1>4. ASSUME NEW p \in Pids, Spawn(p) \/ Reap(p)
      PROVE  ShutdownInv'
  BY <1>2, <1>4 DEF Spawn, Reap, ipcVars, osVars, ctlVars, policyVars
<1>5. ASSUME NEW p \in Pids, AttachCreate(p)
      PROVE  ShutdownInv'
  <2>1. /\ UNCHANGED <<ctl, cpc, registered, reg, sem, killed>>
        /\ dataSeg' = dataSeg \cup {p} /\ pc'[p] = "attachSem"
    BY <1>5 DEF AttachCreate, CreateData, Goto, ctlVars, policyVars, osVars, Invariants, TypeOK
  <2> QED
    BY <1>2, <2>1 DEF AttachedPCs
<1>6. CASE \/ ControllerCrash \/ DestroyBegin \/ \E c \in Controllers : Start(c)
           \/ \E p \in Pids, k \in Cores : AssignCore(p, k)
  <2>1. cpc' \notin ClosedPCs
    BY <1>6 DEF ControllerCrash, ControllerEnds, DestroyBegin, Lock, ControllerGoto, Start,
                AssignCore, ClosedPCs, ClosingPCs
  <2> QED
    BY <1>1, <2>1
<1>7. CASE Boot \/ Run
  <2>1. cpc' \notin ClosedPCs
    BY <1>7 DEF Boot, SemaphoreCreate, SemaphoreInit, BootLock, RegisterCreate, BootUnlock,
                SetupGroups, Run, RunBegin, RunEnd, DeregisterDeadApp, DeadAppsDone,
                DeregisterDetachedApp, DetachedAppsDone, RegisterNewApp, NewAppsDone,
                HelperReturns, Lock, Unlock, ControllerGoto, ControllerEnds, ClosedPCs, ClosingPCs
  <2> QED
    BY <1>1, <2>1
<1>8. CASE UNCHANGED vars
  BY <1>2, <1>8 DEF vars, appVars, ipcVars, osVars, ctlVars, policyVars
<1> QED
  BY <1>3, <1>4, <1>5, <1>6, <1>7, <1>8 DEF Next, Environment, ControllerStep

(* The destructor, step by step.                                           *)
LEMMA ShutdownDestroy ==
  ASSUME Invariants, AttachInv, ShutdownInv, Destroy
  PROVE  ShutdownInv'
<1>0. UNCHANGED <<pc, home, ctl>>
  BY DEF Destroy, RegisterDestroy, DestroyUnlock, SemaphoreDestroy, GroupsDestroy, DropApp,
         DestroyEnd, Unlock, appVars
<1>1. ctl \in Controllers /\ ctl \in Procs
  <2>1. ControllerRuns
    BY DEF Destroy, RegisterDestroy, DestroyUnlock, SemaphoreDestroy, GroupsDestroy, DropApp,
           DestroyEnd, Unlock, ControllerGoto, ControllerRuns, Ended
  <2> QED
    BY <2>1, ListType DEF Invariants, Procs
<1>2. CASE RegisterDestroy
  <2>1. CASE cpc' = "crashed"
    BY <2>1 DEF ShutdownInv, RegisterGone, SemaphoreGone, AttachedAccounted, MapEmpty,
                ClosedPCs, ClosingPCs
  <2>2. CASE cpc' # "crashed"
    <3>1. /\ cpc = "destroy" /\ cpc' = "destroyUnlock" /\ reg[ctl].newApps = <<>>
          /\ reg' = [reg EXCEPT ![ctl] = NoRegister] /\ UNCHANGED registered
      BY <1>2, <2>2 DEF RegisterDestroy, ControllerEnds, policyVars
    <3>2. ~reg'[ctl].exists
      BY <1>1, <3>1 DEF NoRegister, Invariants, TypeOK
    <3>3. RegistryOpen /\ Queue = <<>> /\ Members = registered
      BY <3>1, OutsideRun DEF AttachInv, OpenWhileServing, OpenPCs, Queue, Members
    <3>4. \A p \in Pids : pc[p] \in AttachedPCs /\ home[p] = ctl => p \in registered
      BY <3>1, <3>3 DEF AttachInv, AttachedKnown, OpenPCs, Known
    <3> QED
      BY <1>0, <1>1, <3>1, <3>2, <3>4
         DEF ShutdownInv, RegisterGone, SemaphoreGone, AttachedAccounted, MapEmpty
  <2> QED
    BY <2>1, <2>2
<1>3. CASE DestroyUnlock \/ SemaphoreDestroy \/ GroupsDestroy
  <2>1. /\ cpc \in ClosedPCs /\ UNCHANGED <<reg, registered, dataSeg, killed>>
        /\ \/ cpc' = "semDestroy"
           \/ cpc' = "groupsDestroy" /\ sem' = [sem EXCEPT ![ctl] = NoSem(Procs)]
           \/ cpc = "groupsDestroy" /\ cpc' = "dropApps" /\ UNCHANGED sem
    BY <1>3 DEF DestroyUnlock, Unlock, SemaphoreDestroy, GroupsDestroy, ControllerGoto, ipcVars,
                osVars, policyVars, ClosedPCs, ClosingPCs
  <2>2. cpc' = "groupsDestroy" => ~sem'[ctl].exists
    BY <1>1, <2>1 DEF NoSem, Invariants, TypeOK
  <2>3. RegisterGone' /\ AttachedAccounted' /\ MapEmpty'
    BY <1>0, <2>1 DEF ShutdownInv, RegisterGone, AttachedAccounted, MapEmpty
  <2>4. SemaphoreGone'
    BY <1>0, <2>1, <2>2 DEF ShutdownInv, SemaphoreGone
  <2> QED
    BY <2>3, <2>4 DEF ShutdownInv
<1>4. ASSUME NEW p \in Pids, DropApp(p)
      PROVE  ShutdownInv'
  <2>1. /\ cpc = "dropApps" /\ cpc' = "dropApps" /\ UNCHANGED <<reg, sem>>
        /\ registered' = registered \ {p} /\ AppsDestroyed({p}, cgroups)
    BY <1>4 DEF DropApp
  <2>2. /\ dataSeg' = dataSeg \ {p} /\ killed \subseteq killed'
        /\ proc[p] = "running" => p \in killed'
    BY <2>1 DEF AppsDestroyed, isAppRunning
  <2>3. AttachedAccounted'
    <3>1. pc[p] \in AttachedPCs => proc[p] = "running"
      BY DEF Invariants, TypeOK, AttachedPCs
    <3> QED
      BY <1>0, <2>1, <2>2, <3>1 DEF ShutdownInv, AttachedAccounted, ClosedPCs, ClosingPCs
  <2>4. RegisterGone' /\ SemaphoreGone' /\ MapEmpty'
    BY <1>0, <2>1, <2>2 DEF ShutdownInv, RegisterGone, SemaphoreGone, MapEmpty
  <2> QED
    BY <2>3, <2>4 DEF ShutdownInv
<1>5. CASE DestroyEnd
  <2>1. /\ cpc = "dropApps" /\ cpc' = "done" /\ registered = {}
        /\ UNCHANGED <<reg, registered, dataSeg, killed>>
        /\ sem' = [c \in Controllers |-> Undone(sem[c], ctl)]
    BY <1>5 DEF DestroyEnd, ControllerEnds, policyVars, osVars
  <2>2. ~sem'[ctl].exists
    BY <1>1, <2>1, StaysRemoved DEF ShutdownInv, SemaphoreGone, Invariants
  <2> QED
    BY <1>0, <2>1, <2>2 DEF ShutdownInv, RegisterGone, SemaphoreGone,
                            AttachedAccounted, MapEmpty, ClosedPCs, ClosingPCs
<1> QED
  BY <1>2, <1>3, <1>4, <1>5 DEF Destroy

LEMMA ShutdownInit == Init => ShutdownInv
BY DEF Init, ShutdownInv, RegisterGone, SemaphoreGone, AttachedAccounted, MapEmpty,
       ClosedPCs, ClosingPCs

LEMMA ShutdownInvariant ==
  ASSUME InGoodOrder, Uninterrupted
  PROVE  Spec => []ShutdownInv
<1>1. Invariants /\ AttachInv /\ ShutdownInv /\ [Next]_vars => ShutdownInv'
  BY ShutdownOthers, ShutdownDestroy
<1> QED
  BY <1>1, ShutdownInit, AttachInvariant, InvariantsHold, PTL DEF Spec

(* A controller that ran its destructor to the end has removed its         *)
(* register and semaphore, and the segments of whoever was still attached, *)
(* whom it has sent SIGINT.                                                *)
THEOREM ShutdownClean ==
  ASSUME InGoodOrder, Uninterrupted
  PROVE  Spec => []CleanShutdown
<1>1. ShutdownInv => CleanShutdown
  BY DEF ShutdownInv, RegisterGone, SemaphoreGone, AttachedAccounted, MapEmpty,
         CleanShutdown, ClosedPCs, AttachedPCs
<1> QED
  BY <1>1, ShutdownInvariant, PTL
=============================================================================
