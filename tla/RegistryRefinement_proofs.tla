--------------------- MODULE RegistryRefinement_proofs ---------------------
(***************************************************************************)
(* AppRegister implements Registry, for every number of applications,      *)
(* controllers and cores, every MAX_NUM_OF_APPS and every order of the     *)
(* helpers, as long as no signal interrupts a wait.                        *)
(*                                                                         *)
(* Each write of an application, each entry a helper has processed, and    *)
(* the creation and the end of the app_register are a step of the registry;*)
(* everything else stutters.  Attach needs the invariants: the lock keeps  *)
(* the helpers away from a list being written (LockInv), there is room for *)
(* the entry (QueueInv), and the pid is new (MapInv).                      *)
(***************************************************************************)
EXTENDS RegistryRefinement, AppRegisterLock_proofs, AppRegisterMap_proofs,
        SequenceTheorems

(* The app_register exists from RegisterCreate to RegisterDestroy, and a   *)
(* new controller starts with an empty map.                                *)
OpeningPCs == {"boot", "semInit", "bootLock", "create"}

ClosingPCs == {"destroyUnlock", "semDestroy", "groupsDestroy", "dropApps"}

ClosedInv ==
  /\ cpc \in OpeningPCs => registered = {}
  /\ cpc \in OpeningPCs \cup ClosingPCs => ~reg[ctl].exists

-----------------------------------------------------------------------------
(* ClosedInv.                                                              *)

(* Applications write to the lists only.                                   *)
LEMMA ExistsStays ==
  ASSUME TypeOK, NEW p \in Pids, AppStep(p)
  PROVE  /\ \A c \in Controllers : reg'[c].exists = reg[c].exists
         /\ UNCHANGED ctlVars
<1>1. CASE AttachWrite(p) \/ DetachWrite(p)
  <2>1. PICK s \in {"newApps", "detachedApps"} :
          reg' = [reg EXCEPT ![home[p]][s] = Append(@, p)]
    BY <1>1 DEF AttachWrite, DetachWrite
  <2>2. DOMAIN reg = Controllers
    BY DEF TypeOK
  <2>3. ASSUME NEW c \in Controllers
        PROVE  reg'[c].exists = reg[c].exists
    <3>1. reg[c] \in Registers
      BY DEF TypeOK
    <3>2. reg'[c] = IF c = home[p] THEN [reg[c] EXCEPT ![s] = Append(@, p)] ELSE reg[c]
      BY <2>1, <2>2
    <3> QED
      BY <3>1, <3>2 DEF Registers
  <2>4. UNCHANGED ctlVars
    BY <1>1 DEF AttachWrite, DetachWrite
  <2> QED
    BY <2>3, <2>4
<1>2. CASE ~(AttachWrite(p) \/ DetachWrite(p))
  BY <1>2 DEF AppStep, AttachSem, AttachWait, AttachCheck, AttachPost, DetachSem, DetachWait,
              DetachCheck, DetachPost, DetachData, GetRegisterSem, WaitRegister, PostRegister
<1> QED
  BY <1>1, <1>2

LEMMA ClosedInit == Init => ClosedInv
BY DEF Init, ClosedInv, OpeningPCs, ClosingPCs

LEMMA ClosedNext == TypeOK /\ LockInv /\ ClosedInv /\ [Next]_vars => ClosedInv'
<1> SUFFICES ASSUME TypeOK, LockInv, ClosedInv, [Next]_vars
             PROVE  ClosedInv'
  OBVIOUS
<1>0. ASSUME UNCHANGED <<registered, reg, ctl, cpc>>
      PROVE  ClosedInv'
  BY <1>0 DEF ClosedInv
<1>1. ASSUME NEW p \in Pids, AppStep(p)
      PROVE  ClosedInv'
  BY <1>1, ExistsStays DEF ClosedInv, ctlVars, policyVars, TypeOK, ControllerRuns, Ended,
                           OpeningPCs, ClosingPCs
<1>2. CASE Environment
  <2>1. ASSUME NEW p \in Pids,
               \/ Spawn(p) \/ Crash(p) \/ Reap(p) \/ AttachCreate(p) \/ AttachRefused(p)
               \/ DetachBegin(p) \/ \E k \in Cores : AssignCore(p, k)
        PROVE  ClosedInv'
    BY <1>0, <2>1 DEF Spawn, Crash, Reap, AttachCreate, CreateData, AttachRefused, DetachBegin,
                      AssignCore, ipcVars, ctlVars, policyVars
  <2>2. ASSUME NEW c \in Controllers, Start(c)
        PROVE  ClosedInv'
    <3>1. ~reg[c].exists
      BY <2>2 DEF Start, LockInv, BootState, NotBooted, RegisterHasSemaphore
    <3> QED
      BY <2>2, <3>1 DEF Start, ClosedInv, ipcVars
  <2>3. CASE ControllerCrash \/ DestroyBegin
    BY <2>3 DEF ControllerCrash, ControllerEnds, DestroyBegin, Lock, ControllerGoto, ClosedInv,
                OpeningPCs, ClosingPCs
  <2> QED
    BY <1>2, <2>1, <2>2, <2>3 DEF Environment
<1>3. CASE Boot
  BY <1>3 DEF Boot, SemaphoreCreate, SemaphoreInit, BootLock, RegisterCreate, BootUnlock,
              SetupGroups, Lock, Unlock, ControllerGoto, ControllerEnds, policyVars,
              ClosedInv, OpeningPCs, ClosingPCs
<1>4. CASE Run
  <2>1. cpc' \notin OpeningPCs \cup ClosingPCs
    BY <1>4 DEF Run, RunBegin, RunEnd, DeregisterDeadApp, DeadAppsDone, DeregisterDetachedApp,
                DetachedAppsDone, RegisterNewApp, NewAppsDone, HelperReturns, Lock, Unlock,
                ControllerGoto, ControllerEnds, OpeningPCs, ClosingPCs
  <2> QED
    BY <2>1 DEF ClosedInv
<1>5. CASE Destroy
  <2>1. CASE RegisterDestroy
    <3>1. ctl \in Controllers
      BY <2>1 DEF RegisterDestroy, TypeOK, ControllerRuns, Ended
    <3> QED
      BY <2>1, <3>1 DEF RegisterDestroy, ControllerEnds, NoRegister, ClosedInv, OpeningPCs,
                        ClosingPCs, TypeOK
  <2>2. CASE Destroy /\ ~RegisterDestroy
    BY <2>2 DEF Destroy, DestroyUnlock, SemaphoreDestroy, GroupsDestroy, DropApp, DestroyEnd,
                Unlock, ControllerGoto, ControllerEnds, ClosedInv, OpeningPCs, ClosingPCs,
                ipcVars
  <2> QED
    BY <1>5, <2>1, <2>2
<1>6. CASE UNCHANGED vars
  BY <1>0, <1>6 DEF vars, ipcVars, ctlVars, policyVars
<1> QED
  BY <1>1, <1>2, <1>3, <1>4, <1>5, <1>6 DEF Next, ControllerStep

LEMMA ClosedInvariant ==
  ASSUME Uninterrupted
  PROVE  Spec => []ClosedInv
BY ClosedInit, ClosedNext, LockInvariant, TypeCorrect, PTL DEF Spec

-----------------------------------------------------------------------------
(* Steps the registry does not see, and its end.                           *)

Invariants == TypeOK /\ LockInv /\ QueueInv /\ MapInv /\ ClosedInv

(* Nothing of the registry changes.                                        *)
LEMMA Stutters ==
  ASSUME UNCHANGED <<RegistryOpen, Present>>,
         RegistryOpen => UNCHANGED <<NewApps, DetachedApps, registered>>
  PROVE  UNCHANGED R!vars
BY DEF R!vars, Queue, Members, Leaving

(* The controller and its app_register do not change.                      *)
LEMMA ControllerStill ==
  ASSUME UNCHANGED <<Present, ctl, cpc, loop, registered>>, reg'[ctl] = reg[ctl]
  PROVE  UNCHANGED R!vars
<1>1. Phase' = Phase
  BY DEF Phase
<1>2. RegistryOpen' = RegistryOpen
  BY DEF RegistryOpen, ControllerRuns
<1>3. NewApps' = NewApps
  BY <1>1 DEF NewApps
<1>4. DetachedApps' = DetachedApps
  BY <1>1 DEF DetachedApps
<1> QED
  BY <1>2, <1>3, <1>4, Stutters

(* The steps of the registry in which no application writes to a list.     *)
Quiet ==
  \/ R!Open \/ R!Close \/ R!Register
  \/ \E p \in Pids : R!Appear(p) \/ R!Vanish(p) \/ R!Deregister(p)
  \/ UNCHANGED R!vars

(* The register is gone, or the controller has ended.                      *)
LEMMA Closes ==
  ASSUME ~RegistryOpen', UNCHANGED Present
  PROVE  Quiet
<1>1. CASE RegistryOpen
  BY <1>1 DEF Quiet, R!Close, Queue, Members, Leaving
<1>2. CASE ~RegistryOpen
  <2>1. RegistryOpen \in BOOLEAN /\ RegistryOpen' \in BOOLEAN
    BY DEF RegistryOpen
  <2> QED
    BY <1>2, <2>1, Stutters DEF Quiet
<1> QED
  BY <1>1, <1>2

(* The controller moves, outside of the loops over the lists.              *)
LEMMA ControllerMovesOn ==
  ASSUME UNCHANGED <<Present, reg, ctl, registered>>,
         ControllerRuns, ControllerRuns',
         NewApps = reg[ctl].newApps, NewApps' = reg'[ctl].newApps,
         DetachedApps = reg[ctl].detachedApps, DetachedApps' = reg'[ctl].detachedApps
  PROVE  UNCHANGED R!vars
BY Stutters DEF RegistryOpen

(* Outside of run() the lists are what they seem.                          *)
LEMMA OutsideRun ==
  /\ cpc # "run" => NewApps = reg[ctl].newApps /\ DetachedApps = reg[ctl].detachedApps
  /\ cpc' # "run" => NewApps' = reg'[ctl'].newApps /\ DetachedApps' = reg'[ctl'].detachedApps
<1>1. cpc # "run" => NewApps = reg[ctl].newApps /\ DetachedApps = reg[ctl].detachedApps
  BY DEF NewApps, DetachedApps
<1>2. cpc' # "run" =>
        NewApps' = reg'[ctl'].newApps /\ DetachedApps' = reg'[ctl'].detachedApps
  BY DEF NewApps, DetachedApps
<1> QED
  BY <1>1, <1>2

-----------------------------------------------------------------------------
(* Applications.                                                           *)

(* Only applications that start or are reaped change who is present.       *)
LEMMA OutsideQuiet ==
  ASSUME Invariants, NEW p \in Pids,
         \/ Spawn(p) \/ Crash(p) \/ Reap(p) \/ AttachCreate(p) \/ AttachRefused(p)
         \/ DetachBegin(p) \/ \E k \in Cores : AssignCore(p, k)
  PROVE  Quiet
<1>1. UNCHANGED <<reg, ctl, cpc, loop, registered>>
  BY DEF Spawn, Crash, Reap, AttachCreate, CreateData, AttachRefused, DetachBegin,
         AssignCore, ipcVars, ctlVars, policyVars
<1>2. UNCHANGED <<RegistryOpen, Queue, Members, Leaving>>
  BY <1>1 DEF RegistryOpen, ControllerRuns, NewApps, DetachedApps, Phase, Queue, Members, Leaving
<1>3. CASE Spawn(p)
  <2>1. p \notin Present /\ Present' = Present \cup {p}
    BY <1>3 DEF Spawn, Present, Invariants, TypeOK
  <2> QED
    BY <1>2, <2>1 DEF Quiet, R!Appear
<1>4. CASE Reap(p)
  <2>1. p \in Present /\ Present' = Present \ {p}
    BY <1>4 DEF Reap, Present, Invariants, TypeOK
  <2> QED
    BY <1>2, <2>1 DEF Quiet, R!Vanish
<1>5. CASE ~Spawn(p) /\ ~Reap(p)
  <2>1. proc' = proc \/ (proc[p] = "running" /\ proc' = [proc EXCEPT ![p] = "zombie"])
    BY <1>5 DEF Crash, AttachCreate, CreateData, AttachRefused, DetachBegin, AssignCore,
                At, Dies, appVars
  <2>2. Present' = Present
    BY <2>1 DEF Present, Invariants, TypeOK
  <2> QED
    BY <1>1, <2>2, ControllerStill DEF Quiet
<1> QED
  BY <1>3, <1>4, <1>5

(* A process that writes to the list of the running controller does so in  *)
(* its critical section, and the controller is not in one of its own.      *)
LEMMA WriterExcludes ==
  ASSUME Invariants, NEW p \in Pids, AttachWrite(p) \/ DetachWrite(p)
  PROVE  /\ home[p] \in Controllers /\ proc[p] = "running"
         /\ reg[home[p]].exists
         /\ home[p] = ctl => cpc \notin ControllerLockedPCs
<1>1. proc[p] = "running" /\ pc[p] \in {"attachWrite", "detachWrite"} /\ home[p] \in Controllers
  BY DEF AttachWrite, DetachWrite, At, Invariants, TypeOK
<1>2. Locked(p, home[p]) /\ AppLocked(p, home[p]) /\ pc[p] \notin CheckPCs
  BY <1>1 DEF Locked, AppLocked, LockedPCs, CheckPCs
<1>3. reg[home[p]].exists
  BY <1>1, <1>2 DEF Invariants, LockInv, WritersSeeRegister
<1>4. ASSUME home[p] = ctl, cpc \in ControllerLockedPCs
      PROVE  FALSE
  <2>1. ctl \in Procs /\ ctl \notin Pids /\ Locked(ctl, ctl) /\ p \in Procs
    BY <1>1, <1>4, PidsAssumption DEF Locked, ControllerLocked, Procs
  <2>2. Accessing(p, ctl) /\ Accessing(ctl, ctl)
    BY <1>2, <1>4, <2>1 DEF Accessing
  <2>3. MutualExclusion
    BY LockInvExclusion DEF Invariants
  <2> QED
    BY <1>1, <1>4, <2>1, <2>2, <2>3 DEF MutualExclusion
<1> QED
  BY <1>1, <1>3, <1>4

LEMMA AttachWriteAttaches ==
  ASSUME Invariants, NEW p \in Pids, AttachWrite(p)
  PROVE  (home[p] = ctl /\ R!Attach(p)) \/ (~(ControllerRuns /\ home[p] = ctl) /\ Quiet)
<1>1. /\ UNCHANGED <<Present, ctl, cpc, loop, registered>>
      /\ reg' = [reg EXCEPT ![home[p]].newApps = Append(@, p)]
      /\ pc[p] = "attachWrite"
  BY DEF AttachWrite, At, Present, ctlVars, policyVars
<1>2. /\ home[p] \in Controllers /\ proc[p] = "running" /\ reg[home[p]].exists
      /\ home[p] = ctl => cpc # "run"
  BY WriterExcludes DEF ControllerLockedPCs
<1>3. ControllerRuns' = ControllerRuns
  BY <1>1 DEF ControllerRuns
<1>4. CASE ~ControllerRuns
  <2>1. Quiet
    BY <1>1, <1>3, <1>4, Closes DEF RegistryOpen
  <2> QED
    BY <1>4, <2>1
<1>5. CASE ControllerRuns /\ home[p] # ctl
  <2>1. ctl \in Controllers /\ reg'[ctl] = reg[ctl]
    BY <1>1, <1>2, <1>5, ListType DEF Invariants, TypeOK
  <2> QED
    BY <1>1, <1>5, <2>1, ControllerStill DEF Quiet
<1>6. CASE ControllerRuns /\ home[p] = ctl
  <2>1. reg[ctl] \in Registers /\ reg \in [Controllers -> Registers]
    BY <1>2, <1>6 DEF Invariants, TypeOK
  <2>2. /\ reg'[ctl].newApps = Append(reg[ctl].newApps, p)
        /\ reg'[ctl].detachedApps = reg[ctl].detachedApps
        /\ reg'[ctl].exists
    BY <1>1, <1>2, <1>6, <2>1 DEF Registers
  <2>3. RegistryOpen /\ RegistryOpen'
    BY <1>2, <1>3, <1>6, <2>2, <1>1 DEF RegistryOpen
  <2>4. /\ Queue = reg[ctl].newApps /\ Queue' = Append(Queue, p)
        /\ Members = registered /\ UNCHANGED <<Members, Leaving>>
    BY <1>1, <1>2, <1>6, <2>2, <2>3, OutsideRun DEF Queue, Members, Leaving
  <2>5. p \in Present
    BY <1>2 DEF Present
  <2>6. Len(Queue) < MaxApps
    BY <1>1, <1>6, <2>4 DEF Invariants, QueueInv, RoomForWriters
  <2>7. p \notin Members
    BY <1>1, <1>6, <2>4 DEF Invariants, MapInv, AttachingNew, AttachingPCs
  <2>8. p \notin {Queue[i] : i \in DOMAIN Queue}
    <3>1. reg[ctl].newApps \in Seq(Pids)
      BY <1>6, ListType DEF Invariants
    <3>2. DOMAIN reg[ctl].newApps = Waiting
      BY <1>2, <1>6, <3>1 DEF Waiting, Skipped
    <3> QED
      BY <1>1, <1>6, <2>4, <3>2 DEF Invariants, MapInv, AttachingNew, AttachingPCs
  <2>9. R!Attach(p)
    BY <1>1, <2>3, <2>4, <2>5, <2>6, <2>7, <2>8 DEF R!Attach, R!Queued
  <2> QED
    BY <1>6, <2>9
<1> QED
  BY <1>4, <1>5, <1>6

(* The entries of a list with one more.                                    *)
LEMMA AppendedEntries ==
  ASSUME NEW s \in Seq(Pids), NEW p
  PROVE  {Append(s, p)[i] : i \in DOMAIN Append(s, p)} = {s[i] : i \in DOMAIN s} \cup {p}
<1>1. /\ Len(s) \in Nat /\ DOMAIN s = 1 .. Len(s)
      /\ DOMAIN Append(s, p) = 1 .. Len(s) + 1
      /\ \A i \in 1 .. Len(s) : Append(s, p)[i] = s[i]
      /\ Append(s, p)[Len(s) + 1] = p
  OBVIOUS
<1>2. 1 .. Len(s) + 1 = (1 .. Len(s)) \cup {Len(s) + 1}
  BY <1>1
<1> QED
  BY <1>1, <1>2

LEMMA DetachWriteLeaves ==
  ASSUME Invariants, NEW p \in Pids, DetachWrite(p)
  PROVE  R!Leave(p) \/ UNCHANGED R!vars
<1>1. /\ UNCHANGED <<Present, ctl, cpc, loop, registered>>
      /\ reg' = [reg EXCEPT ![home[p]].detachedApps = Append(@, p)]
      /\ pc[p] = "detachWrite"
  BY DEF DetachWrite, At, Present, ctlVars, policyVars
<1>2. /\ home[p] \in Controllers /\ proc[p] = "running" /\ reg[home[p]].exists
      /\ home[p] = ctl => cpc # "run"
  BY WriterExcludes DEF ControllerLockedPCs
<1>3. ControllerRuns' = ControllerRuns
  BY <1>1 DEF ControllerRuns
<1>4. CASE ~ControllerRuns
  <2>1. RegistryOpen = FALSE /\ RegistryOpen' = FALSE
    BY <1>3, <1>4 DEF RegistryOpen
  <2> QED
    BY <1>1, <2>1, Stutters
<1>5. CASE ControllerRuns /\ home[p] # ctl
  <2>1. ctl \in Controllers /\ reg'[ctl] = reg[ctl]
    BY <1>1, <1>2, <1>5, ListType DEF Invariants, TypeOK
  <2> QED
    BY <1>1, <1>5, <2>1, ControllerStill
<1>6. CASE ControllerRuns /\ home[p] = ctl
  <2>1. reg[ctl] \in Registers /\ reg \in [Controllers -> Registers]
    BY <1>2, <1>6 DEF Invariants, TypeOK
  <2>2. /\ reg'[ctl].detachedApps = Append(reg[ctl].detachedApps, p)
        /\ reg'[ctl].newApps = reg[ctl].newApps
        /\ reg'[ctl].exists
    BY <1>1, <1>2, <1>6, <2>1 DEF Registers
  <2>3. RegistryOpen /\ RegistryOpen'
    BY <1>2, <1>3, <1>6, <2>2, <1>1 DEF RegistryOpen
  <2>4. UNCHANGED <<Queue, Members>>
    BY <1>1, <1>2, <1>6, <2>2, <2>3, OutsideRun DEF Queue, Members
  <2>5. Leaving' = Leaving \cup {p}
    <3> DEFINE s == reg[ctl].detachedApps
    <3>1. s \in Seq(Pids)
      BY <1>2, <1>6, RegisterLists DEF Invariants
    <3>2. /\ Leaving = {s[i] : i \in DOMAIN s}
          /\ Leaving' = {Append(s, p)[i] : i \in DOMAIN Append(s, p)}
      BY <1>1, <1>2, <1>6, <2>2, <2>3, OutsideRun, SMTT(30) DEF Leaving
    <3> QED
      BY <3>1, <3>2, AppendedEntries
  <2>6. p \in Present
    BY <1>2 DEF Present
  <2>7. R!Leave(p)
    BY <1>1, <2>3, <2>4, <2>5, <2>6 DEF R!Leave
  <2> QED
    BY <2>7
<1> QED
  BY <1>4, <1>5, <1>6

LEMMA AppStepQuiet ==
  ASSUME Invariants, NEW p \in Pids, AppStep(p), ~AttachWrite(p), ~DetachWrite(p)
  PROVE  Quiet
<1>1. UNCHANGED <<reg, ctl, cpc, loop, registered>>
  BY DEF AppStep, AttachSem, AttachWait, AttachCheck, AttachPost, DetachSem, DetachWait,
         DetachCheck, DetachPost, DetachData, GetRegisterSem, WaitRegister, PostRegister,
         ctlVars, policyVars
<1>2. proc' = proc \/ (proc[p] = "running" /\ proc' = [proc EXCEPT ![p] = "zombie"])
  BY DEF AppStep, AttachSem, AttachWait, AttachCheck, AttachPost, DetachSem, DetachWait,
         DetachCheck, DetachPost, DetachData, GetRegisterSem, WaitRegister, PostRegister,
         At, Dies, Continues
<1>3. Present' = Present
  BY <1>2 DEF Present, Invariants, TypeOK
<1> QED
  BY <1>1, <1>3, ControllerStill DEF Quiet

-----------------------------------------------------------------------------
(* The controller starts, boots and ends.                                  *)

(* Between two runs and in the destructor the controller reads no list.    *)
LEMMA OutsideMovesOn ==
  ASSUME UNCHANGED <<Present, reg, ctl, registered>>, ControllerRuns, ControllerRuns',
         cpc # "run", cpc' # "run"
  PROVE  UNCHANGED R!vars
BY ControllerMovesOn, OutsideRun

LEMMA StartQuiet ==
  ASSUME Invariants, NEW c \in Controllers, Start(c)
  PROVE  Quiet
<1>1. ~reg[c].exists
  BY DEF Start, Invariants, LockInv, BootState, NotBooted, RegisterHasSemaphore
<1>2. ~RegistryOpen' /\ UNCHANGED Present
  BY <1>1 DEF Start, RegistryOpen, Present, ipcVars, appVars
<1> QED
  BY <1>2, Closes

LEMMA BootQuiet ==
  ASSUME Invariants, Boot
  PROVE  Quiet
<1>1. UNCHANGED <<Present, ctl, registered>>
  BY DEF Boot, SemaphoreCreate, SemaphoreInit, BootLock, RegisterCreate, BootUnlock,
         SetupGroups, Lock, Unlock, appVars, policyVars, Present
<1>2. cpc # "run" /\ cpc' # "run" /\ ControllerRuns
  BY DEF Boot, SemaphoreCreate, SemaphoreInit, BootLock, RegisterCreate, BootUnlock,
         SetupGroups, Lock, Unlock, ControllerGoto, ControllerEnds, ControllerRuns, Ended
<1>3. CASE RegisterCreate
  <2>1. cpc = "create" /\ cpc' = "bootUnlock" /\ ctl \in Controllers
    BY <1>2, <1>3, ListType DEF RegisterCreate, ControllerGoto, Invariants
  <2>2. registered = {} /\ ~RegistryOpen
    BY <2>1 DEF Invariants, ClosedInv, OpeningPCs, RegistryOpen
  <2>3. reg'[ctl] = [exists |-> TRUE, newApps |-> <<>>, detachedApps |-> <<>>]
    BY <1>3, <2>1 DEF RegisterCreate, NoRegister, Invariants, TypeOK
  <2>4. RegistryOpen'
    BY <1>1, <2>1, <2>3 DEF RegistryOpen, ControllerRuns, Ended
  <2>5. NewApps' = <<>> /\ DetachedApps' = <<>>
    BY <1>1, <1>2, <2>3, OutsideRun
  <2>6. Queue = <<>> /\ Members = {} /\ Leaving = {}
    BY <2>2 DEF Queue, Members, Leaving
  <2>7. Queue' = <<>> /\ Members' = {} /\ Leaving' = {}
    BY <1>1, <2>2, <2>4, <2>5 DEF Queue, Members, Leaving
  <2>8. RegistryOpen' = TRUE
    BY <2>4 DEF RegistryOpen
  <2> QED
    BY <1>1, <2>2, <2>6, <2>7, <2>8 DEF Quiet, R!Open
<1>4. CASE ~RegisterCreate
  <2>1. UNCHANGED reg
    BY <1>4 DEF Boot, SemaphoreCreate, SemaphoreInit, BootLock, BootUnlock, SetupGroups,
                Lock, Unlock
  <2>2. CASE ControllerRuns'
    BY <1>1, <1>2, <2>1, <2>2, OutsideMovesOn DEF Quiet
  <2>3. CASE ~ControllerRuns'
    BY <1>1, <2>3, Closes DEF RegistryOpen
  <2> QED
    BY <2>2, <2>3
<1> QED
  BY <1>3, <1>4

LEMMA DestroyQuiet ==
  ASSUME Invariants, Destroy
  PROVE  Quiet
<1>1. UNCHANGED <<Present, ctl>>
  BY DEF Destroy, RegisterDestroy, DestroyUnlock, SemaphoreDestroy, GroupsDestroy, DropApp,
         DestroyEnd, Unlock, appVars, Present
<1>2. CASE RegisterDestroy
  <2>1. ctl \in Controllers
    BY <1>2 DEF RegisterDestroy, Invariants, TypeOK, ControllerRuns, Ended
  <2>2. ~RegistryOpen'
    BY <1>1, <1>2, <2>1 DEF RegisterDestroy, ControllerEnds, RegistryOpen, ControllerRuns, Ended,
                            NoRegister, Invariants, TypeOK
  <2> QED
    BY <1>1, <2>2, Closes
<1>3. CASE ~RegisterDestroy
  <2>1. cpc \in ClosingPCs /\ UNCHANGED reg
    BY <1>3 DEF Destroy, DestroyUnlock, SemaphoreDestroy, GroupsDestroy, DropApp, DestroyEnd,
                Unlock, ControllerGoto, ClosingPCs, ipcVars
  <2>2. ~RegistryOpen'
    BY <1>1, <2>1 DEF RegistryOpen, Invariants, ClosedInv
  <2> QED
    BY <1>1, <2>2, Closes
<1> QED
  BY <1>2, <1>3

LEMMA EnvironmentQuiet ==
  ASSUME Invariants, Environment
  PROVE  Quiet
<1>1. CASE ControllerCrash
  <2>1. ~RegistryOpen' /\ UNCHANGED Present
    BY <1>1 DEF ControllerCrash, ControllerEnds, RegistryOpen, ControllerRuns, Ended, appVars,
                Present
  <2> QED
    BY <2>1, Closes
<1>2. CASE DestroyBegin
  <2>1. /\ cpc = "idle" /\ cpc' = "destroy" /\ ControllerRuns /\ ControllerRuns'
        /\ UNCHANGED <<Present, reg, ctl, registered>>
    BY <1>2 DEF DestroyBegin, Lock, ControllerGoto, ControllerRuns, Ended, appVars, policyVars,
                Present
  <2> QED
    BY <2>1, OutsideMovesOn DEF Quiet
<1> QED
  BY <1>1, <1>2, OutsideQuiet, StartQuiet DEF Environment

-----------------------------------------------------------------------------
(* run().                                                                  *)

(* The entries a loop has still to process.                                *)
Rest(s, i) == SubSeq(s, i + 1, Len(s))

LEMMA RestOfList ==
  ASSUME NEW s \in Seq(Pids), NEW i \in Nat
  PROVE  /\ Rest(s, 0) = s /\ Rest(s, i) \in Seq(Pids)
         /\ i = Len(s) => Rest(s, i) = <<>>
         /\ i < Len(s) => /\ Rest(s, i) # <<>> /\ Head(Rest(s, i)) = s[i + 1]
                          /\ Tail(Rest(s, i)) = Rest(s, i + 1)
<1>1. Len(s) \in Nat
  OBVIOUS
<1>2. Rest(s, 0) = s
  BY SubSeqFull DEF Rest
<1>3. i = Len(s) => Rest(s, i) = <<>>
  BY <1>1, SubSeqEmpty DEF Rest
<1>4. /\ Rest(s, i) \in Seq(Pids)
      /\ i < Len(s) => Len(Rest(s, i)) = Len(s) - (i + 1) + 1
  <2>1. \A j \in i + 1 .. Len(s) : s[j] \in Pids
    BY <1>1
  <2> QED
    BY <1>1, <2>1, SubSeqProperties DEF Rest
<1>5. ASSUME i < Len(s)
      PROVE  /\ Rest(s, i) # <<>> /\ Head(Rest(s, i)) = s[i + 1]
             /\ Tail(Rest(s, i)) = Rest(s, i + 1)
  <2>1. i + 1 \in 1 .. Len(s) /\ Len(s) \in i + 1 .. Len(s)
    BY <1>1, <1>5
  <2>2. Rest(s, i) # <<>>
    <3>1. Len(Rest(s, i)) # 0 /\ Len(<<>>) = 0
      BY <1>1, <1>4, <1>5
    <3> QED
      BY <3>1
  <2>3. Head(Rest(s, i)) = s[i + 1]
    BY <2>1, HeadTailOfSubSeq DEF Rest
  <2>4. Tail(Rest(s, i)) = Rest(s, i + 1)
    BY <2>1, HeadTailOfSubSeq DEF Rest
  <2> QED
    BY <2>2, <2>3, <2>4
<1> QED
  BY <1>2, <1>3, <1>4, <1>5

(* NewApps and DetachedApps are the rests of the lists.                    *)
LEMMA Views ==
  ASSUME Invariants, cpc = "run"
  PROVE  /\ ctl \in Controllers /\ loop.i \in Nat /\ ControllerRuns
         /\ reg[ctl].newApps \in Seq(Pids) /\ reg[ctl].detachedApps \in Seq(Pids)
         /\ NewApps = IF Phase = "registerNewApps"
                        THEN Rest(reg[ctl].newApps, loop.i) ELSE reg[ctl].newApps
         /\ DetachedApps = IF Phase = "deregisterDetachedApps"
                             THEN Rest(reg[ctl].detachedApps, loop.i)
                             ELSE reg[ctl].detachedApps
<1>1. ControllerRuns /\ loop.i \in Nat
  BY DEF Invariants, TypeOK, ControllerRuns, Ended
<1>2. ctl \in Controllers
  BY <1>1, ListType DEF Invariants
<1> QED
  BY <1>1, <1>2, RegisterLists DEF Invariants, NewApps, DetachedApps, Rest

(* When a helper starts it has processed nothing.                          *)
LEMMA FreshViews ==
  ASSUME NEW n, EnterPhase(n), cpc' = "run",
         reg'[ctl'].newApps \in Seq(Pids), reg'[ctl'].detachedApps \in Seq(Pids)
  PROVE  NewApps' = reg'[ctl'].newApps /\ DetachedApps' = reg'[ctl'].detachedApps
<1>1. loop'.i + 1 = 1
  BY DEF EnterPhase
<1>2. NewApps' = reg'[ctl'].newApps
  BY <1>1, SubSeqFull DEF NewApps
<1>3. DetachedApps' = reg'[ctl'].detachedApps
  BY <1>1, SubSeqFull DEF DetachedApps
<1> QED
  BY <1>2, <1>3

(* A helper returns: what it has read of its list is gone.                 *)
LEMMA HelperReturnsStutters ==
  ASSUME Invariants, cpc = "run", NEW r, HelperReturns(r), r[ctl].exists = reg[ctl].exists,
         r[ctl].newApps = NewApps, r[ctl].detachedApps = DetachedApps
  PROVE  UNCHANGED R!vars
<1>1. /\ reg' = r /\ EnterPhase(loop.phase + 1) /\ cpc' = "run"
      /\ UNCHANGED <<Present, ctl, cpc, registered>>
  BY DEF HelperReturns, appVars, policyVars, Present
<1>2. NewApps \in Seq(Pids) /\ DetachedApps \in Seq(Pids)
  BY Views, RestOfList
<1>3. NewApps' = NewApps /\ DetachedApps' = DetachedApps
  BY <1>1, <1>2, FreshViews
<1>4. RegistryOpen' = RegistryOpen
  BY <1>1 DEF RegistryOpen, ControllerRuns
<1> QED
  BY <1>1, <1>3, <1>4, Stutters

(* The entries of a list, and those after the first.                       *)
LEMMA HeadAndTail ==
  ASSUME NEW s \in Seq(Pids), s # <<>>
  PROVE  {s[i] : i \in DOMAIN s} = {Head(s)} \cup {Tail(s)[i] : i \in DOMAIN Tail(s)}
<1> DEFINE Entries(t) == {t[i] : i \in DOMAIN t}
<1>1. /\ Len(s) \in Nat \ {0} /\ DOMAIN s = 1 .. Len(s) /\ Head(s) = s[1]
      /\ DOMAIN Tail(s) = 1 .. Len(s) - 1 /\ Len(Tail(s)) = Len(s) - 1
  OBVIOUS
<1>2. \A i \in 1 .. Len(s) - 1 : Tail(s)[i] = s[i + 1]
  BY <1>1, HeadTailProperties
<1>3. \A i \in DOMAIN s : i = 1 \/ (i - 1 \in DOMAIN Tail(s) /\ s[i] = Tail(s)[i - 1])
  BY <1>1, <1>2
<1>4. \A i \in DOMAIN Tail(s) : i + 1 \in DOMAIN s /\ Tail(s)[i] = s[i + 1]
  BY <1>1, <1>2
<1>5. 1 \in DOMAIN s
  BY <1>1
<1>6. ASSUME NEW i \in DOMAIN s
      PROVE  s[i] \in {Head(s)} \cup Entries(Tail(s))
  <2>1. CASE i = 1
    BY <1>1, <2>1
  <2>2. CASE i - 1 \in DOMAIN Tail(s) /\ s[i] = Tail(s)[i - 1]
    BY <2>2
  <2> QED
    BY <1>3, <2>1, <2>2
<1>7. \A x \in {Head(s)} \cup Entries(Tail(s)) : x \in Entries(s)
  BY <1>1, <1>4, <1>5
<1>8. \A x \in Entries(s) : x \in {Head(s)} \cup Entries(Tail(s))
  BY <1>6, Zenon
<1> HIDE DEF Entries
<1>9. Entries(s) = {Head(s)} \cup Entries(Tail(s))
  BY <1>7, <1>8
<1> QED
  BY <1>9 DEF Entries

LEMMA RunBeginEndStutters ==
  ASSUME Invariants, RunBegin \/ RunEnd
  PROVE  UNCHANGED R!vars
<1>1. /\ UNCHANGED <<Present, reg, ctl, registered>> /\ ControllerRuns /\ ControllerRuns'
  BY DEF RunBegin, RunEnd, Lock, Unlock, ControllerGoto, ControllerRuns, Ended, appVars,
         policyVars, Present
<1>2. CASE RunBegin
  <2>1. cpc = "idle" /\ cpc' = "run" /\ EnterPhase(1)
    BY <1>2 DEF RunBegin, Lock, ControllerGoto
  <2>2. ctl \in Controllers
    BY <1>1, ListType DEF Invariants
  <2>3. /\ NewApps' = reg'[ctl'].newApps
        /\ DetachedApps' = reg'[ctl'].detachedApps
    BY <1>1, <2>1, <2>2, RegisterLists, FreshViews DEF Invariants
  <2> QED
    BY <1>1, <2>1, <2>3, OutsideRun, ControllerMovesOn
<1>3. CASE RunEnd
  <2>1. cpc = "run" /\ cpc' = "idle" /\ Phase = "end"
    BY <1>3 DEF RunEnd, Unlock, ControllerGoto
  <2> QED
    BY <1>1, <2>1, Views, OutsideRun, ControllerMovesOn
<1> QED
  BY <1>2, <1>3

(* No helper reads an entry of the lists.                                  *)
LEMMA HelpersReturn ==
  ASSUME Invariants, DeadAppsDone \/ DetachedAppsDone \/ NewAppsDone
  PROVE  UNCHANGED R!vars
<1>0. /\ cpc = "run" /\ ctl \in Controllers
      /\ reg \in [Controllers -> Registers] /\ reg[ctl] \in Registers
  BY Views DEF DeadAppsDone, DetachedAppsDone, NewAppsDone, Invariants, TypeOK
<1>1. CASE DeadAppsDone
  BY <1>0, <1>1, Views, HelperReturnsStutters DEF DeadAppsDone
<1>2. CASE DetachedAppsDone
  <2> DEFINE r == [reg EXCEPT ![ctl].detachedApps = <<>>]
  <2>1. /\ r[ctl].exists = reg[ctl].exists /\ r[ctl].newApps = reg[ctl].newApps
        /\ r[ctl].detachedApps = <<>>
    BY <1>0 DEF Registers
  <2>2. HelperReturns(r) /\ Phase = "deregisterDetachedApps"
        /\ loop.i = Len(reg[ctl].detachedApps)
    BY <1>2 DEF DetachedAppsDone
  <2>3. r[ctl].newApps = NewApps /\ r[ctl].detachedApps = DetachedApps
    BY <1>0, <2>1, <2>2, Views, RestOfList
  <2> HIDE DEF r
  <2> QED
    BY <1>0, <2>1, <2>2, <2>3, HelperReturnsStutters
<1>3. CASE NewAppsDone
  <2> DEFINE r == [reg EXCEPT ![ctl].newApps = <<>>]
  <2>1. /\ r[ctl].exists = reg[ctl].exists /\ r[ctl].detachedApps = reg[ctl].detachedApps
        /\ r[ctl].newApps = <<>>
    BY <1>0 DEF Registers
  <2>2. HelperReturns(r) /\ Phase = "registerNewApps" /\ loop.i = Len(reg[ctl].newApps)
    BY <1>3 DEF NewAppsDone
  <2>3. r[ctl].newApps = NewApps /\ r[ctl].detachedApps = DetachedApps
    BY <1>0, <2>1, <2>2, Views, RestOfList
  <2> HIDE DEF r
  <2> QED
    BY <1>0, <2>1, <2>2, <2>3, HelperReturnsStutters
<1> QED
  BY <1>1, <1>2, <1>3

(* The App of a pid that no process has is erased.                         *)
LEMMA DeadAppDeregisters ==
  ASSUME Invariants, NEW p \in Pids, DeregisterDeadApp(p)
  PROVE  Quiet
<1>1. /\ UNCHANGED <<Present, reg, ctl, cpc>>
      /\ cpc = "run" /\ Phase = "deregisterDeadApps" /\ p \in registered
      /\ loop' = [loop EXCEPT !.todo = @ \ {p}]
  BY DEF DeregisterDeadApp, appVars, Present, Invariants, MapInv, LoopBounds
<1>2. loop'.phase = loop.phase /\ loop'.i = loop.i
  BY <1>1 DEF Invariants, TypeOK
<1>3. Phase' = Phase
  BY <1>2 DEF Phase
<1>4. NewApps' = NewApps /\ DetachedApps' = DetachedApps
  <2>1. NewApps' = NewApps
    BY <1>1, <1>3 DEF NewApps
  <2>2. DetachedApps' = DetachedApps
    BY <1>1, <1>3 DEF DetachedApps
  <2> QED
    BY <2>1, <2>2
<1>5. RegistryOpen' = RegistryOpen
  BY <1>1 DEF RegistryOpen, ControllerRuns
<1>6. CASE ~RegistryOpen
  BY <1>1, <1>5, <1>6, Closes
<1>7. CASE RegistryOpen /\ isAppRunning(p)
  <2>1. registered' = registered
    BY <1>7 DEF DeregisterDeadApp, policyVars
  <2> QED
    BY <1>1, <1>4, <1>5, <2>1, Stutters DEF Quiet
<1>8. CASE RegistryOpen /\ ~isAppRunning(p)
  <2>1. registered' = registered \ {p}
    BY <1>8 DEF DeregisterDeadApp, Deregister
  <2>2. p \notin Present
    BY <1>8 DEF isAppRunning, Present
  <2>3. Members' = Members \ {p} /\ p \in Members
    BY <1>1, <1>5, <1>8, <2>1 DEF Members
  <2>4. UNCHANGED <<Queue, Leaving>>
    BY <1>4, <1>5 DEF Queue, Leaving
  <2>5. R!Deregister(p)
    BY <1>1, <1>5, <2>2, <2>3, <2>4 DEF R!Deregister
  <2> QED
    BY <2>5 DEF Quiet
<1> QED
  BY <1>6, <1>7, <1>8

(* The App of a detached application is erased, or the controller dies.    *)
LEMMA DetachedAppDeregisters ==
  ASSUME Invariants, DeregisterDetachedApp
  PROVE  Quiet
<1> DEFINE s == reg[ctl].detachedApps
           p == s[loop.i + 1]
<1>1. /\ UNCHANGED <<Present, reg, ctl>>
      /\ cpc = "run" /\ Phase = "deregisterDetachedApps" /\ loop.i < Len(s)
  BY DEF DeregisterDetachedApp, appVars, Present
<1>2. /\ s \in Seq(Pids) /\ loop.i \in Nat /\ DetachedApps = Rest(s, loop.i)
      /\ NewApps = reg[ctl].newApps
  BY <1>1, Views
<1>3. p \in Pids
  BY <1>1, <1>2
<1>4. CASE p \notin registered
  <2>1. cpc' = "crashed"
    BY <1>4 DEF DeregisterDetachedApp, ControllerEnds
  <2> QED
    BY <1>1, <2>1, Closes DEF RegistryOpen, ControllerRuns, Ended
<1>5. CASE p \in registered
  <2>1. /\ registered' = registered \ {p} /\ cpc' = cpc
        /\ loop' = [loop EXCEPT !.i = @ + 1]
    BY <1>5 DEF DeregisterDetachedApp, Deregister
  <2>2. loop'.phase = loop.phase /\ loop'.i = loop.i + 1
    BY <2>1 DEF Invariants, TypeOK
  <2>3. Phase' = Phase
    BY <2>2 DEF Phase
  <2>4. NewApps' = NewApps
    BY <1>1, <1>2, <2>1, <2>3 DEF NewApps
  <2>5. DetachedApps' = Rest(s, loop.i + 1)
    BY <1>1, <2>1, <2>2, <2>3 DEF DetachedApps, Rest
  <2>6. RegistryOpen' = RegistryOpen
    BY <1>1, <2>1 DEF RegistryOpen, ControllerRuns
  <2>7. CASE ~RegistryOpen
    BY <1>1, <2>6, <2>7, Closes
  <2>8. CASE RegistryOpen
    <3>1. /\ DetachedApps \in Seq(Pids) /\ DetachedApps # <<>> /\ Head(DetachedApps) = p
          /\ DetachedApps' = Tail(DetachedApps)
      BY <1>1, <1>2, <2>5, RestOfList
    <3>2. p \in Leaving /\ Leaving' \in {Leaving, Leaving \ {p}}
      <4> HIDE DEF p
      <4>1. /\ Leaving = {DetachedApps[i] : i \in DOMAIN DetachedApps}
            /\ Leaving' = {DetachedApps'[i] : i \in DOMAIN DetachedApps'}
        BY <2>6, <2>8 DEF Leaving
      <4>2. Leaving = {p} \cup Leaving'
        BY <3>1, <4>1, HeadAndTail
      <4> QED
        BY <4>2
    <3>3. Members' = Members \ {p} /\ p \in Members
      BY <1>5, <2>1, <2>6, <2>8 DEF Members
    <3>4. Queue' = Queue
      BY <2>4, <2>6 DEF Queue
    <3>5. R!Deregister(p)
      <4> HIDE DEF p
      <4> QED
        BY <1>1, <2>6, <3>2, <3>3, <3>4 DEF R!Deregister
    <3> QED
      BY <1>3, <3>5 DEF Quiet
  <2> QED
    BY <2>7, <2>8
<1> QED
  BY <1>4, <1>5

(* The head of the queue becomes a member, or the controller ends.         *)
LEMMA NewAppRegisters ==
  ASSUME Invariants, RegisterNewApp
  PROVE  Quiet
<1> DEFINE s == reg[ctl].newApps
           p == s[loop.i + 1]
<1>1. /\ UNCHANGED <<Present, reg, ctl>>
      /\ cpc = "run" /\ Phase = "registerNewApps" /\ loop.i < Len(s)
  BY DEF RegisterNewApp, appVars, Present
<1>2. /\ s \in Seq(Pids) /\ loop.i \in Nat /\ NewApps = Rest(s, loop.i)
      /\ DetachedApps = reg[ctl].detachedApps
  BY <1>1, Views
<1>3. \/ /\ registered' = registered \cup {p}
         /\ loop' = [loop EXCEPT !.i = @ + 1]
         /\ cpc' = cpc
      \/ cpc' = "failed"
  BY EntryRegistered DEF Invariants
<1>4. CASE cpc' = "failed"
  BY <1>1, <1>4, Closes DEF RegistryOpen, ControllerRuns, Ended
<1>5. CASE /\ registered' = registered \cup {p}
           /\ loop' = [loop EXCEPT !.i = @ + 1]
           /\ cpc' = cpc
  <2>1. loop'.phase = loop.phase /\ loop'.i = loop.i + 1
    BY <1>5 DEF Invariants, TypeOK
  <2>2. Phase' = Phase
    BY <2>1 DEF Phase
  <2>3. NewApps' = Rest(s, loop.i + 1)
    BY <1>1, <1>5, <2>1, <2>2 DEF NewApps, Rest
  <2>4. DetachedApps' = DetachedApps
    BY <1>1, <1>2, <1>5, <2>2 DEF DetachedApps
  <2>5. RegistryOpen' = RegistryOpen
    BY <1>1, <1>5 DEF RegistryOpen, ControllerRuns
  <2>6. CASE ~RegistryOpen
    BY <1>1, <2>5, <2>6, Closes
  <2>7. CASE RegistryOpen
    <3>1. NewApps # <<>> /\ Head(NewApps) = p /\ NewApps' = Tail(NewApps)
      BY <1>1, <1>2, <2>3, RestOfList
    <3>2. Queue # <<>> /\ Head(Queue) = p /\ Queue' = Tail(Queue)
      BY <2>5, <2>7, <3>1 DEF Queue
    <3>3. Members' = Members \cup {p}
      BY <1>5, <2>5, <2>7 DEF Members
    <3>4. Leaving' = Leaving
      BY <2>4, <2>5 DEF Leaving
    <3>5. R!Register
      BY <1>1, <2>5, <3>2, <3>3, <3>4 DEF R!Register
    <3> QED
      BY <3>5 DEF Quiet
  <2> QED
    BY <2>6, <2>7
<1> QED
  BY <1>3, <1>4, <1>5

-----------------------------------------------------------------------------
(* The whole system.                                                       *)

LEMMA InitRefines == Init => R!Init
<1> SUFFICES ASSUME Init PROVE R!Init
  OBVIOUS
<1>1. RegistryOpen = FALSE
  BY DEF Init, RegistryOpen, ControllerRuns, Ended
<1>2. Present = {}
  BY DEF Init, Present
<1> QED
  BY <1>1, <1>2 DEF R!Init, Queue, Members, Leaving

(* Nobody but registerAttach and registerDetach adds to a list.            *)
LEMMA NextQuiet ==
  ASSUME Invariants, [Next]_vars, \A p \in Pids : ~AttachWrite(p) /\ ~DetachWrite(p)
  PROVE  Quiet
<1>1. CASE Environment
  BY <1>1, EnvironmentQuiet
<1>2. CASE Boot
  BY <1>2, BootQuiet
<1>3. CASE Run
  <2>1. CASE RunBegin \/ RunEnd \/ DeadAppsDone \/ DetachedAppsDone \/ NewAppsDone
    BY <2>1, RunBeginEndStutters, HelpersReturn DEF Quiet
  <2> QED
    BY <1>3, <2>1, DeadAppDeregisters, DetachedAppDeregisters, NewAppRegisters DEF Run
<1>4. CASE Destroy
  BY <1>4, DestroyQuiet
<1>5. ASSUME NEW p \in Pids, AppStep(p)
      PROVE  Quiet
  BY <1>5, AppStepQuiet
<1>6. CASE UNCHANGED vars
  BY <1>6, ControllerStill DEF vars, appVars, ipcVars, ctlVars, policyVars, Present, Quiet
<1> QED
  BY <1>1, <1>2, <1>3, <1>4, <1>5, <1>6 DEF Next, ControllerStep

LEMMA NextRefines == Invariants /\ [Next]_vars => [R!Next]_(R!vars)
<1> SUFFICES ASSUME Invariants, [Next]_vars
             PROVE  [R!Next]_(R!vars)
  OBVIOUS
<1>1. Quiet => [R!Next]_(R!vars)
  BY DEF Quiet, R!Next
<1>2. ASSUME NEW p \in Pids, AttachWrite(p) \/ DetachWrite(p)
      PROVE  [R!Next]_(R!vars)
  BY <1>1, <1>2, AttachWriteAttaches, DetachWriteLeaves DEF R!Next
<1> QED
  BY <1>1, <1>2, NextQuiet

LEMMA InvariantsHold ==
  ASSUME Uninterrupted
  PROVE  Spec => []Invariants
BY TypeCorrect, LockInvariant, QueueInvariant, MapInvariant, ClosedInvariant, PTL
   DEF Invariants

(* The registration protocol implements the registry: every entry, exit,   *)
(* registration and deregistration takes effect at one instant, whatever   *)
(* dies in between.                                                        *)
THEOREM Implements ==
  ASSUME Uninterrupted
  PROVE  Spec => ImplementsRegistry
BY InvariantsHold, InitRefines, NextRefines, PTL DEF Spec, ImplementsRegistry, R!Spec

-----------------------------------------------------------------------------
(* What the registry promises holds of the protocol.                       *)

LEMMA QueuePids ==
  ASSUME TypeOK, MapInv
  PROVE  Queue \in Seq(Pids)
<1>1. CASE RegistryOpen
  BY <1>1, NewAppsIsRest DEF RegistryOpen, Queue
<1>2. CASE ~RegistryOpen
  BY <1>2 DEF Queue
<1> QED
  BY <1>1, <1>2

(* No application is in two places of the queue and the map, and none is   *)
(* anywhere without a register: in the protocol shmget with IPC_EXCL sees  *)
(* to it, whether or not the lock holds.                                   *)
THEOREM OneOfEach == Spec => []OnePlace
<1>1. ASSUME TypeOK, MapInv
      PROVE  OnePlace
  <2>1. CASE RegistryOpen
    <3>1. ControllerRuns /\ Queue = NewApps /\ Members = registered
      BY <2>1 DEF RegistryOpen, Queue, Members
    <3>2. /\ Len(NewApps) \in Nat /\ DOMAIN NewApps = 1 .. Len(NewApps)
          /\ Skipped \in Nat
      BY <1>1, <3>1, NewAppsIsRest, ListType
    <3>3. \A i \in DOMAIN NewApps :
            i + Skipped \in Waiting /\ NewApps[i] = reg[ctl].newApps[i + Skipped]
      BY <1>1, <3>1, <3>2, NewAppsIsRest
    <3>4. \A i \in DOMAIN NewApps : NewApps[i] \notin registered
      BY <1>1, <3>1, <3>3 DEF MapInv, WaitingOnce
    <3>5. ASSUME NEW i \in DOMAIN NewApps, NEW j \in DOMAIN NewApps, NewApps[i] = NewApps[j]
          PROVE  i = j
      <4>1. i + Skipped = j + Skipped
        BY <1>1, <3>1, <3>3, <3>5 DEF MapInv, WaitingOnce
      <4> QED
        BY <3>2, <4>1
    <3> QED
      BY <2>1, <3>1, <3>4, <3>5 DEF OnePlace, R!OnePlace, R!Queued
  <2>2. CASE ~RegistryOpen
    BY <2>2 DEF OnePlace, R!OnePlace, R!Queued, Queue, Members
  <2> QED
    BY <2>1, <2>2
<1> QED
  BY <1>1, MapInvariant, TypeCorrect, PTL

(* Applications are registered in the order in which they attached: a step *)
(* of the registry appends to the queue, takes its head, or empties it.    *)
THEOREM RegisteredInOrder ==
  ASSUME Uninterrupted
  PROVE  Spec => InOrder
<1> DEFINE Behind(i, j) ==
             \/ Queue[i] \in Members'
             \/ \E k, l \in DOMAIN Queue' : k < l /\ Queue'[k] = Queue[i] /\ Queue'[l] = Queue[j]
           Step == \A i, j \in DOMAIN Queue :
                     i < j /\ Queue[j] \in Members' \cup {Queue'[k] : k \in DOMAIN Queue'}
                       => Behind(i, j)
<1>1. ASSUME Invariants, [Next]_vars
      PROVE  Step
  <2> SUFFICES ASSUME NEW i \in DOMAIN Queue, NEW j \in DOMAIN Queue, i < j,
                      Queue[j] \in Members' \cup {Queue'[k] : k \in DOMAIN Queue'}
               PROVE  Behind(i, j)
    OBVIOUS
  <2>1. /\ Queue \in Seq(Pids) /\ Len(Queue) \in Nat /\ DOMAIN Queue = 1 .. Len(Queue)
        /\ i \in Nat /\ j \in Nat
    BY <1>1, QueuePids DEF Invariants
  <2>2. CASE UNCHANGED Queue
    BY <2>2
  <2>3. ASSUME NEW p \in Pids, R!Attach(p)
        PROVE  Behind(i, j)
    <3>1. Queue' = Append(Queue, p)
      BY <2>3 DEF R!Attach
    <3> QED
      BY <2>1, <3>1
  <2>4. CASE R!Register
    <3>1. /\ Queue # <<>> /\ Queue' = Tail(Queue)
          /\ Members' = Members \cup {Head(Queue)}
      BY <2>4 DEF R!Register
    <3>2. CASE i = 1
      BY <2>1, <3>1, <3>2
    <3>3. CASE i # 1
      <4>1. i - 1 \in DOMAIN Queue' /\ j - 1 \in DOMAIN Queue' /\ i - 1 < j - 1
        BY <2>1, <3>1, <3>3
      <4>2. Queue'[i - 1] = Queue[i] /\ Queue'[j - 1] = Queue[j]
        BY <2>1, <3>1, <3>3, <4>1
      <4> QED
        BY <4>1, <4>2
    <3> QED
      BY <3>2, <3>3
  <2>5. CASE R!Close
    BY <2>5 DEF R!Close
  <2>6. [R!Next]_(R!vars)
    BY <1>1, NextRefines
  <2> QED
    BY <2>2, <2>3, <2>4, <2>5, <2>6
       DEF R!Next, R!vars, R!Open, R!Appear, R!Vanish, R!Leave, R!Deregister
<1>2. Invariants /\ [Next]_vars => [Step]_(R!vars)
  BY <1>1
<1> QED
  BY <1>2, InvariantsHold, PTL DEF Spec, InOrder, R!InOrder
=============================================================================
