------------------------ MODULE AppRegister_proofs ------------------------
(***************************************************************************)
(* Proofs about AppRegister, for every set of applications and             *)
(* controllers, every number of cores, every limit of the lists and every  *)
(* order of the helpers.                                                   *)
(***************************************************************************)
EXTENDS AppRegister, TLAPS

-----------------------------------------------------------------------------
(* The semaphore.                                                          *)

(* The fields of a semaphore, and what replacing two of them keeps.        *)
LEMMA SemaphoreFields ==
  ASSUME NEW s \in Semaphores(Procs)
  PROVE  /\ s.exists \in BOOLEAN /\ s.val \in Nat /\ s.adj \in [Procs -> Int]
         /\ DOMAIN s.adj = Procs
BY DEF Semaphores

(* Replacing the value and the undo counts keeps the type of a semaphore.  *)
LEMMA SemaphoreReplaced ==
  ASSUME NEW s \in Semaphores(Procs), NEW v \in Nat, NEW a \in [Procs -> Int]
  PROVE  [s EXCEPT !.val = v, !.adj = a] \in Semaphores(Procs)
BY DEF Semaphores

(* The kernel's operations keep the type, whoever calls them.              *)
LEMMA TakenType ==
  ASSUME NEW s \in Semaphores(Procs), NEW x \in Procs, CanTake(s)
  PROVE  Taken(s, x) \in Semaphores(Procs)
<1>1. s.val - 1 \in Nat /\ [s.adj EXCEPT ![x] = @ + 1] \in [Procs -> Int]
  BY SemaphoreFields DEF CanTake
<1> QED
  BY <1>1, SemaphoreReplaced DEF Taken

(* A post keeps the type of a semaphore, removed or not.                   *)
LEMMA GivenType ==
  ASSUME NEW s \in Semaphores(Procs), NEW x \in Procs
  PROVE  Given(s, x) \in Semaphores(Procs)
<1>1. s.val + 1 \in Nat /\ [s.adj EXCEPT ![x] = @ - 1] \in [Procs -> Int]
  BY SemaphoreFields
<1> QED
  BY <1>1, SemaphoreReplaced DEF Given

(* The undo of a process that ends keeps the type; it removes no           *)
(* semaphore.                                                              *)
LEMMA UndoneType ==
  ASSUME NEW s \in Semaphores(Procs), NEW x \in Procs
  PROVE  Undone(s, x) \in Semaphores(Procs) /\ Undone(s, x).exists = s.exists
<1> DEFINE v == IF s.val + s.adj[x] > 0 THEN s.val + s.adj[x] ELSE 0
           a == [s.adj EXCEPT ![x] = 0]
<1>1. v \in Nat /\ a \in [Procs -> Int]
  BY SemaphoreFields
<1>2. Undone(s, x) \in Semaphores(Procs)
  <2>1. Undone(s, x) = [s EXCEPT !.val = v, !.adj = a]
    BY Zenon DEF Undone
  <2>2. [s EXCEPT !.val = v, !.adj = a] \in Semaphores(Procs)
    <3> HIDE DEF v, a
    <3> QED
      BY <1>1, SemaphoreReplaced
  <2> QED
    BY <2>1, <2>2, Zenon
<1>3. Undone(s, x).exists = s.exists
  BY DEF Undone, Semaphores
<1> QED
  BY <1>2, <1>3

(* SETALL keeps the type, opens the semaphore and leaves no undo count.    *)
LEMMA SetToOneType ==
  ASSUME NEW s \in Semaphores(Procs)
  PROVE  /\ SetToOne(s) \in Semaphores(Procs)
         /\ SetToOne(s).exists = s.exists
         /\ SetToOne(s).val = 1
         /\ \A x \in Procs : SetToOne(s).adj[x] = 0
<1>1. [x \in DOMAIN s.adj |-> 0] \in [Procs -> Int]
  BY SemaphoreFields
<1>2. SetToOne(s) \in Semaphores(Procs)
  BY <1>1, SemaphoreReplaced DEF SetToOne
<1>3. /\ SetToOne(s).exists = s.exists
      /\ SetToOne(s).val = 1
      /\ SetToOne(s).adj = [x \in DOMAIN s.adj |-> 0]
  BY DEF SetToOne, Semaphores
<1> QED
  BY <1>2, <1>3, SemaphoreFields

(* Taking a semaphore that is closed, open or not yet opened makes the     *)
(* taker its only owner.                                                   *)
LEMMA TakenOwner ==
  ASSUME NEW s \in Semaphores(Procs), NEW x \in Procs,
         OneOwner(s) \/ Unopened(s), CanTake(s)
  PROVE  /\ OneOwner(Taken(s, x))
         /\ Taken(s, x).exists
         /\ \A y \in Procs : Owner(Taken(s, x), y) <=> y = x
         /\ \A y \in Procs : ~Owner(s, y)
<1> DEFINE t == Taken(s, x)
<1>1. s.val = 1 /\ s.exists /\ \A y \in Procs : s.adj[y] = 0
  BY SemaphoreFields DEF OneOwner, Unopened, CanTake
<1>2. /\ t.exists = s.exists /\ t.val = s.val - 1
      /\ t.adj[x] = s.adj[x] + 1
      /\ \A y \in Procs \ {x} : t.adj[y] = s.adj[y]
  BY DEF Taken, Semaphores
<1>3. DOMAIN t.adj = Procs
  BY TakenType, SemaphoreFields
<1> HIDE DEF t
<1>4. t.exists /\ t.val = 0 /\ t.adj[x] = 1 /\ \A y \in Procs \ {x} : t.adj[y] = 0
  BY <1>1, <1>2
<1>5. OneOwner(t) /\ \A y \in Procs : Owner(t, y) <=> y = x
  BY <1>3, <1>4 DEF OneOwner, Owner
<1>6. \A y \in Procs : ~Owner(s, y)
  BY <1>1 DEF Owner
<1> QED
  BY <1>4, <1>5, <1>6 DEF t

(* Giving back what the giver owns leaves an open semaphore.               *)
LEMMA GivenFree ==
  ASSUME NEW s \in Semaphores(Procs), NEW x \in Procs,
         OneOwner(s) \/ Unopened(s), Owner(s, x)
  PROVE  /\ OneOwner(Given(s, x))
         /\ s.exists /\ Given(s, x).exists
         /\ \A y \in Procs : ~Owner(Given(s, x), y)
<1> DEFINE t == Given(s, x)
<1>1. s.val = 0 /\ s.exists /\ s.adj[x] = 1 /\ \A y \in Procs \ {x} : s.adj[y] = 0
  BY SemaphoreFields DEF OneOwner, Unopened, Owner
<1>2. /\ t.exists = s.exists /\ t.val = s.val + 1
      /\ t.adj[x] = s.adj[x] - 1
      /\ \A y \in Procs \ {x} : t.adj[y] = s.adj[y]
  BY <1>1 DEF Given, Semaphores
<1>3. DOMAIN t.adj = Procs
  BY GivenType, SemaphoreFields
<1> HIDE DEF t
<1>4. t.exists /\ t.val = 1 /\ \A y \in Procs : t.adj[y] = 0
  BY <1>1, <1>2
<1>5. OneOwner(t) /\ \A y \in Procs : ~Owner(t, y)
  BY <1>3, <1>4 DEF OneOwner, Owner
<1> QED
  BY <1>1, <1>4, <1>5 DEF t

(* The undo of a process that ends takes only its own ownership away.      *)
LEMMA UndoneOwner ==
  ASSUME NEW s \in Semaphores(Procs), NEW x \in Procs,
         OneOwner(s) \/ Unopened(s)
  PROVE  /\ OneOwner(Undone(s, x)) \/ Unopened(Undone(s, x))
         /\ Unopened(s) => Unopened(Undone(s, x))
         /\ \A y \in Procs : Owner(Undone(s, x), y) <=> y # x /\ Owner(s, y)
<1> DEFINE t == Undone(s, x)
<1>1. /\ t.exists = s.exists
      /\ t.val = IF s.val + s.adj[x] > 0 THEN s.val + s.adj[x] ELSE 0
      /\ t.adj[x] = 0
      /\ \A y \in Procs \ {x} : t.adj[y] = s.adj[y]
  BY DEF Undone, Semaphores
<1>2. DOMAIN t.adj = Procs
  BY UndoneType, SemaphoreFields
<1> HIDE DEF t
<1>3. \A y \in Procs : Owner(t, y) <=> y # x /\ Owner(s, y)
  BY <1>1 DEF Owner
<1>4. CASE Owner(s, x)
  <2>1. s.val = 0 /\ s.exists /\ s.adj[x] = 1 /\ \A y \in Procs \ {x} : s.adj[y] = 0
    BY <1>4, SemaphoreFields DEF OneOwner, Unopened, Owner
  <2>2. t.exists /\ t.val = 1 /\ \A y \in Procs : t.adj[y] = 0
    BY <1>1, <2>1
  <2>3. OneOwner(t) /\ ~Unopened(s)
    BY <1>2, <2>1, <2>2, SemaphoreFields DEF OneOwner, Unopened
  <2> QED
    BY <1>3, <2>3 DEF t
<1>5. CASE ~Owner(s, x)
  <2>1. s.adj[x] = 0
    BY <1>5, SemaphoreFields DEF OneOwner, Unopened, Owner
  <2>2. t.val = s.val /\ \A y \in Procs : t.adj[y] = s.adj[y]
    BY <1>1, <2>1, SemaphoreFields
  <2>3. OneOwner(s) => OneOwner(t)
    BY <1>1, <1>2, <2>2, SemaphoreFields DEF OneOwner, Owner
  <2>4. Unopened(s) => Unopened(t)
    BY <1>2, <2>2, SemaphoreFields DEF Unopened
  <2> QED
    BY <1>3, <2>3, <2>4 DEF t
<1> QED
  BY <1>4, <1>5

-----------------------------------------------------------------------------
(* Type correctness.                                                       *)

(* What a process that ends does to the semaphores keeps their type.       *)
LEMMA AllUndoneType ==
  ASSUME TypeOK, NEW x \in Procs,
         sem' = [c \in Controllers |-> Undone(sem[c], x)]
  PROVE  sem' \in [Controllers -> Semaphores(Procs)]
<1>1. \A c \in Controllers : sem[c] \in Semaphores(Procs)
  BY DEF TypeOK
<1> QED
  BY <1>1, UndoneType

(* So do the calls of the wrappers.                                        *)
LEMMA WaitType ==
  ASSUME TypeOK, NEW x \in Procs, NEW c \in Controllers, binarySemaphoreWait(x, c)
  PROVE  sem' \in [Controllers -> Semaphores(Procs)]
<1>1. sem \in [Controllers -> Semaphores(Procs)]
  BY DEF TypeOK
<1>2. CASE CanTake(sem[c]) /\ sem' = [sem EXCEPT ![c] = Taken(@, x)]
  <2>1. Taken(sem[c], x) \in Semaphores(Procs)
    BY <1>1, <1>2, TakenType
  <2> QED
    BY <1>1, <1>2, <2>1
<1>3. CASE UNCHANGED sem
  BY <1>1, <1>3
<1> QED
  BY <1>2, <1>3 DEF binarySemaphoreWait

(* A post by a process keeps the type of all semaphores.                   *)
LEMMA PostType ==
  ASSUME TypeOK, NEW x \in Procs, NEW c \in Controllers, binarySemaphorePost(x, c)
  PROVE  sem' \in [Controllers -> Semaphores(Procs)]
<1>1. sem \in [Controllers -> Semaphores(Procs)]
  BY DEF TypeOK
<1>2. Given(sem[c], x) \in Semaphores(Procs)
  BY <1>1, GivenType
<1> QED
  BY <1>1, <1>2 DEF binarySemaphorePost

(* An application that ends leaves the process table well-typed.           *)
LEMMA DiesType ==
  ASSUME TypeOK, NEW p \in Pids, Dies(p)
  PROVE  /\ proc' \in [Pids -> {"none", "running", "zombie"}]
         /\ pc' \in [Pids -> AppPCs]
         /\ home' \in [Pids -> Controllers \cup {NoPid}]
         /\ \A q \in Pids : pc'[q] # "idle" => proc'[q] = "running" /\ home'[q] \in Controllers
         /\ spawned' \in [Pids -> Nat]
         /\ sem' \in [Controllers -> Semaphores(Procs)]
         /\ killed' \in SUBSET Pids
<1>1. sem' \in [Controllers -> Semaphores(Procs)]
  BY AllUndoneType DEF Dies, Procs
<1> QED
  BY <1>1 DEF TypeOK, Dies, AppPCs

(* The control groups stay a set of group names.                           *)
LEMMA AppsDestroyedType ==
  ASSUME TypeOK, NEW S \in SUBSET Pids, NEW G \in SUBSET (Procs \cup {MainGroup}),
         AppsDestroyed(S, G)
  PROVE  /\ cgroups' \in SUBSET (Procs \cup {MainGroup})
         /\ killed' \in SUBSET Pids
         /\ dataSeg' \in SUBSET Pids
BY DEF TypeOK, AppsDestroyed, CG!Remove

(* The lists of a register.                                                *)
LEMMA RegisterLists ==
  ASSUME TypeOK, NEW c \in Controllers
  PROVE  reg[c].newApps \in Seq(Pids) /\ reg[c].detachedApps \in Seq(Pids)
BY DEF TypeOK, Registers

(* Whatever is written to one list of one register keeps its type.         *)
LEMMA RegisterType ==
  ASSUME TypeOK, NEW c \in Controllers, NEW s \in Seq(Pids)
  PROVE  /\ [reg EXCEPT ![c].newApps = s] \in [Controllers -> Registers]
         /\ [reg EXCEPT ![c].detachedApps = s] \in [Controllers -> Registers]
<1>1. reg \in [Controllers -> Registers] /\ reg[c] \in Registers
  BY DEF TypeOK
<1>2. /\ [reg[c] EXCEPT !.newApps = s] \in Registers
      /\ [reg[c] EXCEPT !.detachedApps = s] \in Registers
  BY <1>1 DEF Registers
<1> QED
  BY <1>1, <1>2

(* Before anything runs every variable has its type.                       *)
LEMMA TypeInit == Init => TypeOK
<1> SUFFICES ASSUME Init PROVE TypeOK
  OBVIOUS
<1>1. sem \in [Controllers -> Semaphores(Procs)]
  BY DEF Init, NoSem, Semaphores
<1>2. reg \in [Controllers -> Registers]
  BY DEF Init, NoRegister, Registers
<1> QED
  BY <1>1, <1>2 DEF Init, TypeOK, AppPCs, ControllerPCs, ControllerRuns, Ended, Serving

(* A step of an application inside the client library keeps the types.     *)
LEMMA TypeAppStep ==
  ASSUME TypeOK, NEW p \in Pids, AppStep(p)
  PROVE  TypeOK'
<1> USE DEF TypeOK, AppPCs, At, Goto, Continues, appVars, ipcVars, osVars,
            policyVars, ctlVars, ControllerRuns
<1>1. CASE AttachSem(p)
  BY <1>1, DiesType DEF AttachSem, GetRegisterSem
<1>2. CASE AttachWait(p)
  BY <1>2, WaitType DEF AttachWait, WaitRegister, Procs
<1>3. CASE AttachCheck(p)
  BY <1>3, DiesType, ZenonT(60) DEF AttachCheck
<1>4. CASE AttachWrite(p)
  <2>1. home[p] \in Controllers
    BY <1>4 DEF AttachWrite
  <2>2. Append(reg[home[p]].newApps, p) \in Seq(Pids)
    BY <2>1, RegisterLists
  <2>3. reg' \in [Controllers -> Registers]
    BY <1>4, <2>1, <2>2, RegisterType DEF AttachWrite
  <2> QED
    BY <1>4, <2>3 DEF AttachWrite
<1>5. CASE AttachPost(p)
  BY <1>5, PostType DEF AttachPost, PostRegister, Procs
<1>6. CASE DetachSem(p)
  BY <1>6, DiesType DEF DetachSem, GetRegisterSem
<1>7. CASE DetachWait(p)
  BY <1>7, WaitType DEF DetachWait, WaitRegister, Procs
<1>8. CASE DetachCheck(p)
  BY <1>8, DiesType, ZenonT(60) DEF DetachCheck
<1>9. CASE DetachWrite(p)
  <2>1. home[p] \in Controllers
    BY <1>9 DEF DetachWrite
  <2>2. Append(reg[home[p]].detachedApps, p) \in Seq(Pids)
    BY <2>1, RegisterLists
  <2>3. reg' \in [Controllers -> Registers]
    BY <1>9, <2>1, <2>2, RegisterType DEF DetachWrite
  <2> QED
    BY <1>9, <2>3 DEF DetachWrite
<1>10. CASE DetachPost(p)
  BY <1>10, PostType DEF DetachPost, PostRegister, Procs
<1>11. CASE DetachData(p)
  BY <1>11 DEF DetachData
<1> QED
  BY <1>1, <1>2, <1>3, <1>4, <1>5, <1>6, <1>7, <1>8, <1>9, <1>10, <1>11 DEF AppStep

(* So does what applications, users and the derived class do.              *)
LEMMA TypeEnvironment ==
  ASSUME TypeOK, Environment
  PROVE  TypeOK'
<1> USE DEF TypeOK, AppPCs, ControllerPCs, Ended, Serving, ControllerRuns, At,
            Goto, Continues, appVars, ipcVars, osVars, policyVars, ctlVars
<1>1. ASSUME NEW p \in Pids, Spawn(p) PROVE TypeOK'
  BY <1>1 DEF Spawn
<1>2. ASSUME NEW p \in Pids, Crash(p) PROVE TypeOK'
  BY <1>2, DiesType DEF Crash
<1>3. ASSUME NEW p \in Pids, Reap(p) PROVE TypeOK'
  BY <1>3 DEF Reap
<1>4. ASSUME NEW p \in Pids, AttachCreate(p) PROVE TypeOK'
  <2>1. ctl \in Controllers
    BY <1>4 DEF AttachCreate, CreateData
  <2> QED
    BY <1>4, <2>1 DEF AttachCreate, CreateData
<1>5. ASSUME NEW p \in Pids, AttachRefused(p) PROVE TypeOK'
  BY <1>5, DiesType DEF AttachRefused
<1>6. ASSUME NEW p \in Pids, DetachBegin(p) PROVE TypeOK'
  <2>1. ControllerRuns => ctl \in Controllers
    BY DEF DetachBegin
  <2>2. CASE ControllerRuns
    BY <1>6, <2>1, <2>2 DEF DetachBegin
  <2>3. CASE ~ControllerRuns
    BY <1>6, <2>3, DiesType DEF DetachBegin
  <2> QED
    BY <2>2, <2>3
<1>7. ASSUME NEW p \in Pids, NEW k \in Cores, AssignCore(p, k) PROVE TypeOK'
  BY <1>7 DEF AssignCore
<1>8. ASSUME NEW c \in Controllers, Start(c) PROVE TypeOK'
  BY <1>8 DEF Start
<1>9. CASE ControllerCrash
  <2>1. sem' \in [Controllers -> Semaphores(Procs)]
    BY <1>9, AllUndoneType DEF ControllerCrash, ControllerEnds, Procs
  <2> QED
    BY <1>9, <2>1 DEF ControllerCrash, ControllerEnds
<1>10. CASE DestroyBegin
  <2>1. sem' \in [Controllers -> Semaphores(Procs)]
    BY <1>10, WaitType DEF DestroyBegin, Lock, ControllerGoto, Procs
  <2> QED
    BY <1>10, <2>1 DEF DestroyBegin, Lock, ControllerGoto
<1> QED
  BY <1>1, <1>2, <1>3, <1>4, <1>5, <1>6, <1>7, <1>8, <1>9, <1>10 DEF Environment

(* The next helper of run() starts with well-typed locals.                 *)
LEMMA EnterPhaseType ==
  ASSUME TypeOK, NEW n \in Nat \ {0}, EnterPhase(n)
  PROVE  loop' \in [phase : Nat \ {0}, i : Nat, todo : SUBSET Pids]
BY DEF TypeOK, EnterPhase

(* Erasing an App keeps the types of the map, the cores and the groups.    *)
LEMMA DeregisterType ==
  ASSUME TypeOK, NEW p \in Pids, Deregister(p)
  PROVE  /\ registered' \in SUBSET Pids
         /\ cores' \in [Pids -> SUBSET Cores]
         /\ freeCores' \in [Cores -> Nat]
         /\ cgroups' \in SUBSET (Procs \cup {MainGroup})
         /\ killed' \in SUBSET Pids
         /\ dataSeg' \in SUBSET Pids
<1>1. cgroups \in SUBSET (Procs \cup {MainGroup}) /\ {p} \in SUBSET Pids
  BY DEF TypeOK
<1>2. /\ cgroups' \in SUBSET (Procs \cup {MainGroup})
      /\ killed' \in SUBSET Pids
      /\ dataSeg' \in SUBSET Pids
  BY <1>1, AppsDestroyedType DEF Deregister
<1>3. freeCores' \in [Cores -> Nat]
  BY DEF TypeOK, Deregister
<1>4. registered' \in SUBSET Pids /\ cores' \in [Pids -> SUBSET Cores]
  BY DEF TypeOK, Deregister
<1> QED
  BY <1>2, <1>3, <1>4

(* The steps of Policy::Policy keep the types.                             *)
LEMMA TypeBoot ==
  ASSUME TypeOK, Boot
  PROVE  TypeOK'
<1> USE DEF ControllerPCs, Ended, Serving, ControllerRuns,
            appVars, ipcVars, osVars, policyVars, ctlVars
<1>1. cpc \notin Ended => ctl \in Controllers
  BY DEF TypeOK
<1>2. CASE SemaphoreCreate
  <2>1. Created(Procs) \in Semaphores(Procs)
    BY DEF Created, Semaphores
  <2> QED
    BY <1>2, <2>1 DEF SemaphoreCreate, ControllerGoto, TypeOK
<1>3. CASE SemaphoreInit
  <2>1. SetToOne(sem[ctl]) \in Semaphores(Procs)
    BY <1>1, <1>3, SetToOneType DEF SemaphoreInit, ControllerGoto, TypeOK
  <2> QED
    BY <1>3, <2>1 DEF SemaphoreInit, ControllerGoto, TypeOK
<1>4. CASE BootLock
  <2>1. sem' \in [Controllers -> Semaphores(Procs)]
    BY <1>1, <1>4, WaitType DEF BootLock, Lock, ControllerGoto, Procs
  <2> QED
    BY <1>4, <2>1 DEF BootLock, Lock, ControllerGoto, TypeOK
<1>5. CASE RegisterCreate
  <2>1. [NoRegister EXCEPT !.exists = TRUE] \in Registers
    <3>1. NoRegister \in Registers
      BY DEF NoRegister, Registers
    <3> QED
      BY <3>1 DEF Registers
  <2> QED
    BY <1>5, <2>1 DEF RegisterCreate, ControllerGoto, TypeOK
<1>6. CASE BootUnlock
  <2>1. sem' \in [Controllers -> Semaphores(Procs)]
    BY <1>1, <1>6, PostType DEF BootUnlock, Unlock, ControllerGoto, Procs
  <2> QED
    BY <1>6, <2>1 DEF BootUnlock, Unlock, ControllerGoto, TypeOK
<1>7. CASE SetupGroups
  <2>1. ctl \in Procs /\ cgroups \in SUBSET (Procs \cup {MainGroup})
    BY <1>1, <1>7 DEF SetupGroups, TypeOK, Procs
  <2>2. cgroups' \in SUBSET (Procs \cup {MainGroup})
    BY <1>7, <2>1 DEF SetupGroups, CG!Setup, CG!Initialize, CG!Outcome
  <2>3. sem' \in [Controllers -> Semaphores(Procs)]
    BY <1>7, <2>1, AllUndoneType DEF SetupGroups, ControllerEnds, TypeOK
  <2>4. cpc' \in {"idle", "failed"}
    BY <1>7 DEF SetupGroups, ControllerEnds
  <2> QED
    BY <1>7, <2>2, <2>3, <2>4 DEF SetupGroups, TypeOK
<1> QED
  BY <1>2, <1>3, <1>4, <1>5, <1>6, <1>7 DEF Boot

(* The index of a helper's loop is incremented.                            *)
LEMMA LoopNextType ==
  ASSUME TypeOK
  PROVE  [loop EXCEPT !.i = @ + 1] \in [phase : Nat \ {0}, i : Nat, todo : SUBSET Pids]
BY DEF TypeOK

(* A helper that returns has emptied one of the lists, or neither.         *)
LEMMA HelperReturnsType ==
  ASSUME TypeOK, NEW r \in [Controllers -> Registers], HelperReturns(r)
  PROVE  TypeOK'
<1>1. loop' \in [phase : Nat \ {0}, i : Nat, todo : SUBSET Pids]
  <2>1. loop.phase + 1 \in Nat \ {0}
    BY DEF TypeOK
  <2> QED
    BY <2>1, EnterPhaseType DEF HelperReturns
<1> QED
  BY <1>1 DEF TypeOK, HelperReturns, ControllerRuns, appVars, osVars, policyVars

(* The steps of a cycle of run() keep the types.                           *)
LEMMA TypeRun ==
  ASSUME TypeOK, Run
  PROVE  TypeOK'
<1> USE DEF ControllerPCs, Ended, Serving, ControllerRuns,
            appVars, ipcVars, osVars, policyVars, ctlVars
<1>1. cpc \notin Ended => ctl \in Controllers
  BY DEF TypeOK
<1>2. CASE RunBegin
  <2>1. sem' \in [Controllers -> Semaphores(Procs)]
    BY <1>1, <1>2, WaitType DEF RunBegin, Lock, ControllerGoto, Procs
  <2>2. loop' \in [phase : Nat \ {0}, i : Nat, todo : SUBSET Pids]
    BY <1>2, EnterPhaseType DEF RunBegin
  <2> QED
    BY <1>2, <2>1, <2>2 DEF RunBegin, Lock, ControllerGoto, TypeOK
<1>3. ASSUME NEW p \in Pids, DeregisterDeadApp(p) PROVE TypeOK'
  <2>1. loop' \in [phase : Nat \ {0}, i : Nat, todo : SUBSET Pids]
    BY <1>3 DEF DeregisterDeadApp, TypeOK
  <2>2. CASE isAppRunning(p)
    BY <1>3, <2>1, <2>2 DEF DeregisterDeadApp, TypeOK
  <2>3. CASE ~isAppRunning(p)
    BY <1>3, <2>1, <2>3, DeregisterType DEF DeregisterDeadApp, TypeOK
  <2> QED
    BY <2>2, <2>3
<1>4. CASE DeadAppsDone
  <2>1. reg \in [Controllers -> Registers]
    BY DEF TypeOK
  <2> QED
    BY <1>4, <2>1, HelperReturnsType DEF DeadAppsDone
<1>5. CASE DeregisterDetachedApp
  <2> DEFINE p == reg[ctl].detachedApps[loop.i + 1]
  <2>1. p \in Pids
    <3>1. reg[ctl].detachedApps \in Seq(Pids) /\ loop.i \in Nat
      BY <1>1, <1>5, RegisterLists DEF DeregisterDetachedApp, TypeOK
    <3> QED
      BY <1>5, <3>1 DEF DeregisterDetachedApp
  <2>2. CASE p \in registered
    <3>1. loop' \in [phase : Nat \ {0}, i : Nat, todo : SUBSET Pids]
      BY <1>5, <2>2, LoopNextType DEF DeregisterDetachedApp
    <3>2. Deregister(p) /\ UNCHANGED <<sem, cpc>>
      BY <1>5, <2>2 DEF DeregisterDetachedApp
    <3> HIDE DEF p
    <3> QED
      BY <1>5, <2>1, <3>1, <3>2, DeregisterType DEF DeregisterDetachedApp, TypeOK
  <2>3. CASE p \notin registered
    <3>1. sem' \in [Controllers -> Semaphores(Procs)]
      BY <1>1, <1>5, <2>3, AllUndoneType
         DEF DeregisterDetachedApp, ControllerEnds, Procs
    <3> QED
      BY <1>5, <2>3, <3>1 DEF DeregisterDetachedApp, ControllerEnds, TypeOK
  <2> QED
    BY <2>2, <2>3
<1>6. CASE DetachedAppsDone
  <2>1. [reg EXCEPT ![ctl].detachedApps = <<>>] \in [Controllers -> Registers]
    <3>1. <<>> \in Seq(Pids) /\ ctl \in Controllers
      BY <1>1, <1>6 DEF DetachedAppsDone
    <3> QED
      BY <3>1, RegisterType
  <2> QED
    BY <1>6, <2>1, HelperReturnsType DEF DetachedAppsDone
<1>7. CASE RegisterNewApp
  <2> DEFINE p == reg[ctl].newApps[loop.i + 1]
  <2>1. p \in Pids
    <3>1. reg[ctl].newApps \in Seq(Pids) /\ loop.i \in Nat
      BY <1>1, <1>7, RegisterLists DEF RegisterNewApp, TypeOK
    <3> QED
      BY <1>7, <3>1 DEF RegisterNewApp
  <2> HIDE DEF p
  <2>2. PICK own \in AppConstructed(p) :
          IF own.ok
             THEN /\ AppsDestroyed({p} \cap registered, own.groups)
                  /\ registered' = registered \cup {p}
                  /\ cores' = [cores EXCEPT ![p] = {}]
                  /\ loop' = [loop EXCEPT !.i = @ + 1]
                  /\ UNCHANGED <<sem, cpc, freeCores>>
             ELSE /\ ControllerEnds("failed")
                  /\ cgroups' = own.groups
                  /\ UNCHANGED <<dataSeg, killed, policyVars, loop>>
    BY <1>7 DEF RegisterNewApp, p
  <2>3. own.groups \in SUBSET (Procs \cup {MainGroup})
    BY <2>1 DEF AppConstructed, CG!Initialize, CG!Outcome, TypeOK, Procs
  <2>4. CASE own.ok
    <3>1. loop' \in [phase : Nat \ {0}, i : Nat, todo : SUBSET Pids]
      BY <2>2, <2>4, LoopNextType
    <3>2. {p} \cap registered \in SUBSET Pids
      BY <2>1
    <3>3. /\ cgroups' \in SUBSET (Procs \cup {MainGroup})
          /\ killed' \in SUBSET Pids
          /\ dataSeg' \in SUBSET Pids
      BY <2>2, <2>3, <2>4, <3>2, AppsDestroyedType
    <3>4. /\ registered' \in SUBSET Pids
          /\ cores' \in [Pids -> SUBSET Cores]
          /\ UNCHANGED <<sem, cpc, freeCores>>
      BY <2>1, <2>2, <2>4 DEF TypeOK
    <3>5. UNCHANGED <<appVars, reg, dataSem, ctl, started>>
      BY <1>7 DEF RegisterNewApp
    <3> QED
      BY <3>1, <3>3, <3>4, <3>5 DEF TypeOK
  <2>5. CASE ~own.ok
    <3>1. sem' \in [Controllers -> Semaphores(Procs)]
      BY <1>1, <1>7, <2>2, <2>5, AllUndoneType
         DEF RegisterNewApp, ControllerEnds, Procs
    <3> QED
      BY <1>7, <2>2, <2>3, <2>5, <3>1 DEF RegisterNewApp, ControllerEnds, TypeOK
  <2> QED
    BY <2>4, <2>5
<1>8. CASE NewAppsDone
  <2>1. [reg EXCEPT ![ctl].newApps = <<>>] \in [Controllers -> Registers]
    <3>1. <<>> \in Seq(Pids) /\ ctl \in Controllers
      BY <1>1, <1>8 DEF NewAppsDone
    <3> QED
      BY <3>1, RegisterType
  <2> QED
    BY <1>8, <2>1, HelperReturnsType DEF NewAppsDone
<1>9. CASE RunEnd
  <2>1. sem' \in [Controllers -> Semaphores(Procs)]
    BY <1>1, <1>9, PostType DEF RunEnd, Unlock, ControllerGoto, Procs
  <2> QED
    BY <1>9, <2>1 DEF RunEnd, Unlock, ControllerGoto, TypeOK
<1> QED
  BY <1>2, <1>3, <1>4, <1>5, <1>6, <1>7, <1>8, <1>9 DEF Run

(* The steps of Policy::~Policy keep the types.                            *)
LEMMA TypeDestroy ==
  ASSUME TypeOK, Destroy
  PROVE  TypeOK'
<1> USE DEF ControllerPCs, Ended, Serving, ControllerRuns,
            appVars, ipcVars, osVars, policyVars, ctlVars
<1>1. cpc \notin Ended => ctl \in Controllers
  BY DEF TypeOK
<1>2. CASE RegisterDestroy
  <2>1. sem' \in [Controllers -> Semaphores(Procs)]
    BY <1>1, <1>2, AllUndoneType DEF RegisterDestroy, ControllerEnds, TypeOK, Procs
  <2>2. reg' \in [Controllers -> Registers]
    <3>1. NoRegister \in Registers
      BY DEF NoRegister, Registers
    <3> QED
      BY <1>2, <3>1 DEF RegisterDestroy, TypeOK
  <2>3. cpc' \in {"destroyUnlock", "crashed"}
    BY <1>2 DEF RegisterDestroy, ControllerEnds
  <2> QED
    BY <1>1, <1>2, <2>1, <2>2, <2>3 DEF RegisterDestroy, TypeOK
<1>3. CASE DestroyUnlock
  <2>1. sem' \in [Controllers -> Semaphores(Procs)]
    BY <1>1, <1>3, PostType DEF DestroyUnlock, Unlock, ControllerGoto, Procs
  <2> QED
    BY <1>3, <2>1 DEF DestroyUnlock, Unlock, ControllerGoto, TypeOK
<1>4. CASE SemaphoreDestroy
  <2>1. NoSem(Procs) \in Semaphores(Procs)
    BY DEF NoSem, Semaphores
  <2> QED
    BY <1>4, <2>1 DEF SemaphoreDestroy, ControllerGoto, TypeOK
<1>5. CASE GroupsDestroy
  <2>1. cgroups' \in SUBSET (cgroups \cup {MainGroup})
    BY <1>5 DEF GroupsDestroy, CG!Remove, CG!Destroy
  <2> QED
    BY <1>5, <2>1 DEF GroupsDestroy, ControllerGoto, TypeOK
<1>6. ASSUME NEW p \in Pids, DropApp(p) PROVE TypeOK'
  <2>1. {p} \in SUBSET Pids /\ cgroups \in SUBSET (Procs \cup {MainGroup})
    BY DEF TypeOK
  <2> QED
    BY <1>6, <2>1, AppsDestroyedType DEF DropApp, TypeOK
<1>7. CASE DestroyEnd
  <2>1. sem' \in [Controllers -> Semaphores(Procs)]
    BY <1>1, <1>7, AllUndoneType DEF DestroyEnd, ControllerEnds, Procs
  <2> QED
    BY <1>7, <2>1 DEF DestroyEnd, ControllerEnds, TypeOK
<1> QED
  BY <1>2, <1>3, <1>4, <1>5, <1>6, <1>7 DEF Destroy

(* TypeOK is inductive: every step keeps it.                               *)
LEMMA TypeNext == TypeOK /\ [Next]_vars => TypeOK'
<1> SUFFICES ASSUME TypeOK, [Next]_vars PROVE TypeOK'
  OBVIOUS
<1>1. CASE Next
  BY <1>1, TypeEnvironment, TypeAppStep, TypeBoot, TypeRun, TypeDestroy
     DEF Next, ControllerStep
<1>2. CASE UNCHANGED vars
  BY <1>2 DEF TypeOK, ControllerRuns, vars, appVars, ipcVars, osVars, ctlVars, policyVars
<1> QED
  BY <1>1, <1>2

(* In every run of the protocol every variable has its type; in            *)
(* particular a call in progress belongs to a running process that knows   *)
(* a controller, whatever processes died or were restarted.                *)
THEOREM TypeCorrect == Spec => []TypeOK
BY TypeInit, TypeNext, PTL DEF Spec
=============================================================================
