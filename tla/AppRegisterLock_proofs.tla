---------------------- MODULE AppRegisterLock_proofs ----------------------
(***************************************************************************)
(* Mutual exclusion on the app_register, for every set of applications and *)
(* of controllers, as long as no signal handler interrupts a waiting semop *)
(* (see the assumption Uninterrupted); the inductive invariant is LockInv  *)
(* of AppRegister.  Then, with or without interrupted waits, that no death *)
(* leaves it locked; then that its arrays are not overrun.                 *)
(***************************************************************************)
EXTENDS AppRegister_proofs, SumTheorems

(* The waits of the library fail only when the semaphore is removed.       *)
Uninterrupted == ~Interruptible

(* The facts of LockInv about one controller's semaphore.                  *)
LEMMA SemaphoreAt ==
  ASSUME TypeOK, LockInv, NEW c \in Controllers
  PROVE  /\ sem[c] \in Semaphores(Procs)
         /\ OneOwner(sem[c]) \/ Unopened(sem[c])
BY DEF TypeOK, LockInv, SemaphoreState

(* A semaphore with an owner exists and has no other owner.                *)
LEMMA OwnerUnique ==
  ASSUME TypeOK, LockInv, NEW c \in Controllers, NEW x \in Procs, Owner(sem[c], x)
  PROVE  /\ sem[c].exists
         /\ \A y \in Procs : Owner(sem[c], y) => y = x
<1>1. sem[c].adj[x] = 1 /\ DOMAIN sem[c].adj = Procs
  BY SemaphoreAt, SemaphoreFields DEF Owner
<1>2. OneOwner(sem[c])
  BY <1>1, SemaphoreAt DEF Unopened
<1> QED
  BY <1>1, <1>2 DEF OneOwner, Owner

(* LockInv implies the property the runs check.                            *)
LEMMA LockInvExclusion == TypeOK /\ LockInv => MutualExclusion
<1> SUFFICES ASSUME TypeOK, LockInv, NEW c \in Controllers
             PROVE  /\ \A x, y \in Procs : Accessing(x, c) /\ Accessing(y, c) => x = y
                    /\ \A p \in Pids :
                         AppLocked(p, c) /\ pc[p] \notin CheckPCs => reg[c].exists
  BY DEF MutualExclusion
<1>1. ASSUME NEW x \in Procs, Accessing(x, c) PROVE Owner(sem[c], x)
  BY <1>1 DEF Accessing, LockInv, LockedOwn, RegisterHasSemaphore
<1>2. \A x, y \in Procs : Accessing(x, c) /\ Accessing(y, c) => x = y
  BY <1>1, OwnerUnique
<1> QED
  BY <1>2 DEF LockInv, WritersSeeRegister

(* Before anything runs LockInv holds: no semaphore exists.                *)
LEMMA LockInit == Init => LockInv
<1> SUFFICES ASSUME Init PROVE LockInv
  OBVIOUS
<1>1. \A c \in Controllers :
        /\ ~sem[c].exists /\ sem[c].val = 0
        /\ DOMAIN sem[c].adj = Procs /\ \A x \in Procs : sem[c].adj[x] = 0
  BY DEF Init, NoSem
<1>2. \A c \in Controllers : Unopened(sem[c]) /\ \A x \in Procs : ~Owner(sem[c], x)
  BY <1>1 DEF Unopened, Owner
<1>3. \A c \in Controllers, x \in Procs : ~Locked(x, c)
  BY DEF Init, Locked, AppLocked, ControllerLocked, ControllerLockedPCs
<1>4. SemaphoreState /\ OwnersLocked /\ LockedOwn
  BY <1>2, <1>3 DEF SemaphoreState, OwnersLocked, LockedOwn
<1>5. WritersSeeRegister
  BY DEF Init, WritersSeeRegister, AppLocked
<1>6. RegisterHasSemaphore
  BY DEF Init, RegisterHasSemaphore, NoRegister
<1>7. BootState
  BY <1>1, PidsAssumption DEF Init, BootState, Procs
<1>8. ControllerState
  BY DEF Init, ControllerState, OpenedPCs, ControllerLockedPCs, Serving
<1> QED
  BY <1>4, <1>5, <1>6, <1>7, <1>8 DEF LockInv

-----------------------------------------------------------------------------
(* Kinds of steps.                                                         *)

(* Nothing that matters to the lock moves.                                 *)
LEMMA LockStutter ==
  ASSUME TypeOK, LockInv,
         UNCHANGED <<sem, pc, home, ctl, cpc, started>>,
         \A c \in Controllers : reg'[c].exists = reg[c].exists,
         \A p \in Pids : pc[p] # "idle" => (proc'[p] = "running" <=> proc[p] = "running")
  PROVE  LockInv'
<1>1. \A c \in Controllers, p \in Pids : AppLocked(p, c)' <=> AppLocked(p, c)
  BY DEF AppLocked, LockedPCs, CheckPCs
<1>2. \A c \in Controllers, x \in Procs : Locked(x, c)' <=> Locked(x, c)
  BY <1>1 DEF Locked, ControllerLocked
<1>3. (SemaphoreState /\ OwnersLocked /\ LockedOwn)'
  BY <1>2 DEF LockInv, SemaphoreState, OwnersLocked, LockedOwn
<1>4. (WritersSeeRegister /\ RegisterHasSemaphore)'
  BY <1>1 DEF LockInv, WritersSeeRegister, RegisterHasSemaphore
<1>5. BootState' /\ ControllerState'
  BY DEF LockInv, BootState, NotBooted, ControllerState, TypeOK, OpenedPCs,
         ControllerLockedPCs, Serving, ControllerRuns, Ended
<1> QED
  BY <1>3, <1>4, <1>5 DEF LockInv

(* Application p moves from one place outside the lock to another.         *)
LEMMA OutsideMoves ==
  ASSUME TypeOK, LockInv, NEW p \in Pids,
         pc[p] \notin LockedPCs, pc'[p] \notin LockedPCs,
         \A q \in Pids \ {p} : pc'[q] = pc[q] /\ home'[q] = home[q],
         UNCHANGED <<proc, sem, reg, ctl, cpc, started>>,
         \A c \in Controllers :
           NotBooted(c) /\ home'[p] = c
             => c \in started /\ pc'[p] \in {"attachSem", "detachSem"}
  PROVE  LockInv'
<1>1. \A c \in Controllers, q \in Pids : AppLocked(q, c)' <=> AppLocked(q, c)
  BY DEF AppLocked
<1>2. \A c \in Controllers, x \in Procs : Locked(x, c)' <=> Locked(x, c)
  BY <1>1 DEF Locked, ControllerLocked
<1>3. \A c \in Controllers, q \in Pids : AppLocked(q, c) => pc'[q] = pc[q]
  BY DEF AppLocked
<1>4. SemaphoreState' /\ OwnersLocked'
  BY <1>2 DEF LockInv, SemaphoreState, OwnersLocked
<1>5. LockedOwn'
  <2> SUFFICES ASSUME NEW c \in Controllers, NEW x \in Procs, Locked(x, c)
               PROVE  \/ Owner(sem[c], x)
                      \/ x \in Pids /\ pc'[x] \in CheckPCs /\ ~sem[c].exists
    BY <1>2 DEF LockedOwn
  <2>1. x \in Pids => pc'[x] = pc[x]
    BY <1>3 DEF Locked
  <2> QED
    BY <2>1 DEF LockInv, LockedOwn
<1>6. WritersSeeRegister' /\ RegisterHasSemaphore'
  BY <1>1, <1>3 DEF LockInv, WritersSeeRegister, RegisterHasSemaphore
<1>7. BootState'
  <2> SUFFICES ASSUME NEW c \in Controllers, NotBooted(c)
               PROVE  /\ ~sem[c].exists
                      /\ \A q \in Pids :
                           home'[q] = c => c \in started /\ pc'[q] \in {"attachSem", "detachSem"}
    BY DEF BootState, NotBooted
  <2> QED
    BY DEF LockInv, BootState
<1>8. ControllerState'
  BY DEF LockInv, ControllerState
<1> QED
  BY <1>4, <1>5, <1>6, <1>7, <1>8 DEF LockInv

(* Application p goes on inside the lock, having found the register.       *)
LEMMA InsideMoves ==
  ASSUME TypeOK, LockInv, NEW p \in Pids, NEW l \in LockedPCs \ CheckPCs,
         proc[p] = "running", pc[p] \in LockedPCs, Goto(p, l),
         reg[home[p]].exists,
         UNCHANGED <<proc, home, sem, ctl, cpc, started>>,
         \A c \in Controllers : reg'[c].exists = reg[c].exists
  PROVE  LockInv'
<1>1. home[p] \in Controllers /\ pc'[p] = l /\ \A q \in Pids \ {p} : pc'[q] = pc[q]
  BY DEF TypeOK, LockedPCs, CheckPCs, Goto
<1>2. \A c \in Controllers, q \in Pids : AppLocked(q, c)' <=> AppLocked(q, c)
  BY <1>1 DEF AppLocked
<1>3. \A c \in Controllers, x \in Procs : Locked(x, c)' <=> Locked(x, c)
  BY <1>2 DEF Locked, ControllerLocked
<1>4. SemaphoreState' /\ OwnersLocked'
  BY <1>3 DEF LockInv, SemaphoreState, OwnersLocked
<1>5. LockedOwn'
  <2> SUFFICES ASSUME NEW c \in Controllers, NEW x \in Procs, Locked(x, c)
               PROVE  \/ Owner(sem[c], x)
                      \/ x \in Pids /\ pc'[x] \in CheckPCs /\ ~sem[c].exists
    BY <1>3 DEF LockedOwn
  <2>1. CASE x = p
    <3>1. c = home[p]
      BY <2>1 DEF Locked, AppLocked
    <3>2. sem[c].exists
      BY <3>1, <1>1 DEF LockInv, RegisterHasSemaphore
    <3> QED
      BY <3>2 DEF LockInv, LockedOwn
  <2>2. CASE x # p
    BY <1>1, <2>2 DEF LockInv, LockedOwn
  <2> QED
    BY <2>1, <2>2
<1>6. WritersSeeRegister'
  BY <1>1, <1>2 DEF LockInv, WritersSeeRegister, AppLocked
<1>7. RegisterHasSemaphore' /\ ControllerState'
  BY DEF LockInv, RegisterHasSemaphore, ControllerState, TypeOK, ControllerRuns,
         OpenedPCs, ControllerLockedPCs, Serving, Ended
<1>8. BootState'
  BY <1>1 DEF LockInv, BootState, NotBooted, LockedPCs, CheckPCs
<1> QED
  BY <1>4, <1>5, <1>6, <1>7, <1>8 DEF LockInv

(* A process x ends: the kernel's undos take its ownership away, and only  *)
(* that.  The caller shows who is still inside.                            *)
LEMMA UndoneState ==
  ASSUME TypeOK, LockInv, NEW x \in Procs,
         sem' = [c \in Controllers |-> Undone(sem[c], x)]
  PROVE  /\ SemaphoreState'
         /\ \A c \in Controllers :
              /\ sem'[c].exists = sem[c].exists
              /\ Unopened(sem[c]) => Unopened(sem'[c])
              /\ \A y \in Procs : Owner(sem'[c], y) <=> y # x /\ Owner(sem[c], y)
BY SemaphoreAt, UndoneType, UndoneOwner DEF SemaphoreState

(* The death of an application, wherever it is, keeps LockInv.             *)
LEMMA DiesLock ==
  ASSUME TypeOK, LockInv, NEW p \in Pids, Dies(p),
         UNCHANGED <<reg, ctl, cpc, started>>
  PROVE  LockInv'
<1>1. /\ proc'[p] = "zombie" /\ pc'[p] = "idle" /\ home'[p] = NoPid
      /\ \A q \in Pids \ {p} : proc'[q] = proc[q] /\ pc'[q] = pc[q] /\ home'[q] = home[q]
  BY DEF Dies, TypeOK
<1>2. /\ SemaphoreState'
      /\ \A c \in Controllers :
           /\ sem'[c].exists = sem[c].exists
           /\ Unopened(sem[c]) => Unopened(sem'[c])
           /\ \A y \in Procs : Owner(sem'[c], y) <=> y # p /\ Owner(sem[c], y)
  BY UndoneState DEF Dies, Procs
<1>3. \A c \in Controllers, x \in Procs : Locked(x, c)' <=> x # p /\ Locked(x, c)
  BY <1>1 DEF Locked, AppLocked, ControllerLocked
<1>4. OwnersLocked'
  BY <1>2, <1>3 DEF LockInv, OwnersLocked
<1>5. LockedOwn'
  BY <1>1, <1>2, <1>3 DEF LockInv, LockedOwn
<1>6. WritersSeeRegister'
  BY <1>1 DEF LockInv, WritersSeeRegister, AppLocked
<1>7. RegisterHasSemaphore'
  BY <1>2 DEF LockInv, RegisterHasSemaphore
<1>8. BootState'
  BY <1>1, <1>2, PidsAssumption DEF LockInv, BootState, NotBooted, Procs
<1>9. ControllerState'
  BY <1>2 DEF LockInv, ControllerState, TypeOK, ControllerRuns, Ended,
              OpenedPCs, ControllerLockedPCs, Serving
<1> QED
  BY <1>2, <1>4, <1>5, <1>6, <1>7, <1>8, <1>9 DEF LockInv

(* The end of the controller, wherever it is, keeps LockInv.               *)
LEMMA ControllerEndsLock ==
  ASSUME TypeOK, LockInv, ctl \in Controllers, NEW e \in Ended, ControllerEnds(e),
         UNCHANGED <<proc, pc, home, reg, ctl, started>>
  PROVE  LockInv'
<1>1. ctl \in Procs /\ ctl \notin Pids /\ cpc' = e
  BY PidsAssumption DEF Procs, ControllerEnds
<1>2. /\ SemaphoreState'
      /\ \A c \in Controllers :
           /\ sem'[c].exists = sem[c].exists
           /\ Unopened(sem[c]) => Unopened(sem'[c])
           /\ \A y \in Procs : Owner(sem'[c], y) <=> y # ctl /\ Owner(sem[c], y)
  BY <1>1, UndoneState DEF ControllerEnds
<1>3. \A c \in Controllers, x \in Procs : Locked(x, c)' <=> x \in Pids /\ Locked(x, c)
  BY <1>1 DEF Locked, AppLocked, ControllerLocked, ControllerLockedPCs, Ended
<1>4. \A c \in Controllers, x \in Procs : Locked(x, c) => x \in Pids \/ x = ctl
  BY DEF Locked, ControllerLocked
<1>5. OwnersLocked' /\ LockedOwn'
  BY <1>1, <1>2, <1>3, <1>4 DEF LockInv, OwnersLocked, LockedOwn
<1>6. WritersSeeRegister' /\ RegisterHasSemaphore'
  BY <1>2 DEF LockInv, WritersSeeRegister, AppLocked, RegisterHasSemaphore
<1>7. BootState'
  BY <1>1, <1>2 DEF LockInv, BootState, NotBooted, Ended
<1>8. ControllerState'
  BY <1>1 DEF ControllerState, Ended, OpenedPCs, ControllerLockedPCs, Serving
<1> QED
  BY <1>2, <1>5, <1>6, <1>7, <1>8 DEF LockInv

(* Application p returns from its wait: it is the owner, or the semaphore  *)
(* has been removed.                                                       *)
LEMMA AppWaits ==
  ASSUME Uninterrupted, TypeOK, LockInv, NEW p \in Pids, NEW l \in CheckPCs,
         proc[p] = "running", pc[p] \in {"attachWait", "detachWait"}, WaitRegister(p, l)
  PROVE  LockInv'
<1> DEFINE h == home[p]
<1>1. /\ h \in Controllers /\ p \in Procs
      /\ pc'[p] = l /\ \A q \in Pids \ {p} : pc'[q] = pc[q]
      /\ UNCHANGED <<proc, home, reg, ctl, cpc, started>>
  BY DEF TypeOK, WaitRegister, Goto, Procs, ctlVars
<1>2. \A c \in Controllers, x \in Procs :
        Locked(x, c)' <=> Locked(x, c) \/ (x = p /\ c = h)
  BY <1>1 DEF Locked, AppLocked, ControllerLocked, LockedPCs
<1>3. /\ SemaphoreState'
      /\ \A c \in Controllers :
           /\ sem'[c].exists = sem[c].exists
           /\ c # h => sem'[c] = sem[c]
      /\ \/ sem' = sem /\ ~sem[h].exists
         \/ /\ sem[h].exists /\ ~Unopened(sem[h])
            /\ \A y \in Procs : ~Owner(sem[h], y)
            /\ \A y \in Procs : Owner(sem'[h], y) <=> y = p
  <2>1. CASE CanTake(sem[h]) /\ sem' = [sem EXCEPT ![h] = Taken(@, p)]
    <3>1. /\ OneOwner(Taken(sem[h], p)) /\ Taken(sem[h], p).exists
          /\ \A y \in Procs : Owner(Taken(sem[h], p), y) <=> y = p
          /\ \A y \in Procs : ~Owner(sem[h], y)
      BY <1>1, <2>1, SemaphoreAt, TakenOwner
    <3>2. sem[h].exists /\ ~Unopened(sem[h])
      BY <1>1, <2>1, SemaphoreAt, SemaphoreFields DEF CanTake, Unopened
    <3>3. /\ sem'[h] = Taken(sem[h], p)
          /\ \A c \in Controllers \ {h} : sem'[c] = sem[c]
      BY <1>1, <2>1 DEF TypeOK
    <3>4. SemaphoreState'
      BY <3>1, <3>3 DEF SemaphoreState, LockInv
    <3>5. \A c \in Controllers :
            /\ sem'[c].exists = sem[c].exists
            /\ c # h => sem'[c] = sem[c]
      <4>1. sem[h].exists = TRUE
        BY <1>1, <3>2, SemaphoreAt, SemaphoreFields
      <4>2. Taken(sem[h], p).exists = TRUE
        BY <1>1, <2>1, <3>1, SemaphoreAt, TakenType, SemaphoreFields
      <4> QED
        BY <3>3, <4>1, <4>2
    <3>6. \A y \in Procs : Owner(sem'[h], y) <=> y = p
      BY <3>1, <3>3
    <3> QED
      BY <3>1, <3>2, <3>4, <3>5, <3>6
  <2>2. CASE ~sem[h].exists /\ UNCHANGED sem
    BY <2>2 DEF LockInv, SemaphoreState
  <2> QED
    BY <2>1, <2>2 DEF WaitRegister, binarySemaphoreWait, WaitFails, Uninterrupted
<1> HIDE DEF h
<1>4. OwnersLocked' /\ LockedOwn'
  <2>1. OwnersLocked'
    BY <1>1, <1>2, <1>3 DEF LockInv, OwnersLocked
  <2>2. ASSUME NEW c \in Controllers, NEW x \in Procs, Locked(x, c)'
        PROVE  \/ Owner(sem'[c], x)
               \/ x \in Pids /\ pc'[x] \in CheckPCs /\ ~sem'[c].exists
    <3>1. CASE x = p /\ c = h
      BY <1>1, <1>3, <3>1
    <3>2. CASE Locked(x, c) /\ ~(x = p /\ c = h)
      <4>1. \/ Owner(sem[c], x)
            \/ x \in Pids /\ pc[x] \in CheckPCs /\ ~sem[c].exists
        BY <3>2 DEF LockInv, LockedOwn
      <4>2. x # p
        BY <3>2 DEF Locked, AppLocked, LockedPCs, CheckPCs
      <4> QED
        BY <1>1, <1>3, <4>1, <4>2
    <3> QED
      BY <1>2, <2>2, <3>1, <3>2
  <2> QED
    BY <2>1, <2>2 DEF LockedOwn
<1>5. WritersSeeRegister'
  BY <1>1 DEF LockInv, WritersSeeRegister, AppLocked
<1>6. RegisterHasSemaphore'
  BY <1>1, <1>3 DEF LockInv, RegisterHasSemaphore
<1>7. BootState'
  BY <1>1, <1>3 DEF LockInv, BootState, NotBooted
<1>8. ControllerState'
  BY <1>1, <1>3 DEF LockInv, ControllerState, TypeOK, ControllerRuns, Ended,
                    OpenedPCs, ControllerLockedPCs, Serving
<1> QED
  BY <1>3, <1>4, <1>5, <1>6, <1>7, <1>8 DEF LockInv

(* Application p, having found the register, posts and leaves.             *)
LEMMA AppPosts ==
  ASSUME TypeOK, LockInv, NEW p \in Pids, NEW l \in {"attached", "detachData"},
         proc[p] = "running", pc[p] \in {"attachPost", "detachPost"}, PostRegister(p, l)
  PROVE  LockInv'
<1> DEFINE h == home[p]
<1>1. /\ h \in Controllers /\ p \in Procs
      /\ pc'[p] = l /\ \A q \in Pids \ {p} : pc'[q] = pc[q]
      /\ UNCHANGED <<proc, home, reg, ctl, cpc, started>>
  BY DEF TypeOK, PostRegister, Goto, Procs, ctlVars
<1>2. AppLocked(p, h) /\ pc[p] \notin CheckPCs
  BY DEF AppLocked, LockedPCs, CheckPCs
<1>3. Owner(sem[h], p)
  BY <1>1, <1>2 DEF LockInv, LockedOwn, Locked
<1>4. \A c \in Controllers, x \in Procs :
        Locked(x, c)' <=> Locked(x, c) /\ ~(x = p /\ c = h)
  BY <1>1 DEF Locked, AppLocked, ControllerLocked, LockedPCs, CheckPCs
<1>5. /\ OneOwner(Given(sem[h], p)) /\ Given(sem[h], p).exists /\ sem[h].exists
      /\ \A y \in Procs : ~Owner(Given(sem[h], p), y)
  BY <1>1, <1>3, SemaphoreAt, GivenFree
<1>6. /\ sem'[h] = Given(sem[h], p)
      /\ \A c \in Controllers \ {h} : sem'[c] = sem[c]
  BY <1>1 DEF TypeOK, PostRegister, binarySemaphorePost
<1>7. \A y \in Procs : Owner(sem[h], y) => y = p
  BY <1>1, <1>3, OwnerUnique
<1> HIDE DEF h
<1>8. SemaphoreState'
  BY <1>5, <1>6 DEF SemaphoreState, LockInv
<1>9. OwnersLocked'
  BY <1>1, <1>4, <1>5, <1>6 DEF LockInv, OwnersLocked
<1>10. LockedOwn'
  <2> SUFFICES ASSUME NEW c \in Controllers, NEW x \in Procs, Locked(x, c),
                      ~(x = p /\ c = h)
               PROVE  \/ Owner(sem'[c], x)
                      \/ x \in Pids /\ pc'[x] \in CheckPCs /\ ~sem'[c].exists
    BY <1>4 DEF LockedOwn
  <2>1. \/ Owner(sem[c], x)
        \/ x \in Pids /\ pc[x] \in CheckPCs /\ ~sem[c].exists
    BY DEF LockInv, LockedOwn
  <2>2. c # h
    BY <1>5, <1>7, <2>1
  <2>3. x # p
    BY <2>2, <1>2 DEF Locked, AppLocked
  <2> QED
    BY <1>1, <1>6, <2>1, <2>2, <2>3
<1>11. WritersSeeRegister'
  BY <1>1 DEF LockInv, WritersSeeRegister, AppLocked, LockedPCs, CheckPCs
<1>12. RegisterHasSemaphore'
  BY <1>1, <1>5, <1>6 DEF LockInv, RegisterHasSemaphore
<1>13. BootState'
  BY <1>1, <1>5, <1>6 DEF LockInv, BootState, NotBooted
<1>14. ControllerState'
  <2>1. ~Unopened(sem[h])
    BY <1>1, <1>3, SemaphoreAt, SemaphoreFields DEF Unopened, Owner
  <2> QED
    BY <1>1, <1>5, <1>6, <2>1 DEF LockInv, ControllerState, TypeOK, ControllerRuns,
       Ended, OpenedPCs, ControllerLockedPCs, Serving
<1> QED
  BY <1>8, <1>9, <1>10, <1>11, <1>12, <1>13, <1>14 DEF LockInv

(* The controller takes its lock: its semaphore exists, so it is the owner. *)
LEMMA ControllerLocks ==
  ASSUME Uninterrupted, TypeOK, LockInv,
         NEW from \in {"bootLock", "idle"}, NEW to \in {"create", "run", "destroy"},
         Lock(from, to)
  PROVE  LockInv'
<1>1. /\ cpc = from /\ cpc' = to
      /\ UNCHANGED <<proc, pc, home, reg, ctl, started>>
  BY DEF Lock, ControllerGoto, appVars
<1>2. ctl \in Controllers /\ ctl \in Procs /\ ctl \notin Pids
  BY <1>1, PidsAssumption DEF TypeOK, ControllerRuns, Ended, Procs
<1>3. sem[ctl].exists /\ cpc \in OpenedPCs /\ cpc' \in OpenedPCs
  BY <1>1 DEF LockInv, ControllerState, OpenedPCs, ControllerLockedPCs, Serving
<1>4. CanTake(sem[ctl]) /\ sem' = [sem EXCEPT ![ctl] = Taken(@, ctl)]
  BY <1>3 DEF Lock, binarySemaphoreWait, WaitFails, Uninterrupted
<1>5. /\ OneOwner(Taken(sem[ctl], ctl)) /\ Taken(sem[ctl], ctl).exists
      /\ \A y \in Procs : Owner(Taken(sem[ctl], ctl), y) <=> y = ctl
      /\ \A y \in Procs : ~Owner(sem[ctl], y)
  BY <1>2, <1>4, SemaphoreAt, TakenOwner
<1>6. /\ sem'[ctl] = Taken(sem[ctl], ctl)
      /\ \A c \in Controllers \ {ctl} : sem'[c] = sem[c]
  BY <1>2, <1>4 DEF TypeOK
<1>7. \A c \in Controllers, x \in Procs :
        Locked(x, c)' <=> Locked(x, c) \/ (x = ctl /\ c = ctl)
  BY <1>1, <1>2 DEF Locked, AppLocked, ControllerLocked, ControllerLockedPCs
<1>8. SemaphoreState'
  BY <1>5, <1>6 DEF SemaphoreState, LockInv
<1>9. OwnersLocked'
  BY <1>1, <1>2, <1>5, <1>6, <1>7 DEF LockInv, OwnersLocked
<1>10. LockedOwn'
  BY <1>1, <1>2, <1>3, <1>5, <1>6, <1>7 DEF LockInv, LockedOwn
<1>11. WritersSeeRegister' /\ RegisterHasSemaphore'
  BY <1>1, <1>5, <1>6 DEF LockInv, WritersSeeRegister, AppLocked, RegisterHasSemaphore
<1>12. BootState'
  BY <1>1, <1>3, <1>5, <1>6 DEF LockInv, BootState, NotBooted
<1>13. ControllerState'
  BY <1>1, <1>5, <1>6 DEF ControllerState
<1> QED
  BY <1>8, <1>9, <1>10, <1>11, <1>12, <1>13 DEF LockInv

(* The controller releases its lock, which it owns.                        *)
LEMMA ControllerUnlocks ==
  ASSUME TypeOK, LockInv,
         NEW from \in {"bootUnlock", "run", "destroyUnlock"},
         NEW to \in {"setup", "idle", "semDestroy"},
         to = "semDestroy" => from = "destroyUnlock",
         Unlock(from, to)
  PROVE  LockInv'
<1>1. /\ cpc = from /\ cpc' = to
      /\ UNCHANGED <<proc, pc, home, reg, ctl, started>>
  BY DEF Unlock, ControllerGoto, appVars
<1>2. ctl \in Controllers /\ ctl \in Procs /\ ctl \notin Pids
  BY <1>1, PidsAssumption DEF TypeOK, ControllerRuns, Ended, Procs
<1>3. Owner(sem[ctl], ctl)
  BY <1>1, <1>2 DEF LockInv, LockedOwn, Locked, ControllerLocked, ControllerLockedPCs
<1>4. /\ OneOwner(Given(sem[ctl], ctl)) /\ Given(sem[ctl], ctl).exists /\ sem[ctl].exists
      /\ \A y \in Procs : ~Owner(Given(sem[ctl], ctl), y)
  BY <1>2, <1>3, SemaphoreAt, GivenFree
<1>5. /\ sem'[ctl] = Given(sem[ctl], ctl)
      /\ \A c \in Controllers \ {ctl} : sem'[c] = sem[c]
  BY <1>2 DEF TypeOK, Unlock, binarySemaphorePost
<1>6. \A y \in Procs : Owner(sem[ctl], y) => y = ctl
  BY <1>2, <1>3, OwnerUnique
<1>7. \A c \in Controllers, x \in Procs :
        Locked(x, c)' <=> Locked(x, c) /\ ~(x = ctl /\ c = ctl)
  BY <1>1, <1>2 DEF Locked, AppLocked, ControllerLocked, ControllerLockedPCs
<1>8. SemaphoreState'
  BY <1>4, <1>5 DEF SemaphoreState, LockInv
<1>9. OwnersLocked'
  BY <1>1, <1>2, <1>4, <1>5, <1>7 DEF LockInv, OwnersLocked, Locked
<1>10. LockedOwn'
  <2> SUFFICES ASSUME NEW c \in Controllers, NEW x \in Procs, Locked(x, c),
                      ~(x = ctl /\ c = ctl)
               PROVE  \/ Owner(sem'[c], x)
                      \/ x \in Pids /\ pc[x] \in CheckPCs /\ ~sem'[c].exists
    BY <1>1, <1>7 DEF LockedOwn
  <2>1. \/ Owner(sem[c], x)
        \/ x \in Pids /\ pc[x] \in CheckPCs /\ ~sem[c].exists
    BY DEF LockInv, LockedOwn
  <2>2. c # ctl
    BY <1>4, <1>6, <2>1
  <2> QED
    BY <1>5, <2>1, <2>2
<1>11. WritersSeeRegister' /\ RegisterHasSemaphore'
  BY <1>1, <1>4, <1>5 DEF LockInv, WritersSeeRegister, AppLocked, RegisterHasSemaphore
<1>12. BootState'
  BY <1>1, <1>4, <1>5 DEF LockInv, BootState, NotBooted
<1>13. ControllerState'
  BY <1>1, <1>4, <1>5 DEF LockInv, ControllerState
<1> QED
  BY <1>8, <1>9, <1>10, <1>11, <1>12, <1>13 DEF LockInv

-----------------------------------------------------------------------------
(* The steps.                                                              *)

(* A step of an application inside the client library keeps LockInv.       *)
LEMMA LockAppStep ==
  ASSUME Uninterrupted, TypeOK, LockInv, NEW p \in Pids, AppStep(p)
  PROVE  LockInv'
<1> USE DEF At, appVars, ipcVars, osVars, policyVars, ctlVars
<1>1. ASSUME NEW l \in {"attachWait", "detachWait"},
             proc[p] = "running", pc[p] \in {"attachSem", "detachSem"},
             GetRegisterSem(p, l)
      PROVE  LockInv'
  <2>1. CASE sem[home[p]].exists
    <3>1. /\ pc'[p] = l /\ \A q \in Pids \ {p} : pc'[q] = pc[q]
          /\ UNCHANGED <<proc, home, sem, reg, ctl, cpc, started>>
      BY <1>1, <2>1 DEF GetRegisterSem, Continues, Goto, TypeOK
    <3>2. \A c \in Controllers : ~(NotBooted(c) /\ home'[p] = c)
      BY <2>1, <3>1 DEF LockInv, BootState
    <3>3. pc[p] \notin LockedPCs /\ pc'[p] \notin LockedPCs
      BY <1>1, <3>1 DEF LockedPCs, CheckPCs
    <3> QED
      BY <3>1, <3>2, <3>3, OutsideMoves
  <2>2. CASE ~sem[home[p]].exists
    BY <1>1, <2>2, DiesLock DEF GetRegisterSem
  <2> QED
    BY <2>1, <2>2
<1>2. CASE AttachSem(p)
  BY <1>1, <1>2 DEF AttachSem
<1>3. CASE DetachSem(p)
  BY <1>1, <1>3 DEF DetachSem
<1>4. CASE AttachWait(p)
  BY <1>4, AppWaits DEF AttachWait, CheckPCs
<1>5. CASE DetachWait(p)
  BY <1>5, AppWaits DEF DetachWait, CheckPCs
<1>6. CASE AttachCheck(p)
  <2>1. CASE reg[home[p]].exists /\ Len(reg[home[p]].newApps) # MaxApps
    BY <1>6, <2>1, InsideMoves DEF AttachCheck, Continues, LockedPCs, CheckPCs
  <2>2. CASE ~(reg[home[p]].exists /\ Len(reg[home[p]].newApps) # MaxApps)
    BY <1>6, <2>2, DiesLock DEF AttachCheck
  <2> QED
    BY <2>1, <2>2
<1>7. CASE DetachCheck(p)
  <2>1. CASE reg[home[p]].exists /\ Len(reg[home[p]].detachedApps) # MaxApps
    BY <1>7, <2>1, InsideMoves DEF DetachCheck, Continues, LockedPCs, CheckPCs
  <2>2. CASE ~(reg[home[p]].exists /\ Len(reg[home[p]].detachedApps) # MaxApps)
    BY <1>7, <2>2, DiesLock DEF DetachCheck
  <2> QED
    BY <2>1, <2>2
<1>8. CASE AttachWrite(p)
  <2>1. home[p] \in Controllers /\ AppLocked(p, home[p]) /\ pc[p] \notin CheckPCs
    BY <1>8 DEF AttachWrite, AppLocked, LockedPCs, CheckPCs, TypeOK
  <2>2. reg[home[p]].exists
    BY <2>1 DEF LockInv, WritersSeeRegister
  <2>3. \A c \in Controllers : reg'[c].exists = reg[c].exists
    BY <1>8, <2>1 DEF AttachWrite, TypeOK, Registers
  <2> QED
    BY <1>8, <2>2, <2>3, InsideMoves DEF AttachWrite, LockedPCs, CheckPCs
<1>9. CASE DetachWrite(p)
  <2>1. home[p] \in Controllers /\ AppLocked(p, home[p]) /\ pc[p] \notin CheckPCs
    BY <1>9 DEF DetachWrite, AppLocked, LockedPCs, CheckPCs, TypeOK
  <2>2. reg[home[p]].exists
    BY <2>1 DEF LockInv, WritersSeeRegister
  <2>3. \A c \in Controllers : reg'[c].exists = reg[c].exists
    BY <1>9, <2>1 DEF DetachWrite, TypeOK, Registers
  <2> QED
    BY <1>9, <2>2, <2>3, InsideMoves DEF DetachWrite, LockedPCs, CheckPCs
<1>10. CASE AttachPost(p)
  BY <1>10, AppPosts DEF AttachPost
<1>11. CASE DetachPost(p)
  BY <1>11, AppPosts DEF DetachPost
<1>12. CASE DetachData(p)
  <2>1. /\ pc[p] = "detachData" /\ pc'[p] = "idle" /\ home'[p] = NoPid
        /\ \A q \in Pids \ {p} : pc'[q] = pc[q] /\ home'[q] = home[q]
        /\ UNCHANGED <<proc, sem, reg, ctl, cpc, started>>
    BY <1>12 DEF DetachData, Goto, TypeOK
  <2>2. pc[p] \notin LockedPCs /\ pc'[p] \notin LockedPCs
    BY <2>1 DEF LockedPCs, CheckPCs
  <2>3. \A c \in Controllers : home'[p] # c
    BY <2>1, PidsAssumption DEF Procs
  <2> QED
    BY <2>1, <2>2, <2>3, OutsideMoves
<1> QED
  BY <1>2, <1>3, <1>4, <1>5, <1>6, <1>7, <1>8, <1>9, <1>10, <1>11, <1>12 DEF AppStep

(* So does what applications, users and the derived class do.              *)
LEMMA LockEnvironment ==
  ASSUME Uninterrupted, TypeOK, LockInv, Environment
  PROVE  LockInv'
<1> USE DEF At, appVars, ipcVars, osVars, policyVars, ctlVars
<1>1. ASSUME NEW p \in Pids, Spawn(p) PROVE LockInv'
  BY <1>1, LockStutter DEF Spawn, TypeOK
<1>2. ASSUME NEW p \in Pids, Crash(p) PROVE LockInv'
  BY <1>2, DiesLock DEF Crash
<1>3. ASSUME NEW p \in Pids, Reap(p) PROVE LockInv'
  BY <1>3, LockStutter DEF Reap, TypeOK
<1>4. ASSUME NEW p \in Pids, AttachCreate(p) PROVE LockInv'
  <2>1. /\ pc[p] = "idle" /\ pc'[p] = "attachSem" /\ home'[p] = ctl /\ ctl \in started
        /\ \A q \in Pids \ {p} : pc'[q] = pc[q] /\ home'[q] = home[q]
        /\ UNCHANGED <<proc, sem, reg, ctl, cpc, started>>
    BY <1>4 DEF AttachCreate, CreateData, Goto, TypeOK
  <2> QED
    BY <2>1, OutsideMoves DEF LockedPCs, CheckPCs
<1>5. ASSUME NEW p \in Pids, AttachRefused(p) PROVE LockInv'
  BY <1>5, DiesLock DEF AttachRefused
<1>6. ASSUME NEW p \in Pids, DetachBegin(p) PROVE LockInv'
  <2>1. CASE ControllerRuns
    <3>1. /\ pc[p] = "attached" /\ pc'[p] = "detachSem" /\ home'[p] = ctl /\ ctl \in started
          /\ \A q \in Pids \ {p} : pc'[q] = pc[q] /\ home'[q] = home[q]
          /\ UNCHANGED <<proc, sem, reg, ctl, cpc, started>>
      BY <1>6, <2>1 DEF DetachBegin, Goto, TypeOK
    <3> QED
      BY <3>1, OutsideMoves DEF LockedPCs, CheckPCs
  <2>2. CASE ~ControllerRuns
    BY <1>6, <2>2, DiesLock DEF DetachBegin
  <2> QED
    BY <2>1, <2>2
<1>7. ASSUME NEW p \in Pids, NEW k \in Cores, AssignCore(p, k) PROVE LockInv'
  BY <1>7, LockStutter DEF AssignCore
<1>8. ASSUME NEW c \in Controllers, Start(c) PROVE LockInv'
  <2>1. /\ ctl' = c /\ cpc' = "boot" /\ started' = started \cup {c} /\ c \notin started
        /\ cpc \in Ended /\ UNCHANGED <<proc, pc, home, sem, reg>>
    BY <1>8 DEF Start
  <2>2. \A d \in Controllers, x \in Procs : Locked(x, d)' <=> Locked(x, d)
    BY <2>1 DEF Locked, AppLocked, ControllerLocked, ControllerLockedPCs, Ended
  <2>3. (SemaphoreState /\ OwnersLocked /\ LockedOwn)'
    BY <2>1, <2>2 DEF LockInv, SemaphoreState, OwnersLocked, LockedOwn
  <2>4. (WritersSeeRegister /\ RegisterHasSemaphore)'
    BY <2>1 DEF LockInv, WritersSeeRegister, AppLocked, RegisterHasSemaphore
  <2>5. BootState'
    BY <2>1 DEF LockInv, BootState, NotBooted
  <2>6. ControllerState'
    BY <2>1 DEF ControllerState, OpenedPCs, ControllerLockedPCs, Serving
  <2> QED
    BY <2>3, <2>4, <2>5, <2>6 DEF LockInv
<1>9. CASE ControllerCrash
  <2>1. ctl \in Controllers
    BY <1>9 DEF ControllerCrash, TypeOK
  <2> QED
    BY <1>9, <2>1, ControllerEndsLock DEF ControllerCrash, Ended
<1>10. CASE DestroyBegin
  BY <1>10, ControllerLocks DEF DestroyBegin
<1> QED
  BY <1>1, <1>2, <1>3, <1>4, <1>5, <1>6, <1>7, <1>8, <1>9, <1>10 DEF Environment

(* The controller moves from one place outside its lock to another.        *)
LEMMA ControllerMoves ==
  ASSUME TypeOK, LockInv, UNCHANGED <<proc, pc, home, sem, reg, ctl, started>>,
         cpc \notin ControllerLockedPCs, cpc' \notin ControllerLockedPCs,
         cpc' # "boot", cpc' # "semInit", cpc' \in OpenedPCs => cpc \in OpenedPCs,
         cpc' # "semDestroy"
  PROVE  LockInv'
<1>1. \A d \in Controllers, x \in Procs : Locked(x, d)' <=> Locked(x, d)
  BY DEF Locked, AppLocked, ControllerLocked
<1>2. (SemaphoreState /\ OwnersLocked /\ LockedOwn)'
  BY <1>1 DEF LockInv, SemaphoreState, OwnersLocked, LockedOwn
<1>3. (WritersSeeRegister /\ RegisterHasSemaphore)'
  BY DEF LockInv, WritersSeeRegister, AppLocked, RegisterHasSemaphore
<1>4. BootState'
  BY DEF LockInv, BootState, NotBooted
<1>5. ControllerState'
  BY DEF LockInv, ControllerState, ControllerLockedPCs
<1> QED
  BY <1>2, <1>3, <1>4, <1>5 DEF LockInv

(* The steps of Policy::Policy keep LockInv, from a register that has      *)
(* neither semaphore nor segment to one that has both.                     *)
LEMMA LockBoot ==
  ASSUME Uninterrupted, TypeOK, LockInv, Boot
  PROVE  LockInv'
<1> USE DEF appVars, ipcVars, osVars, policyVars, ctlVars
<1>1. cpc \notin Ended => ctl \in Controllers /\ ctl \in started
  BY DEF TypeOK, ControllerRuns
<1>2. CASE SemaphoreCreate
  <2>1. /\ cpc = "boot" /\ cpc' = "semInit" /\ ctl \in Controllers /\ ctl \in started
        /\ sem' = [sem EXCEPT ![ctl] = Created(Procs)]
        /\ UNCHANGED <<proc, pc, home, reg, ctl, started>>
    BY <1>1, <1>2 DEF SemaphoreCreate, ControllerGoto, Ended
  <2>2. NotBooted(ctl)
    BY <2>1 DEF NotBooted
  <2>3. /\ ~reg[ctl].exists
        /\ \A p \in Pids : ~AppLocked(p, ctl)
    BY <2>1, <2>2 DEF LockInv, BootState, RegisterHasSemaphore, AppLocked, LockedPCs, CheckPCs
  <2>4. /\ sem'[ctl] = Created(Procs)
        /\ \A c \in Controllers \ {ctl} : sem'[c] = sem[c]
    BY <2>1 DEF TypeOK
  <2>5. /\ Unopened(sem'[ctl]) /\ sem'[ctl].exists
        /\ \A x \in Procs : ~Owner(sem'[ctl], x)
    BY <2>4 DEF Created, Unopened, Owner
  <2>6. \A c \in Controllers, x \in Procs : Locked(x, c)' <=> Locked(x, c)
    BY <2>1 DEF Locked, AppLocked, ControllerLocked, ControllerLockedPCs
  <2>7. \A x \in Procs : ~Locked(x, ctl)
    BY <2>1, <2>3 DEF Locked, ControllerLocked, ControllerLockedPCs
  <2>8. (SemaphoreState /\ OwnersLocked /\ LockedOwn)'
    BY <2>1, <2>4, <2>5, <2>6, <2>7 DEF LockInv, SemaphoreState, OwnersLocked, LockedOwn
  <2>9. (WritersSeeRegister /\ RegisterHasSemaphore)'
    BY <2>1, <2>4, <2>5 DEF LockInv, WritersSeeRegister, AppLocked, RegisterHasSemaphore
  <2>10. BootState'
    BY <2>1, <2>4 DEF LockInv, BootState, NotBooted
  <2>11. ControllerState'
    BY <2>1, <2>5 DEF ControllerState, OpenedPCs, ControllerLockedPCs, Serving
  <2> QED
    BY <2>8, <2>9, <2>10, <2>11 DEF LockInv
<1>3. CASE SemaphoreInit
  <2>1. /\ cpc = "semInit" /\ cpc' = "bootLock" /\ ctl \in Controllers /\ ctl \in started
        /\ sem' = [sem EXCEPT ![ctl] = SetToOne(@)]
        /\ UNCHANGED <<proc, pc, home, reg, ctl, started>>
    BY <1>1, <1>3 DEF SemaphoreInit, ControllerGoto, Ended
  <2>2. sem[ctl].exists /\ Unopened(sem[ctl]) /\ sem[ctl] \in Semaphores(Procs)
    BY <2>1, SemaphoreAt DEF LockInv, ControllerState
  <2>3. \A x \in Procs : ~Owner(sem[ctl], x)
    BY <2>2, SemaphoreFields DEF Unopened, Owner
  <2>4. \A x \in Procs : ~Locked(x, ctl)
    BY <2>1, <2>2, <2>3 DEF LockInv, LockedOwn
  <2>5. /\ sem'[ctl] = SetToOne(sem[ctl])
        /\ \A c \in Controllers \ {ctl} : sem'[c] = sem[c]
    BY <2>1 DEF TypeOK
  <2>6. /\ sem'[ctl].exists /\ sem'[ctl].val = 1
        /\ DOMAIN sem'[ctl].adj = Procs
        /\ \A x \in Procs : sem'[ctl].adj[x] = 0
    BY <2>2, <2>5, SetToOneType, SemaphoreFields
  <2>7. OneOwner(sem'[ctl]) /\ \A x \in Procs : ~Owner(sem'[ctl], x)
    BY <2>6 DEF OneOwner, Owner
  <2>8. \A c \in Controllers, x \in Procs : Locked(x, c)' <=> Locked(x, c)
    BY <2>1 DEF Locked, AppLocked, ControllerLocked, ControllerLockedPCs
  <2>9. (SemaphoreState /\ OwnersLocked /\ LockedOwn)'
    BY <2>1, <2>4, <2>5, <2>7, <2>8 DEF LockInv, SemaphoreState, OwnersLocked, LockedOwn
  <2>10. (WritersSeeRegister /\ RegisterHasSemaphore)'
    BY <2>1, <2>5, <2>6 DEF LockInv, WritersSeeRegister, AppLocked, RegisterHasSemaphore
  <2>11. BootState'
    BY <2>1, <2>5 DEF LockInv, BootState, NotBooted
  <2>12. ControllerState'
    BY <2>1, <2>6 DEF ControllerState
  <2> QED
    BY <2>9, <2>10, <2>11, <2>12 DEF LockInv
<1>4. CASE BootLock
  BY <1>4, ControllerLocks DEF BootLock
<1>5. CASE RegisterCreate
  <2>1. /\ cpc = "create" /\ cpc' = "bootUnlock" /\ ctl \in Controllers
        /\ UNCHANGED <<proc, pc, home, sem, ctl, started>>
    BY <1>1, <1>5 DEF RegisterCreate, ControllerGoto, Ended
  <2>2. sem[ctl].exists
    BY <2>1 DEF LockInv, ControllerState, OpenedPCs, ControllerLockedPCs
  <2>3. /\ reg'[ctl].exists
        /\ \A c \in Controllers \ {ctl} : reg'[c] = reg[c]
    BY <1>5, <2>1 DEF RegisterCreate, NoRegister, TypeOK
  <2>4. \A c \in Controllers, x \in Procs : Locked(x, c)' <=> Locked(x, c)
    BY <2>1 DEF Locked, AppLocked, ControllerLocked, ControllerLockedPCs
  <2>5. (SemaphoreState /\ OwnersLocked /\ LockedOwn)'
    BY <2>1, <2>4 DEF LockInv, SemaphoreState, OwnersLocked, LockedOwn
  <2>6. (WritersSeeRegister /\ RegisterHasSemaphore)'
    BY <2>1, <2>2, <2>3 DEF LockInv, WritersSeeRegister, AppLocked, RegisterHasSemaphore
  <2>7. BootState' /\ ControllerState'
    BY <2>1, <2>2 DEF LockInv, BootState, NotBooted, ControllerState
  <2> QED
    BY <2>5, <2>6, <2>7 DEF LockInv
<1>6. CASE BootUnlock
  BY <1>6, ControllerUnlocks DEF BootUnlock
<1>7. CASE SetupGroups
  <2>1. /\ cpc = "setup" /\ ctl \in Controllers
        /\ UNCHANGED <<proc, pc, home, reg, ctl, started>>
        /\ ControllerEnds("failed") \/ (cpc' = "idle" /\ UNCHANGED sem)
    BY <1>1, <1>7 DEF SetupGroups, Ended
  <2>2. CASE ControllerEnds("failed")
    BY <2>1, <2>2, ControllerEndsLock DEF Ended
  <2>3. CASE cpc' = "idle" /\ UNCHANGED sem
    BY <2>1, <2>3, ControllerMoves DEF OpenedPCs, ControllerLockedPCs
  <2> QED
    BY <2>1, <2>2, <2>3
<1> QED
  BY <1>2, <1>3, <1>4, <1>5, <1>6, <1>7 DEF Boot

(* A helper leaves every register where it is.                             *)
LEMMA HelperReturnsLock ==
  ASSUME TypeOK, LockInv, NEW r, HelperReturns(r),
         \A c \in Controllers : r[c].exists = reg[c].exists
  PROVE  LockInv'
BY LockStutter DEF HelperReturns, appVars

(* The steps of a cycle of run() keep LockInv.                             *)
LEMMA LockRun ==
  ASSUME Uninterrupted, TypeOK, LockInv, Run
  PROVE  LockInv'
<1> USE DEF appVars, ipcVars, osVars, policyVars, ctlVars
<1>1. cpc \notin Ended => ctl \in Controllers
  BY DEF TypeOK, ControllerRuns
<1>2. CASE RunBegin
  BY <1>2, ControllerLocks DEF RunBegin
<1>3. ASSUME NEW p \in Pids, DeregisterDeadApp(p) PROVE LockInv'
  BY <1>3, LockStutter DEF DeregisterDeadApp
<1>4. CASE DeadAppsDone
  BY <1>4, HelperReturnsLock DEF DeadAppsDone
<1>5. CASE DeregisterDetachedApp
  <2>1. UNCHANGED <<appVars, reg, ctl, started>> /\ ctl \in Controllers
    BY <1>1, <1>5 DEF DeregisterDetachedApp, Ended
  <2>2. UNCHANGED <<sem, cpc>> \/ ControllerEnds("crashed")
    BY <1>5 DEF DeregisterDetachedApp
  <2> QED
    BY <2>1, <2>2, LockStutter, ControllerEndsLock DEF Ended
<1>6. CASE DetachedAppsDone
  <2>1. \A c \in Controllers :
          [reg EXCEPT ![ctl].detachedApps = <<>>][c].exists = reg[c].exists
    BY DEF TypeOK, Registers
  <2> QED
    BY <1>6, <2>1, HelperReturnsLock DEF DetachedAppsDone
<1>7. CASE RegisterNewApp
  <2>1. UNCHANGED <<appVars, reg, ctl, started>> /\ ctl \in Controllers
    BY <1>1, <1>7 DEF RegisterNewApp, Ended
  <2>2. UNCHANGED <<sem, cpc>> \/ ControllerEnds("failed")
    BY <1>7 DEF RegisterNewApp
  <2> QED
    BY <2>1, <2>2, LockStutter, ControllerEndsLock DEF Ended
<1>8. CASE NewAppsDone
  <2>1. \A c \in Controllers :
          [reg EXCEPT ![ctl].newApps = <<>>][c].exists = reg[c].exists
    BY DEF TypeOK, Registers
  <2> QED
    BY <1>8, <2>1, HelperReturnsLock DEF NewAppsDone
<1>9. CASE RunEnd
  BY <1>9, ControllerUnlocks DEF RunEnd
<1> QED
  BY <1>2, <1>3, <1>4, <1>5, <1>6, <1>7, <1>8, <1>9 DEF Run

(* The steps of Policy::~Policy keep LockInv: the segment is removed       *)
(* before the semaphore.                                                   *)
LEMMA LockDestroy ==
  ASSUME Uninterrupted, TypeOK, LockInv, Destroy
  PROVE  LockInv'
<1> USE DEF appVars, ipcVars, osVars, policyVars, ctlVars
<1>1. cpc \notin Ended => ctl \in Controllers /\ ctl \in Procs /\ ctl \in started /\ ctl \notin Pids
  BY PidsAssumption DEF TypeOK, ControllerRuns, Procs
<1>2. CASE RegisterDestroy
  <2>1. /\ cpc = "destroy" /\ ctl \in Controllers /\ ctl \in Procs /\ ctl \notin Pids
        /\ UNCHANGED <<proc, pc, home, ctl, started>>
    BY <1>1, <1>2 DEF RegisterDestroy, Ended
  <2>2. CASE reg[ctl].newApps = <<>>
    <3>1. /\ cpc' = "destroyUnlock" /\ UNCHANGED sem
          /\ ~reg'[ctl].exists
          /\ \A c \in Controllers \ {ctl} : reg'[c] = reg[c]
      BY <1>2, <2>1, <2>2 DEF RegisterDestroy, NoRegister, TypeOK
    <3>2. Locked(ctl, ctl)
      BY <2>1 DEF Locked, ControllerLocked, ControllerLockedPCs
    <3>3. Owner(sem[ctl], ctl)
      BY <2>1, <3>2 DEF LockInv, LockedOwn
    <3>4. ASSUME NEW p \in Pids, AppLocked(p, ctl), pc[p] \notin CheckPCs PROVE FALSE
      <4>1. p \in Procs /\ Locked(p, ctl)
        BY <3>4 DEF Locked, Procs
      <4>2. Owner(sem[ctl], p)
        BY <2>1, <3>4, <4>1 DEF LockInv, LockedOwn
      <4> QED
        BY <2>1, <3>3, <4>1, <4>2, OwnerUnique
    <3>5. \A c \in Controllers, x \in Procs : Locked(x, c)' <=> Locked(x, c)
      BY <2>1, <3>1 DEF Locked, AppLocked, ControllerLocked, ControllerLockedPCs
    <3>6. (SemaphoreState /\ OwnersLocked /\ LockedOwn)'
      BY <2>1, <3>1, <3>5 DEF LockInv, SemaphoreState, OwnersLocked, LockedOwn
    <3>7. WritersSeeRegister'
      BY <2>1, <3>1, <3>4 DEF LockInv, WritersSeeRegister, AppLocked
    <3>8. RegisterHasSemaphore'
      BY <3>1 DEF LockInv, RegisterHasSemaphore
    <3>9. BootState'
      BY <2>1, <3>1 DEF LockInv, BootState, NotBooted
    <3>10. ControllerState'
      BY <2>1, <3>1 DEF LockInv, ControllerState, OpenedPCs, ControllerLockedPCs
    <3> QED
      BY <3>6, <3>7, <3>8, <3>9, <3>10 DEF LockInv
  <2>3. CASE reg[ctl].newApps # <<>>
    BY <1>2, <2>1, <2>3, ControllerEndsLock DEF RegisterDestroy, Ended
  <2> QED
    BY <2>2, <2>3
<1>3. CASE DestroyUnlock
  BY <1>3, ControllerUnlocks DEF DestroyUnlock
<1>4. CASE SemaphoreDestroy
  <2>1. /\ cpc = "semDestroy" /\ cpc' = "groupsDestroy" /\ ctl \in Controllers
        /\ ctl \in started
        /\ sem' = [sem EXCEPT ![ctl] = NoSem(Procs)]
        /\ UNCHANGED <<proc, pc, home, reg, ctl, started>>
    BY <1>1, <1>4 DEF SemaphoreDestroy, ControllerGoto, Ended
  <2>2. ~reg[ctl].exists
    BY <2>1 DEF LockInv, ControllerState
  <2>3. /\ sem'[ctl] = NoSem(Procs)
        /\ \A c \in Controllers \ {ctl} : sem'[c] = sem[c]
    BY <2>1 DEF TypeOK
  <2>4. /\ Unopened(sem'[ctl]) /\ ~sem'[ctl].exists
        /\ \A x \in Procs : ~Owner(sem'[ctl], x)
    BY <2>3 DEF NoSem, Unopened, Owner
  <2>5. \A c \in Controllers, x \in Procs : Locked(x, c)' <=> Locked(x, c)
    BY <2>1 DEF Locked, AppLocked, ControllerLocked, ControllerLockedPCs
  <2>6. \A x \in Procs : Locked(x, ctl) => x \in Pids /\ pc[x] \in CheckPCs
    BY <2>1, <2>2 DEF LockInv, WritersSeeRegister, Locked, ControllerLocked, ControllerLockedPCs
  <2>7. SemaphoreState' /\ OwnersLocked'
    BY <2>3, <2>4, <2>5 DEF LockInv, SemaphoreState, OwnersLocked
  <2>8. LockedOwn'
    BY <2>1, <2>3, <2>4, <2>5, <2>6 DEF LockInv, LockedOwn
  <2>9. (WritersSeeRegister /\ RegisterHasSemaphore)'
    BY <2>1, <2>2, <2>3 DEF LockInv, WritersSeeRegister, AppLocked, RegisterHasSemaphore
  <2>10. BootState'
    BY <2>1, <2>3, <2>4 DEF LockInv, BootState, NotBooted
  <2>11. ControllerState'
    BY <2>1 DEF ControllerState, OpenedPCs, ControllerLockedPCs, Serving
  <2> QED
    BY <2>7, <2>8, <2>9, <2>10, <2>11 DEF LockInv
<1>5. CASE GroupsDestroy
  BY <1>5, ControllerMoves
     DEF GroupsDestroy, ControllerGoto, OpenedPCs, ControllerLockedPCs, Serving
<1>6. ASSUME NEW p \in Pids, DropApp(p) PROVE LockInv'
  BY <1>6, LockStutter DEF DropApp
<1>7. CASE DestroyEnd
  <2>1. ctl \in Controllers
    BY <1>1, <1>7 DEF DestroyEnd, Ended
  <2> QED
    BY <1>7, <2>1, ControllerEndsLock DEF DestroyEnd, Ended
<1> QED
  BY <1>2, <1>3, <1>4, <1>5, <1>6, <1>7 DEF Destroy

(* LockInv is inductive, given the types: every step keeps it.             *)
LEMMA LockNext ==
  ASSUME Uninterrupted
  PROVE  TypeOK /\ LockInv /\ [Next]_vars => LockInv'
<1> SUFFICES ASSUME TypeOK, LockInv, [Next]_vars PROVE LockInv'
  OBVIOUS
<1>1. CASE Next
  BY <1>1, LockEnvironment, LockAppStep, LockBoot, LockRun, LockDestroy
     DEF Next, ControllerStep
<1>2. CASE UNCHANGED vars
  BY <1>2, LockStutter DEF vars, appVars, ipcVars, ctlVars
<1> QED
  BY <1>1, <1>2

-----------------------------------------------------------------------------
(* The undo counts of every semaphore name the process that is inside.     *)
THEOREM LockInvariant ==
  ASSUME Uninterrupted
  PROVE  Spec => []LockInv
<1>1. TypeOK /\ LockInv /\ [Next]_vars => LockInv'
  BY LockNext
<1> QED
  BY <1>1, LockInit, TypeCorrect, PTL DEF Spec

(* At most one process works on an app_register at any time, and none      *)
(* writes to one that was removed: for any number of applications and      *)
(* controllers, deaths, restarts and shutdowns.                            *)
THEOREM Exclusion ==
  ASSUME Uninterrupted
  PROVE  Spec => []MutualExclusion
<1>1. TypeOK /\ LockInv => MutualExclusion
  BY LockInvExclusion
<1> QED
  BY <1>1, LockInvariant, TypeCorrect, PTL

-----------------------------------------------------------------------------
(***************************************************************************)
(* The death of a process never leaves an app_register locked, also when   *)
(* signal handlers interrupt waits and processes are inside that own       *)
(* nothing.  What is counted are units: the value of the semaphore and the *)
(* undo counts together never fall below the one unit that SETALL gave.    *)
(***************************************************************************)

FiniteProcs == IsFiniteSet(Procs)

Units(s) == s.val + SumFunctionOnSet(s.adj, Procs)

(* Whoever is owed a unit on its death is inside.                          *)
UndosLocked ==
  \A c \in Controllers, x \in Procs :
    sem[c].adj[x] <= 1 /\ (Locked(x, c) \/ sem[c].adj[x] <= 0)

(* An opened semaphore keeps its unit.                                     *)
UnitKept ==
  \A c \in Controllers : Unopened(sem[c]) \/ (sem[c].exists /\ Units(sem[c]) >= 1)

(* Nobody gives a unit to a semaphore before SETALL does: there is no      *)
(* segment yet, and whoever is inside is about to find that out.           *)
NotOpened(c) == NotBooted(c) \/ (sem[c].exists /\ Unopened(sem[c]))

NoneServed ==
  \A c \in Controllers :
    NotOpened(c) =>
      /\ ~reg[c].exists
      /\ \A p \in Pids : AppLocked(p, c) => pc[p] \in CheckPCs

OpenedState ==
  /\ cpc = "semInit" => sem[ctl].exists
  /\ cpc \in OpenedPCs => sem[ctl].exists /\ ~Unopened(sem[ctl])

LeakInv == UndosLocked /\ UnitKept /\ NoneServed /\ OpenedState

(* The number of units is an integer, and 0 before SETALL.                 *)
LEMMA UnitsType ==
  ASSUME FiniteProcs, NEW s \in Semaphores(Procs)
  PROVE  /\ Units(s) \in Int /\ SumFunctionOnSet(s.adj, Procs) \in Int
         /\ Unopened(s) => Units(s) = 0
<1>1. \A x \in Procs : s.adj[x] \in Int
  BY SemaphoreFields
<1>2. SumFunctionOnSet(s.adj, Procs) \in Int
  BY <1>1, SumType DEF FiniteProcs
<1>3. Unopened(s) => SumFunctionOnSet(s.adj, Procs) = 0
  BY SemaphoreFields, SumZero DEF FiniteProcs, Unopened
<1> QED
  BY <1>2, <1>3, SemaphoreFields DEF Units, Unopened

(* One undo count and the value change: so do the units.                   *)
LEMMA UnitsMove ==
  ASSUME FiniteProcs, NEW s \in Semaphores(Procs), NEW t \in Semaphores(Procs),
         NEW x \in Procs, NEW n \in Int, t.adj[x] = s.adj[x] + n,
         \A y \in Procs \ {x} : t.adj[y] = s.adj[y]
  PROVE  Units(t) = Units(s) + n + (t.val - s.val)
<1>1. \A y \in Procs : s.adj[y] \in Int
  BY SemaphoreFields
<1>2. SumFunctionOnSet(t.adj, Procs) = SumFunctionOnSet(s.adj, Procs) + n
  BY <1>1, SumGrown DEF FiniteProcs
<1> QED
  BY <1>2, UnitsType, SemaphoreFields DEF Units

(* What a step may do to a semaphore in use.                               *)
KeepsUnits(s, t) ==
  /\ t.exists = s.exists
  /\ Unopened(s) => Unopened(t)
  /\ Units(s) <= Units(t)

(* A wait moves a unit from the value to the caller's undo count.          *)
LEMMA TakenUnits ==
  ASSUME FiniteProcs, NEW s \in Semaphores(Procs), NEW x \in Procs, CanTake(s)
  PROVE  /\ KeepsUnits(s, Taken(s, x))
         /\ Taken(s, x).adj[x] = s.adj[x] + 1
         /\ \A y \in Procs \ {x} : Taken(s, x).adj[y] = s.adj[y]
<1> DEFINE t == Taken(s, x)
<1>1. /\ t.exists = s.exists /\ t.val = s.val - 1
      /\ t.adj[x] = s.adj[x] + 1
      /\ \A y \in Procs \ {x} : t.adj[y] = s.adj[y]
  BY DEF Taken, Semaphores
<1>2. t \in Semaphores(Procs)
  BY TakenType
<1> HIDE DEF t
<1>3. Units(t) = Units(s) + 1 + (t.val - s.val)
  BY <1>1, <1>2, UnitsMove
<1>4. Units(t) = Units(s)
  BY <1>1, <1>3, UnitsType, SemaphoreFields
<1>5. ~Unopened(s)
  BY SemaphoreFields DEF CanTake, Unopened
<1> QED
  BY <1>1, <1>4, <1>5, UnitsType DEF KeepsUnits, t

(* A post on a semaphore that has been opened moves it back; on a removed  *)
(* one it does nothing.                                                    *)
LEMMA GivenUnits ==
  ASSUME FiniteProcs, NEW s \in Semaphores(Procs), NEW x \in Procs,
         ~(s.exists /\ Unopened(s)), s.exists \/ Unopened(s)
  PROVE  /\ KeepsUnits(s, Given(s, x))
         /\ \/ Given(s, x).adj[x] = s.adj[x] - 1
            \/ Given(s, x).adj[x] = 0
         /\ \A y \in Procs \ {x} : Given(s, x).adj[y] = s.adj[y]
<1>1. CASE s.exists
  <2> DEFINE t == Given(s, x)
  <2>1. /\ t.exists = s.exists /\ t.val = s.val + 1
        /\ t.adj[x] = s.adj[x] + (-1)
        /\ \A y \in Procs \ {x} : t.adj[y] = s.adj[y]
    BY <1>1 DEF Given, Semaphores
  <2>2. t \in Semaphores(Procs)
    BY GivenType
  <2> HIDE DEF t
  <2>3. Units(t) = Units(s) + (-1) + (t.val - s.val)
    BY <2>1, <2>2, UnitsMove
  <2>4. Units(t) = Units(s) /\ t.adj[x] = s.adj[x] - 1
    BY <2>1, <2>3, UnitsType, SemaphoreFields
  <2> QED
    BY <1>1, <2>1, <2>4, UnitsType DEF KeepsUnits, t
<1>2. CASE ~s.exists
  <2>1. Given(s, x) = s /\ s.adj[x] = 0
    BY <1>2, SemaphoreFields DEF Given, Unopened
  <2> QED
    BY <2>1, UnitsType DEF KeepsUnits
<1> QED
  BY <1>1, <1>2

(* The undo of a process that ends loses no unit; it makes units of those  *)
(* that others took meanwhile.                                             *)
LEMMA UndoneUnits ==
  ASSUME FiniteProcs, NEW s \in Semaphores(Procs), NEW x \in Procs
  PROVE  /\ KeepsUnits(s, Undone(s, x))
         /\ Undone(s, x).adj[x] = 0
         /\ \A y \in Procs \ {x} : Undone(s, x).adj[y] = s.adj[y]
<1> DEFINE t == Undone(s, x)
<1>1. /\ t.exists = s.exists
      /\ t.val = IF s.val + s.adj[x] > 0 THEN s.val + s.adj[x] ELSE 0
      /\ t.adj[x] = 0
      /\ \A y \in Procs \ {x} : t.adj[y] = s.adj[y]
  BY DEF Undone, Semaphores
<1>2. t \in Semaphores(Procs)
  BY UndoneType
<1> HIDE DEF t
<1>3. PICK n \in Int : n = -s.adj[x]
  BY SemaphoreFields
<1>4. t.adj[x] = s.adj[x] + n
  BY <1>1, <1>3, SemaphoreFields
<1>5. Units(t) = Units(s) + n + (t.val - s.val)
  BY <1>1, <1>2, <1>4, UnitsMove
<1>6. t.val - s.val >= -n
  BY <1>1, <1>3, SemaphoreFields
<1>7. Units(s) <= Units(t)
  BY <1>2, <1>5, <1>6, UnitsType, SemaphoreFields
<1>8. Unopened(s) => Unopened(t)
  BY <1>1, <1>2, SemaphoreFields DEF Unopened
<1> QED
  BY <1>1, <1>7, <1>8 DEF KeepsUnits, t

(* LeakInv implies what the runs check: a closed semaphore whose unit is   *)
(* still there is owed to somebody.                                        *)
LEMMA LeakInvNotLeaked ==
  ASSUME FiniteProcs
  PROVE  TypeOK /\ LeakInv => LockNotLeaked
<1> SUFFICES ASSUME TypeOK, LeakInv, NEW c \in Controllers,
                    sem[c].exists, sem[c].val = 0, ~Unopened(sem[c])
             PROVE  \E x \in Procs : Owner(sem[c], x) /\ Locked(x, c)
  BY DEF LockNotLeaked
<1>1. sem[c] \in Semaphores(Procs)
  BY DEF TypeOK
<1>2. SumFunctionOnSet(sem[c].adj, Procs) >= 1
  BY <1>1, UnitsType DEF LeakInv, UnitKept, Units
<1>3. PICK x \in Procs : sem[c].adj[x] > 0
  <2> SUFFICES ASSUME \A x \in Procs : ~(sem[c].adj[x] > 0)
               PROVE  FALSE
    OBVIOUS
  <2> DEFINE zero == [x \in Procs |-> 0]
  <2>1. \A x \in Procs : sem[c].adj[x] \in Int /\ zero[x] \in Int /\ sem[c].adj[x] <= zero[x]
    BY <1>1, SemaphoreFields
  <2>2. \A x \in Procs : zero[x] = 0
    OBVIOUS
  <2> HIDE DEF zero
  <2>3. SumFunctionOnSet(sem[c].adj, Procs) <= SumFunctionOnSet(zero, Procs)
    BY <2>1, SumMonotonic DEF FiniteProcs
  <2>4. SumFunctionOnSet(zero, Procs) = 0
    BY <2>2, SumZero DEF FiniteProcs
  <2> QED
    BY <1>1, <1>2, <2>3, <2>4, UnitsType
<1>4. sem[c].adj[x] \in Int
  BY <1>1, SemaphoreFields
<1>5. sem[c].adj[x] <= 1 /\ (Locked(x, c) \/ sem[c].adj[x] <= 0)
  BY DEF LeakInv, UndosLocked
<1>6. sem[c].adj[x] = 1 /\ Locked(x, c)
  BY <1>3, <1>4, <1>5
<1> QED
  BY <1>6 DEF Owner

(* At the start there is no semaphore.                                     *)
LEMMA LeakInit == Init => LeakInv
<1> SUFFICES ASSUME Init PROVE LeakInv
  OBVIOUS
<1>1. \A c \in Controllers :
        /\ ~sem[c].exists /\ sem[c].val = 0
        /\ DOMAIN sem[c].adj = Procs /\ \A x \in Procs : sem[c].adj[x] = 0
  BY DEF Init, NoSem
<1>2. UndosLocked /\ UnitKept
  <2>1. \A c \in Controllers, x \in Procs : sem[c].adj[x] = 0
    BY <1>1
  <2>2. UndosLocked
    BY <2>1 DEF UndosLocked
  <2>3. UnitKept
    BY <1>1 DEF UnitKept, Unopened
  <2> QED
    BY <2>2, <2>3
<1>3. NoneServed /\ OpenedState
  BY DEF Init, NoneServed, OpenedState, NoRegister, AppLocked, OpenedPCs,
         ControllerLockedPCs, Serving
<1> QED
  BY <1>2, <1>3 DEF LeakInv

(* A step that neither creates, opens nor removes a semaphore or a         *)
(* register: what remains to be shown is who is inside.                    *)
LEMMA LeakKept ==
  ASSUME FiniteProcs, TypeOK, TypeOK', LeakInv, UndosLocked',
         \A c \in Controllers : KeepsUnits(sem[c], sem'[c]),
         \A c \in Controllers : reg'[c].exists => reg[c].exists,
         \A c \in Controllers : NotBooted(c)' => NotBooted(c),
         \A c \in Controllers, p \in Pids :
           AppLocked(p, c)' /\ pc'[p] \notin CheckPCs
             => reg[c].exists \/ (AppLocked(p, c) /\ pc[p] \notin CheckPCs),
         cpc' = "semInit" => cpc = "semInit" /\ ctl' = ctl,
         cpc' \in OpenedPCs => cpc \in OpenedPCs /\ ctl' = ctl
  PROVE  LeakInv'
<1>1. ASSUME NEW c \in Controllers
      PROVE  /\ sem'[c].exists = sem[c].exists
             /\ Unopened(sem'[c]) <=> Unopened(sem[c])
             /\ Units(sem[c]) <= Units(sem'[c])
             /\ Units(sem[c]) \in Int /\ Units(sem'[c]) \in Int
  <2>1. sem[c] \in Semaphores(Procs) /\ sem'[c] \in Semaphores(Procs)
    BY DEF TypeOK
  <2>2. /\ Units(sem[c]) \in Int /\ Units(sem'[c]) \in Int
        /\ Unopened(sem'[c]) => Units(sem'[c]) = 0
    BY <2>1, UnitsType
  <2>3. Unopened(sem[c]) \/ Units(sem[c]) >= 1
    BY DEF LeakInv, UnitKept
  <2> QED
    BY <2>2, <2>3 DEF KeepsUnits
<1>2. UnitKept'
  BY <1>1 DEF LeakInv, UnitKept
<1>3. NoneServed'
  <2> SUFFICES ASSUME NEW c \in Controllers, NotOpened(c)'
               PROVE  /\ ~reg'[c].exists
                      /\ \A p \in Pids : AppLocked(p, c)' => pc'[p] \in CheckPCs
    BY DEF NoneServed
  <2>1. NotOpened(c)
    BY <1>1 DEF NotOpened
  <2> QED
    BY <2>1 DEF LeakInv, NoneServed
<1>4. OpenedState'
  <2>1. cpc \in {"semInit"} \cup OpenedPCs => ctl \in Controllers
    BY DEF TypeOK, ControllerRuns, Ended, OpenedPCs, ControllerLockedPCs, Serving
  <2> QED
    BY <1>1, <2>1 DEF LeakInv, OpenedState
<1> QED
  BY <1>2, <1>3, <1>4 DEF LeakInv

(* Nothing happens to the semaphores.                                      *)
LEMMA SameUnits ==
  ASSUME FiniteProcs, TypeOK, UNCHANGED sem
  PROVE  \A c \in Controllers : KeepsUnits(sem[c], sem'[c])
BY UnitsType DEF TypeOK, KeepsUnits

(* No process comes in or goes out, and no semaphore moves.                *)
LEMMA LeakStutter ==
  ASSUME FiniteProcs, TypeOK, TypeOK', LeakInv,
         UNCHANGED <<sem, pc, home, ctl, cpc, started>>,
         \A c \in Controllers : reg'[c].exists = reg[c].exists,
         \A p \in Pids : pc[p] # "idle" => (proc'[p] = "running" <=> proc[p] = "running")
  PROVE  LeakInv'
<1>1. \A c \in Controllers, p \in Pids : AppLocked(p, c)' <=> AppLocked(p, c)
  BY DEF AppLocked, LockedPCs, CheckPCs
<1>2. \A c \in Controllers, x \in Procs : Locked(x, c)' <=> Locked(x, c)
  BY <1>1 DEF Locked, ControllerLocked
<1>3. UndosLocked'
  BY <1>2 DEF LeakInv, UndosLocked
<1> QED
  BY <1>1, <1>3, SameUnits, LeakKept DEF NotBooted

(* Application p moves without a semaphore call: it does not leave the     *)
(* lock, and goes on inside only when it finds the register.               *)
LEMMA LeakAppMoves ==
  ASSUME FiniteProcs, TypeOK, TypeOK', LeakInv, NEW p \in Pids,
         UNCHANGED <<sem, proc, ctl, cpc, started>>,
         \A c \in Controllers : reg'[c].exists = reg[c].exists,
         \A q \in Pids \ {p} : pc'[q] = pc[q] /\ home'[q] = home[q],
         \A c \in Controllers : AppLocked(p, c) => AppLocked(p, c)',
         \A c \in Controllers :
           AppLocked(p, c)' /\ pc'[p] \notin CheckPCs
             => reg[c].exists \/ (AppLocked(p, c) /\ pc[p] \notin CheckPCs)
  PROVE  LeakInv'
<1>1. \A c \in Controllers, q \in Pids \ {p} : AppLocked(q, c)' <=> AppLocked(q, c)
  BY DEF AppLocked
<1>2. \A c \in Controllers, x \in Procs : Locked(x, c) => Locked(x, c)'
  BY <1>1 DEF Locked, ControllerLocked
<1>3. UndosLocked'
  BY <1>2 DEF LeakInv, UndosLocked
<1>4. \A c \in Controllers, q \in Pids :
        AppLocked(q, c)' /\ pc'[q] \notin CheckPCs
          => reg[c].exists \/ (AppLocked(q, c) /\ pc[q] \notin CheckPCs)
  BY <1>1
<1> QED
  BY <1>3, <1>4, SameUnits, LeakKept DEF NotBooted

(* The undo of a process that ends, in every semaphore.                    *)
LEMMA UndoneAll ==
  ASSUME FiniteProcs, TypeOK, NEW x \in Procs,
         sem' = [c \in Controllers |-> Undone(sem[c], x)]
  PROVE  \A c \in Controllers :
           /\ KeepsUnits(sem[c], sem'[c])
           /\ sem'[c].adj[x] = 0
           /\ \A y \in Procs \ {x} : sem'[c].adj[y] = sem[c].adj[y]
<1> SUFFICES ASSUME NEW c \in Controllers
             PROVE  /\ KeepsUnits(sem[c], sem'[c])
                    /\ sem'[c].adj[x] = 0
                    /\ \A y \in Procs \ {x} : sem'[c].adj[y] = sem[c].adj[y]
  OBVIOUS
<1>1. sem[c] \in Semaphores(Procs) /\ sem'[c] = Undone(sem[c], x)
  BY DEF TypeOK
<1> QED
  BY <1>1, UndoneUnits

(* The death of an application, wherever it is, keeps LeakInv.             *)
LEMMA DiesLeak ==
  ASSUME FiniteProcs, TypeOK, TypeOK', LeakInv, NEW p \in Pids, Dies(p),
         UNCHANGED <<reg, ctl, cpc, started>>
  PROVE  LeakInv'
<1>1. /\ proc'[p] = "zombie"
      /\ \A q \in Pids \ {p} : proc'[q] = proc[q] /\ pc'[q] = pc[q] /\ home'[q] = home[q]
  BY DEF Dies, TypeOK
<1>2. \A c \in Controllers :
        /\ KeepsUnits(sem[c], sem'[c])
        /\ sem'[c].adj[p] = 0
        /\ \A y \in Procs \ {p} : sem'[c].adj[y] = sem[c].adj[y]
  BY UndoneAll DEF Dies, Procs
<1>3. \A c \in Controllers, q \in Pids : AppLocked(q, c)' <=> q # p /\ AppLocked(q, c)
  BY <1>1 DEF AppLocked
<1>4. \A c \in Controllers, x \in Procs : Locked(x, c)' <=> x # p /\ Locked(x, c)
  BY <1>3 DEF Locked, ControllerLocked
<1>5. UndosLocked'
  <2> SUFFICES ASSUME NEW c \in Controllers, NEW x \in Procs
               PROVE  sem'[c].adj[x] <= 1 /\ (Locked(x, c)' \/ sem'[c].adj[x] <= 0)
    BY DEF UndosLocked
  <2>1. x # p => sem'[c].adj[x] = sem[c].adj[x]
    BY <1>2
  <2> QED
    BY <1>2, <1>4, <2>1 DEF LeakInv, UndosLocked
<1>6. \A c \in Controllers, q \in Pids :
        AppLocked(q, c)' /\ pc'[q] \notin CheckPCs
          => AppLocked(q, c) /\ pc[q] \notin CheckPCs
  BY <1>1, <1>3
<1> QED
  BY <1>2, <1>5, <1>6, LeakKept DEF NotBooted

(* The end of the controller, wherever it is, keeps LeakInv.               *)
LEMMA ControllerEndsLeak ==
  ASSUME FiniteProcs, TypeOK, TypeOK', LeakInv, ctl \in Controllers,
         NEW e \in Ended, ControllerEnds(e),
         UNCHANGED <<proc, pc, home, reg, ctl, started>>
  PROVE  LeakInv'
<1>1. ctl \in Procs /\ ctl \notin Pids /\ cpc' = e
  BY PidsAssumption DEF Procs, ControllerEnds
<1>2. \A c \in Controllers :
        /\ KeepsUnits(sem[c], sem'[c])
        /\ sem'[c].adj[ctl] = 0
        /\ \A y \in Procs \ {ctl} : sem'[c].adj[y] = sem[c].adj[y]
  BY <1>1, UndoneAll DEF ControllerEnds
<1>3. \A c \in Controllers, x \in Procs \ {ctl} : Locked(x, c) => Locked(x, c)'
  BY DEF Locked, AppLocked, ControllerLocked
<1>4. UndosLocked'
  <2> SUFFICES ASSUME NEW c \in Controllers, NEW x \in Procs
               PROVE  sem'[c].adj[x] <= 1 /\ (Locked(x, c)' \/ sem'[c].adj[x] <= 0)
    BY DEF UndosLocked
  <2>1. x # ctl => sem'[c].adj[x] = sem[c].adj[x]
    BY <1>2
  <2> QED
    BY <1>2, <1>3, <2>1 DEF LeakInv, UndosLocked
<1>5. \A c \in Controllers : NotBooted(c)' => NotBooted(c)
  BY <1>1 DEF NotBooted, Ended
<1>6. cpc' # "semInit" /\ cpc' \notin OpenedPCs
  BY <1>1 DEF Ended, OpenedPCs, ControllerLockedPCs, Serving
<1> QED
  BY <1>2, <1>4, <1>5, <1>6, LeakKept DEF AppLocked

(* x returns from its wait on h's semaphore, interrupted or not.           *)
LEMMA WaitUnits ==
  ASSUME FiniteProcs, TypeOK, NEW x \in Procs, NEW h \in Controllers,
         binarySemaphoreWait(x, h)
  PROVE  \A c \in Controllers :
           /\ KeepsUnits(sem[c], sem'[c])
           /\ \A y \in Procs : \/ sem'[c].adj[y] = sem[c].adj[y]
                               \/ y = x /\ c = h /\ sem'[c].adj[y] = sem[c].adj[y] + 1
<1>1. CASE CanTake(sem[h]) /\ sem' = [sem EXCEPT ![h] = Taken(@, x)]
  <2>1. /\ sem[h] \in Semaphores(Procs) /\ sem'[h] = Taken(sem[h], x)
        /\ \A c \in Controllers \ {h} : sem'[c] = sem[c]
    BY <1>1 DEF TypeOK
  <2>2. /\ KeepsUnits(sem[h], sem'[h])
        /\ sem'[h].adj[x] = sem[h].adj[x] + 1
        /\ \A y \in Procs \ {x} : sem'[h].adj[y] = sem[h].adj[y]
    BY <1>1, <2>1, TakenUnits
  <2>3. \A c \in Controllers \ {h} : KeepsUnits(sem[c], sem'[c])
    BY <2>1, UnitsType DEF TypeOK, KeepsUnits
  <2> QED
    BY <2>1, <2>2, <2>3
<1>2. CASE UNCHANGED sem
  BY <1>2, SameUnits
<1> QED
  BY <1>1, <1>2 DEF binarySemaphoreWait

(* x posts h's semaphore, which has been opened or is gone.                *)
LEMMA PostUnits ==
  ASSUME FiniteProcs, TypeOK, LeakInv, NEW x \in Procs, NEW h \in Controllers,
         binarySemaphorePost(x, h), ~(sem[h].exists /\ Unopened(sem[h]))
  PROVE  \A c \in Controllers :
           /\ KeepsUnits(sem[c], sem'[c])
           /\ \A y \in Procs :
                IF y = x /\ c = h
                  THEN sem'[c].adj[y] = sem[c].adj[y] - 1 \/ sem'[c].adj[y] = 0
                  ELSE sem'[c].adj[y] = sem[c].adj[y]
<1>1. /\ sem[h] \in Semaphores(Procs) /\ sem'[h] = Given(sem[h], x)
      /\ \A c \in Controllers \ {h} : sem'[c] = sem[c]
  BY DEF TypeOK, binarySemaphorePost
<1>2. sem[h].exists \/ Unopened(sem[h])
  BY DEF LeakInv, UnitKept
<1>3. /\ KeepsUnits(sem[h], sem'[h])
      /\ sem'[h].adj[x] = sem[h].adj[x] - 1 \/ sem'[h].adj[x] = 0
      /\ \A y \in Procs \ {x} : sem'[h].adj[y] = sem[h].adj[y]
  BY <1>1, <1>2, GivenUnits
<1>4. \A c \in Controllers \ {h} : KeepsUnits(sem[c], sem'[c])
  BY <1>1, UnitsType DEF TypeOK, KeepsUnits
<1> QED
  BY <1>1, <1>3, <1>4

(* After a wait its caller is inside, and owed at most the unit it took.   *)
LEMMA WaitUndos ==
  ASSUME FiniteProcs, TypeOK, LeakInv, NEW x \in Procs, NEW h \in Controllers,
         binarySemaphoreWait(x, h), ~Locked(x, h), Locked(x, h)',
         \A c \in Controllers, y \in Procs : Locked(y, c) => Locked(y, c)'
  PROVE  UndosLocked'
<1> SUFFICES ASSUME NEW c \in Controllers, NEW y \in Procs
             PROVE  sem'[c].adj[y] <= 1 /\ (Locked(y, c)' \/ sem'[c].adj[y] <= 0)
  BY DEF UndosLocked
<1>1. sem[c].adj[y] \in Int
  BY SemaphoreFields DEF TypeOK
<1>2. \/ sem'[c].adj[y] = sem[c].adj[y]
      \/ y = x /\ c = h /\ sem'[c].adj[y] = sem[c].adj[y] + 1
  BY WaitUnits
<1>3. sem[c].adj[y] <= 1 /\ (Locked(y, c) \/ sem[c].adj[y] <= 0)
  BY DEF LeakInv, UndosLocked
<1> QED
  BY <1>1, <1>2, <1>3

(* After a post its caller is outside, and owed nothing.                   *)
LEMMA PostUndos ==
  ASSUME FiniteProcs, TypeOK, LeakInv, NEW x \in Procs, NEW h \in Controllers,
         binarySemaphorePost(x, h), ~(sem[h].exists /\ Unopened(sem[h])),
         \A c \in Controllers, y \in Procs :
           Locked(y, c) /\ ~(y = x /\ c = h) => Locked(y, c)'
  PROVE  UndosLocked'
<1> SUFFICES ASSUME NEW c \in Controllers, NEW y \in Procs
             PROVE  sem'[c].adj[y] <= 1 /\ (Locked(y, c)' \/ sem'[c].adj[y] <= 0)
  BY DEF UndosLocked
<1>1. sem[c].adj[y] \in Int
  BY SemaphoreFields DEF TypeOK
<1>2. IF y = x /\ c = h
        THEN sem'[c].adj[y] = sem[c].adj[y] - 1 \/ sem'[c].adj[y] = 0
        ELSE sem'[c].adj[y] = sem[c].adj[y]
  BY PostUnits
<1>3. sem[c].adj[y] <= 1 /\ (Locked(y, c) \/ sem[c].adj[y] <= 0)
  BY DEF LeakInv, UndosLocked
<1> QED
  BY <1>1, <1>2, <1>3

(* Application p returns from its wait.                                    *)
LEMMA AppWaitsLeak ==
  ASSUME FiniteProcs, TypeOK, TypeOK', LeakInv, NEW p \in Pids, NEW l \in CheckPCs,
         proc[p] = "running", pc[p] \in {"attachWait", "detachWait"}, WaitRegister(p, l)
  PROVE  LeakInv'
<1> DEFINE h == home[p]
<1>1. /\ h \in Controllers /\ p \in Procs /\ binarySemaphoreWait(p, h)
      /\ pc'[p] = l /\ \A q \in Pids \ {p} : pc'[q] = pc[q]
      /\ UNCHANGED <<proc, home, reg, ctl, cpc, started>>
  BY DEF TypeOK, WaitRegister, Goto, Procs, ctlVars
<1>2. \A c \in Controllers, x \in Procs :
        Locked(x, c)' <=> Locked(x, c) \/ (x = p /\ c = h)
  BY <1>1 DEF Locked, AppLocked, ControllerLocked, LockedPCs
<1>3. ~Locked(p, h)
  BY <1>1 DEF Locked, AppLocked, LockedPCs, CheckPCs
<1> HIDE DEF h
<1>4. UndosLocked'
  BY <1>1, <1>2, <1>3, WaitUndos
<1>5. \A c \in Controllers : KeepsUnits(sem[c], sem'[c])
  BY <1>1, WaitUnits
<1>6. \A c \in Controllers, q \in Pids :
        AppLocked(q, c)' /\ pc'[q] \notin CheckPCs
          => AppLocked(q, c) /\ pc[q] \notin CheckPCs
  BY <1>1 DEF AppLocked
<1> QED
  BY <1>1, <1>4, <1>5, <1>6, LeakKept DEF NotBooted

(* Application p, having found the register, posts and leaves.             *)
LEMMA AppPostsLeak ==
  ASSUME FiniteProcs, TypeOK, TypeOK', LeakInv, NEW p \in Pids,
         NEW l \in {"attached", "detachData"},
         proc[p] = "running", pc[p] \in {"attachPost", "detachPost"}, PostRegister(p, l)
  PROVE  LeakInv'
<1> DEFINE h == home[p]
<1>1. /\ h \in Controllers /\ p \in Procs /\ binarySemaphorePost(p, h)
      /\ pc'[p] = l /\ \A q \in Pids \ {p} : pc'[q] = pc[q]
      /\ UNCHANGED <<proc, home, reg, ctl, cpc, started>>
  BY DEF TypeOK, PostRegister, Goto, Procs, ctlVars
<1>2. AppLocked(p, h) /\ pc[p] \notin CheckPCs
  BY DEF AppLocked, LockedPCs, CheckPCs
<1>3. ~(sem[h].exists /\ Unopened(sem[h]))
  BY <1>1, <1>2 DEF LeakInv, NoneServed, NotOpened
<1>4. \A c \in Controllers, x \in Procs :
        Locked(x, c) /\ ~(x = p /\ c = h) => Locked(x, c)'
  BY <1>1 DEF Locked, AppLocked, ControllerLocked
<1> HIDE DEF h
<1>5. UndosLocked'
  BY <1>1, <1>3, <1>4, PostUndos
<1>6. \A c \in Controllers : KeepsUnits(sem[c], sem'[c])
  BY <1>1, <1>3, PostUnits
<1>7. \A c \in Controllers, q \in Pids :
        AppLocked(q, c)' /\ pc'[q] \notin CheckPCs
          => AppLocked(q, c) /\ pc[q] \notin CheckPCs
  BY <1>1 DEF AppLocked, LockedPCs, CheckPCs
<1> QED
  BY <1>1, <1>5, <1>6, <1>7, LeakKept DEF NotBooted

(* The controller returns from its wait.                                   *)
LEMMA ControllerLocksLeak ==
  ASSUME FiniteProcs, TypeOK, TypeOK', LeakInv,
         NEW from \in {"bootLock", "idle"}, NEW to \in {"create", "run", "destroy"},
         Lock(from, to)
  PROVE  LeakInv'
<1>1. /\ cpc = from /\ cpc' = to /\ binarySemaphoreWait(ctl, ctl)
      /\ UNCHANGED <<proc, pc, home, reg, ctl, started>>
  BY DEF Lock, ControllerGoto, appVars
<1>2. ctl \in Controllers /\ ctl \in Procs /\ ctl \notin Pids
  BY <1>1, PidsAssumption DEF TypeOK, ControllerRuns, Ended, Procs
<1>3. \A c \in Controllers, x \in Procs :
        Locked(x, c)' <=> Locked(x, c) \/ (x = ctl /\ c = ctl)
  BY <1>1, <1>2 DEF Locked, AppLocked, ControllerLocked, ControllerLockedPCs
<1>4. ~Locked(ctl, ctl)
  BY <1>1, <1>2 DEF Locked, ControllerLocked, ControllerLockedPCs
<1>5. UndosLocked'
  BY <1>2, <1>1, <1>3, <1>4, WaitUndos
<1>6. \A c \in Controllers : KeepsUnits(sem[c], sem'[c])
  BY <1>1, <1>2, WaitUnits
<1>7. cpc \in OpenedPCs /\ cpc' # "semInit" /\ cpc' # "boot"
  BY <1>1 DEF OpenedPCs, Serving
<1> QED
  BY <1>1, <1>5, <1>6, <1>7, LeakKept DEF NotBooted, AppLocked

(* The controller posts.                                                   *)
LEMMA ControllerUnlocksLeak ==
  ASSUME FiniteProcs, TypeOK, TypeOK', LeakInv,
         NEW from \in {"bootUnlock", "run", "destroyUnlock"},
         NEW to \in {"setup", "idle", "semDestroy"},
         Unlock(from, to)
  PROVE  LeakInv'
<1>1. /\ cpc = from /\ cpc' = to /\ binarySemaphorePost(ctl, ctl)
      /\ UNCHANGED <<proc, pc, home, reg, ctl, started>>
  BY DEF Unlock, ControllerGoto, appVars
<1>2. ctl \in Controllers /\ ctl \in Procs /\ ctl \notin Pids
  BY <1>1, PidsAssumption DEF TypeOK, ControllerRuns, Ended, Procs
<1>3. \A c \in Controllers, x \in Procs :
        Locked(x, c) /\ ~(x = ctl /\ c = ctl) => Locked(x, c)'
  BY <1>1, <1>2 DEF Locked, AppLocked, ControllerLocked
<1>4. cpc \in OpenedPCs /\ cpc' # "semInit" /\ cpc' # "boot"
  BY <1>1 DEF OpenedPCs, ControllerLockedPCs
<1>5. ~(sem[ctl].exists /\ Unopened(sem[ctl]))
  BY <1>4 DEF LeakInv, OpenedState
<1>6. UndosLocked'
  BY <1>1, <1>2, <1>3, <1>5, PostUndos
<1>7. \A c \in Controllers : KeepsUnits(sem[c], sem'[c])
  BY <1>1, <1>2, <1>5, PostUnits
<1> QED
  BY <1>1, <1>4, <1>6, <1>7, LeakKept DEF NotBooted, AppLocked

(* A step of an application inside the client library keeps LeakInv.       *)
LEMMA LeakAppStep ==
  ASSUME FiniteProcs, TypeOK, TypeOK', LeakInv, NEW p \in Pids, AppStep(p)
  PROVE  LeakInv'
<1> USE DEF At, appVars, ipcVars, osVars, policyVars, ctlVars
<1>1. ASSUME NEW l \in {"attachWait", "detachWait"},
             proc[p] = "running", pc[p] \in {"attachSem", "detachSem"},
             GetRegisterSem(p, l)
      PROVE  LeakInv'
  <2>1. CASE sem[home[p]].exists
    <3>1. /\ pc'[p] = l /\ \A q \in Pids \ {p} : pc'[q] = pc[q]
          /\ UNCHANGED <<proc, home, sem, reg, ctl, cpc, started>>
      BY <1>1, <2>1 DEF GetRegisterSem, Continues, Goto, TypeOK
    <3>2. pc[p] \notin LockedPCs /\ pc'[p] \notin LockedPCs
      BY <1>1, <3>1 DEF LockedPCs, CheckPCs
    <3> QED
      BY <3>1, <3>2, LeakAppMoves DEF AppLocked
  <2>2. CASE ~sem[home[p]].exists
    BY <1>1, <2>2, DiesLeak DEF GetRegisterSem
  <2> QED
    BY <2>1, <2>2
<1>2. ASSUME NEW l \in {"attachWrite", "detachWrite"},
             proc[p] = "running", pc[p] \in CheckPCs,
             reg[home[p]].exists /\ Continues(p, l), UNCHANGED <<reg, ctlVars>>
      PROVE  LeakInv'
  <2>1. /\ pc'[p] = l /\ \A q \in Pids \ {p} : pc'[q] = pc[q]
        /\ UNCHANGED <<proc, home, sem, reg, ctl, cpc, started>>
    BY <1>2 DEF Continues, Goto, TypeOK, CheckPCs
  <2>2. /\ \A c \in Controllers : AppLocked(p, c) => AppLocked(p, c)'
        /\ \A c \in Controllers : AppLocked(p, c)' => reg[c].exists
    BY <1>2, <2>1 DEF AppLocked, LockedPCs
  <2> QED
    BY <2>1, <2>2, LeakAppMoves
<1>3. ASSUME NEW l \in {"attachPost", "detachPost"},
             proc[p] = "running", pc[p] \in {"attachWrite", "detachWrite"}, Goto(p, l),
             UNCHANGED <<proc, home, sem, ctlVars>>,
             \A c \in Controllers : reg'[c].exists = reg[c].exists
      PROVE  LeakInv'
  <2>1. /\ pc'[p] = l /\ \A q \in Pids \ {p} : pc'[q] = pc[q]
        /\ UNCHANGED <<proc, home, sem, ctl, cpc, started>>
    BY <1>3 DEF Goto, TypeOK
  <2>2. \A c \in Controllers :
          AppLocked(p, c)' <=> AppLocked(p, c) /\ pc[p] \notin CheckPCs
    BY <1>3, <2>1 DEF AppLocked, LockedPCs, CheckPCs
  <2>3. pc[p] \notin CheckPCs
    BY <1>3 DEF CheckPCs
  <2> QED
    BY <1>3, <2>1, <2>2, <2>3, LeakAppMoves
<1>4. CASE AttachSem(p) \/ DetachSem(p)
  BY <1>1, <1>4 DEF AttachSem, DetachSem
<1>5. CASE AttachWait(p) \/ DetachWait(p)
  BY <1>5, AppWaitsLeak DEF AttachWait, DetachWait, CheckPCs
<1>6. CASE AttachCheck(p)
  <2>1. CASE reg[home[p]].exists /\ Len(reg[home[p]].newApps) # MaxApps
    BY <1>2, <1>6, <2>1 DEF AttachCheck, CheckPCs
  <2>2. CASE ~(reg[home[p]].exists /\ Len(reg[home[p]].newApps) # MaxApps)
    BY <1>6, <2>2, DiesLeak DEF AttachCheck
  <2> QED
    BY <2>1, <2>2
<1>7. CASE DetachCheck(p)
  <2>1. CASE reg[home[p]].exists /\ Len(reg[home[p]].detachedApps) # MaxApps
    BY <1>2, <1>7, <2>1 DEF DetachCheck, CheckPCs
  <2>2. CASE ~(reg[home[p]].exists /\ Len(reg[home[p]].detachedApps) # MaxApps)
    BY <1>7, <2>2, DiesLeak DEF DetachCheck
  <2> QED
    BY <2>1, <2>2
<1>8. CASE AttachWrite(p) \/ DetachWrite(p)
  <2>1. home[p] \in Controllers
    BY <1>8 DEF AttachWrite, DetachWrite, TypeOK
  <2>2. ASSUME AttachWrite(p), NEW c \in Controllers
        PROVE  reg'[c].exists = reg[c].exists
    BY <2>1, <2>2 DEF AttachWrite, TypeOK, Registers
  <2>3. ASSUME DetachWrite(p), NEW c \in Controllers
        PROVE  reg'[c].exists = reg[c].exists
    BY <2>1, <2>3 DEF DetachWrite, TypeOK, Registers
  <2> QED
    BY <1>3, <1>8, <2>2, <2>3 DEF AttachWrite, DetachWrite
<1>9. CASE AttachPost(p) \/ DetachPost(p)
  BY <1>9, AppPostsLeak DEF AttachPost, DetachPost
<1>10. CASE DetachData(p)
  <2>1. /\ pc[p] = "detachData" /\ pc'[p] = "idle"
        /\ \A q \in Pids \ {p} : pc'[q] = pc[q] /\ home'[q] = home[q]
        /\ UNCHANGED <<proc, sem, reg, ctl, cpc, started>>
    BY <1>10 DEF DetachData, Goto, TypeOK
  <2>2. pc[p] \notin LockedPCs /\ pc'[p] \notin LockedPCs
    BY <2>1 DEF LockedPCs, CheckPCs
  <2> QED
    BY <2>1, <2>2, LeakAppMoves DEF AppLocked
<1> QED
  BY <1>4, <1>5, <1>6, <1>7, <1>8, <1>9, <1>10 DEF AppStep

(* So does what applications, users and the derived class do.              *)
LEMMA LeakEnvironment ==
  ASSUME FiniteProcs, TypeOK, TypeOK', LeakInv, Environment
  PROVE  LeakInv'
<1> USE DEF At, appVars, ipcVars, osVars, policyVars, ctlVars
<1>1. ASSUME NEW p \in Pids, Spawn(p) \/ Reap(p) PROVE LeakInv'
  BY <1>1, LeakStutter DEF Spawn, Reap, TypeOK
<1>2. ASSUME NEW p \in Pids, Crash(p) \/ AttachRefused(p) PROVE LeakInv'
  BY <1>2, DiesLeak DEF Crash, AttachRefused
<1>3. ASSUME NEW p \in Pids, NEW l \in {"attachSem", "detachSem"},
             pc[p] \in {"idle", "attached"}, Goto(p, l), home' = [home EXCEPT ![p] = ctl],
             UNCHANGED <<proc, sem, reg, ctl, cpc, started>>
      PROVE  LeakInv'
  <2>1. pc'[p] = l /\ \A q \in Pids \ {p} : pc'[q] = pc[q] /\ home'[q] = home[q]
    BY <1>3 DEF Goto, TypeOK
  <2>2. pc[p] \notin LockedPCs /\ pc'[p] \notin LockedPCs
    BY <1>3, <2>1 DEF LockedPCs, CheckPCs
  <2> QED
    BY <1>3, <2>1, <2>2, LeakAppMoves DEF AppLocked
<1>4. ASSUME NEW p \in Pids, AttachCreate(p) PROVE LeakInv'
  BY <1>3, <1>4 DEF AttachCreate, CreateData
<1>5. ASSUME NEW p \in Pids, DetachBegin(p) PROVE LeakInv'
  <2>1. CASE ControllerRuns
    BY <1>3, <1>5, <2>1 DEF DetachBegin
  <2>2. CASE ~ControllerRuns
    BY <1>5, <2>2, DiesLeak DEF DetachBegin
  <2> QED
    BY <2>1, <2>2
<1>6. ASSUME NEW p \in Pids, NEW k \in Cores, AssignCore(p, k) PROVE LeakInv'
  BY <1>6, LeakStutter DEF AssignCore
<1>7. ASSUME NEW c \in Controllers, Start(c) PROVE LeakInv'
  <2>1. /\ ctl' = c /\ cpc' = "boot" /\ started' = started \cup {c} /\ c \notin started
        /\ cpc \in Ended /\ UNCHANGED <<proc, pc, home, sem, reg>>
    BY <1>7 DEF Start
  <2>2. \A d \in Controllers, x \in Procs : Locked(x, d) => Locked(x, d)'
    BY <2>1 DEF Locked, AppLocked, ControllerLocked, ControllerLockedPCs, Ended
  <2>3. UndosLocked'
    BY <2>1, <2>2 DEF LeakInv, UndosLocked
  <2>4. \A d \in Controllers : NotBooted(d)' => NotBooted(d)
    BY <2>1 DEF NotBooted
  <2>5. cpc' # "semInit" /\ cpc' \notin OpenedPCs
    BY <2>1 DEF OpenedPCs, ControllerLockedPCs, Serving
  <2> QED
    BY <2>1, <2>3, <2>4, <2>5, SameUnits, LeakKept DEF AppLocked
<1>8. CASE ControllerCrash
  <2>1. ctl \in Controllers
    BY <1>8 DEF ControllerCrash, TypeOK
  <2> QED
    BY <1>8, <2>1, ControllerEndsLeak DEF ControllerCrash, Ended
<1>9. CASE DestroyBegin
  BY <1>9, ControllerLocksLeak DEF DestroyBegin
<1> QED
  BY <1>1, <1>2, <1>4, <1>5, <1>6, <1>7, <1>8, <1>9 DEF Environment

(* The controller moves without a semaphore call, and may remove its       *)
(* register.                                                               *)
LEMMA ControllerMovesLeak ==
  ASSUME FiniteProcs, TypeOK, TypeOK', LeakInv,
         UNCHANGED <<proc, pc, home, sem, ctl, started>>,
         \A c \in Controllers : reg'[c].exists => reg[c].exists,
         cpc \in ControllerLockedPCs => cpc' \in ControllerLockedPCs,
         cpc' # "boot", cpc' # "semInit", cpc' \in OpenedPCs => cpc \in OpenedPCs
  PROVE  LeakInv'
<1>1. \A c \in Controllers, x \in Procs : Locked(x, c) => Locked(x, c)'
  BY DEF Locked, AppLocked, ControllerLocked
<1>2. UndosLocked'
  BY <1>1 DEF LeakInv, UndosLocked
<1>3. \A c \in Controllers, p \in Pids : AppLocked(p, c)' <=> AppLocked(p, c)
  BY DEF AppLocked
<1> QED
  BY <1>2, <1>3, SameUnits, LeakKept DEF NotBooted

(* The steps of Policy::Policy keep LeakInv: the semaphore is opened       *)
(* before there is a register.                                             *)
LEMMA LeakBoot ==
  ASSUME FiniteProcs, TypeOK, TypeOK', LeakInv, Boot
  PROVE  LeakInv'
<1> USE DEF appVars, ipcVars, osVars, policyVars, ctlVars
<1>1. cpc \notin Ended => ctl \in Controllers /\ ctl \in started
  BY DEF TypeOK, ControllerRuns
<1>2. CASE SemaphoreCreate
  <2>1. /\ cpc = "boot" /\ cpc' = "semInit" /\ ctl \in Controllers
        /\ UNCHANGED <<proc, pc, home, reg, ctl, started>>
    BY <1>1, <1>2 DEF SemaphoreCreate, ControllerGoto, Ended
  <2>2. /\ sem'[ctl] = Created(Procs)
        /\ \A c \in Controllers \ {ctl} : sem'[c] = sem[c]
    BY <1>2, <2>1 DEF SemaphoreCreate, TypeOK
  <2>3. /\ sem'[ctl].exists /\ Unopened(sem'[ctl])
        /\ \A x \in Procs : sem'[ctl].adj[x] = 0
    BY <2>2 DEF Created, Unopened
  <2>4. \A c \in Controllers, x \in Procs : Locked(x, c) => Locked(x, c)'
    BY <2>1 DEF Locked, AppLocked, ControllerLocked, ControllerLockedPCs
  <2>5. UndosLocked'
    <3> SUFFICES ASSUME NEW c \in Controllers, NEW x \in Procs
                 PROVE  sem'[c].adj[x] <= 1 /\ (Locked(x, c)' \/ sem'[c].adj[x] <= 0)
      BY DEF UndosLocked
    <3>1. CASE c = ctl
      <4>1. sem'[c].adj[x] = 0
        BY <2>3, <3>1
      <4> QED
        BY <4>1
    <3>2. CASE c # ctl
      BY <2>2, <2>4, <3>2 DEF LeakInv, UndosLocked
    <3> QED
      BY <3>1, <3>2
  <2>6. UnitKept'
    BY <2>2, <2>3 DEF LeakInv, UnitKept
  <2>7. NoneServed'
    <3> SUFFICES ASSUME NEW c \in Controllers, NotOpened(c)'
                 PROVE  /\ ~reg'[c].exists
                        /\ \A p \in Pids : AppLocked(p, c)' => pc'[p] \in CheckPCs
      BY DEF NoneServed
    <3>1. NotOpened(c)
      BY <2>1, <2>2 DEF NotOpened, NotBooted
    <3> QED
      BY <2>1, <3>1 DEF LeakInv, NoneServed, AppLocked
  <2>8. OpenedState'
    BY <2>1, <2>3 DEF OpenedState, OpenedPCs, ControllerLockedPCs, Serving
  <2> QED
    BY <2>5, <2>6, <2>7, <2>8 DEF LeakInv
<1>3. CASE SemaphoreInit
  <2>1. /\ cpc = "semInit" /\ cpc' = "bootLock" /\ ctl \in Controllers /\ ctl \in started
        /\ UNCHANGED <<proc, pc, home, reg, ctl, started>>
    BY <1>1, <1>3 DEF SemaphoreInit, ControllerGoto, Ended
  <2>2. /\ sem'[ctl] = SetToOne(sem[ctl])
        /\ \A c \in Controllers \ {ctl} : sem'[c] = sem[c]
    BY <1>3, <2>1 DEF SemaphoreInit, TypeOK
  <2>3. sem[ctl] \in Semaphores(Procs) /\ sem'[ctl] \in Semaphores(Procs)
    BY <2>1 DEF TypeOK
  <2>4. /\ sem'[ctl].exists /\ sem'[ctl].val = 1
        /\ \A x \in Procs : sem'[ctl].adj[x] = 0
    BY <2>1, <2>2, <2>3, SetToOneType DEF LeakInv, OpenedState
  <2>5. Units(sem'[ctl]) = 1 /\ ~Unopened(sem'[ctl])
    <3>1. SumFunctionOnSet(sem'[ctl].adj, Procs) = 0
      BY <2>4, SumZero DEF FiniteProcs
    <3> QED
      BY <2>4, <3>1 DEF Units, Unopened
  <2>6. \A c \in Controllers, x \in Procs : Locked(x, c) => Locked(x, c)'
    BY <2>1 DEF Locked, AppLocked, ControllerLocked, ControllerLockedPCs
  <2>7. UndosLocked'
    <3> SUFFICES ASSUME NEW c \in Controllers, NEW x \in Procs
                 PROVE  sem'[c].adj[x] <= 1 /\ (Locked(x, c)' \/ sem'[c].adj[x] <= 0)
      BY DEF UndosLocked
    <3>1. CASE c = ctl
      <4>1. sem'[c].adj[x] = 0
        BY <2>4, <3>1
      <4> QED
        BY <4>1
    <3>2. CASE c # ctl
      BY <2>2, <2>6, <3>2 DEF LeakInv, UndosLocked
    <3> QED
      BY <3>1, <3>2
  <2>8. UnitKept'
    BY <2>2, <2>4, <2>5 DEF LeakInv, UnitKept
  <2>9. NoneServed'
    <3> SUFFICES ASSUME NEW c \in Controllers, NotOpened(c)'
                 PROVE  /\ ~reg'[c].exists
                        /\ \A p \in Pids : AppLocked(p, c)' => pc'[p] \in CheckPCs
      BY DEF NoneServed
    <3>1. c # ctl
      BY <2>1, <2>5 DEF NotOpened, NotBooted
    <3>2. NotOpened(c)
      BY <2>1, <2>2, <3>1 DEF NotOpened, NotBooted
    <3> QED
      BY <2>1, <3>2 DEF LeakInv, NoneServed, AppLocked
  <2>10. OpenedState'
    BY <2>1, <2>4, <2>5 DEF OpenedState
  <2> QED
    BY <2>7, <2>8, <2>9, <2>10 DEF LeakInv
<1>4. CASE BootLock
  BY <1>4, ControllerLocksLeak DEF BootLock
<1>5. CASE RegisterCreate
  <2>1. /\ cpc = "create" /\ cpc' = "bootUnlock" /\ ctl \in Controllers /\ ctl \in started
        /\ UNCHANGED <<proc, pc, home, sem, ctl, started>>
    BY <1>1, <1>5 DEF RegisterCreate, ControllerGoto, Ended
  <2>2. \A c \in Controllers \ {ctl} : reg'[c] = reg[c]
    BY <1>5, <2>1 DEF RegisterCreate, TypeOK
  <2>3. sem[ctl].exists /\ ~Unopened(sem[ctl])
    BY <2>1 DEF LeakInv, OpenedState, OpenedPCs, ControllerLockedPCs
  <2>4. \A c \in Controllers, x \in Procs : Locked(x, c) => Locked(x, c)'
    BY <2>1 DEF Locked, AppLocked, ControllerLocked, ControllerLockedPCs
  <2>5. UndosLocked' /\ UnitKept' /\ OpenedState'
    BY <2>1, <2>3, <2>4 DEF LeakInv, UndosLocked, UnitKept, OpenedState
  <2>6. NoneServed'
    <3> SUFFICES ASSUME NEW c \in Controllers, NotOpened(c)'
                 PROVE  /\ ~reg'[c].exists
                        /\ \A p \in Pids : AppLocked(p, c)' => pc'[p] \in CheckPCs
      BY DEF NoneServed
    <3>1. c # ctl
      BY <2>1, <2>3 DEF NotOpened, NotBooted
    <3>2. NotOpened(c)
      BY <2>1, <3>1 DEF NotOpened, NotBooted
    <3> QED
      BY <2>1, <2>2, <3>1, <3>2 DEF LeakInv, NoneServed, AppLocked
  <2> QED
    BY <2>5, <2>6 DEF LeakInv
<1>6. CASE BootUnlock
  BY <1>6, ControllerUnlocksLeak DEF BootUnlock
<1>7. CASE SetupGroups
  <2>1. /\ cpc = "setup" /\ ctl \in Controllers
        /\ UNCHANGED <<proc, pc, home, reg, ctl, started>>
        /\ ControllerEnds("failed") \/ (cpc' = "idle" /\ UNCHANGED sem)
    BY <1>1, <1>7 DEF SetupGroups, Ended
  <2>2. CASE ControllerEnds("failed")
    BY <2>1, <2>2, ControllerEndsLeak DEF Ended
  <2>3. CASE cpc' = "idle" /\ UNCHANGED sem
    BY <2>1, <2>3, ControllerMovesLeak DEF OpenedPCs, ControllerLockedPCs
  <2> QED
    BY <2>1, <2>2, <2>3
<1> QED
  BY <1>2, <1>3, <1>4, <1>5, <1>6, <1>7 DEF Boot

(* The steps of a cycle of run() keep LeakInv.                             *)
LEMMA LeakRun ==
  ASSUME FiniteProcs, TypeOK, TypeOK', LeakInv, Run
  PROVE  LeakInv'
<1> USE DEF appVars, ipcVars, osVars, policyVars, ctlVars
<1>1. cpc \notin Ended => ctl \in Controllers
  BY DEF TypeOK, ControllerRuns
<1>2. CASE RunBegin
  BY <1>2, ControllerLocksLeak DEF RunBegin
<1>3. ASSUME NEW p \in Pids, DeregisterDeadApp(p) PROVE LeakInv'
  BY <1>3, LeakStutter DEF DeregisterDeadApp
<1>4. ASSUME NEW r, HelperReturns(r), \A c \in Controllers : r[c].exists = reg[c].exists
      PROVE  LeakInv'
  BY <1>4, LeakStutter DEF HelperReturns
<1>5. CASE DeadAppsDone
  BY <1>4, <1>5 DEF DeadAppsDone
<1>6. CASE DetachedAppsDone \/ NewAppsDone
  <2>1. \A c \in Controllers :
          /\ [reg EXCEPT ![ctl].detachedApps = <<>>][c].exists = reg[c].exists
          /\ [reg EXCEPT ![ctl].newApps = <<>>][c].exists = reg[c].exists
    BY DEF TypeOK, Registers
  <2> QED
    BY <1>4, <1>6, <2>1 DEF DetachedAppsDone, NewAppsDone
<1>7. CASE DeregisterDetachedApp \/ RegisterNewApp
  <2>1. UNCHANGED <<appVars, reg, ctl, started>> /\ ctl \in Controllers
    BY <1>1, <1>7 DEF DeregisterDetachedApp, RegisterNewApp, Ended
  <2>2. UNCHANGED <<sem, cpc>> \/ ControllerEnds("crashed") \/ ControllerEnds("failed")
    BY <1>7 DEF DeregisterDetachedApp, RegisterNewApp
  <2> QED
    BY <2>1, <2>2, LeakStutter, ControllerEndsLeak DEF Ended
<1>8. CASE RunEnd
  BY <1>8, ControllerUnlocksLeak DEF RunEnd
<1> QED
  BY <1>2, <1>3, <1>5, <1>6, <1>7, <1>8 DEF Run

(* The steps of Policy::~Policy keep LeakInv.                              *)
LEMMA LeakDestroy ==
  ASSUME FiniteProcs, TypeOK, TypeOK', LeakInv, Destroy
  PROVE  LeakInv'
<1> USE DEF appVars, ipcVars, osVars, policyVars, ctlVars
<1>1. cpc \notin Ended => ctl \in Controllers /\ ctl \in started
  BY DEF TypeOK, ControllerRuns
<1>2. CASE RegisterDestroy
  <2>1. /\ cpc = "destroy" /\ ctl \in Controllers
        /\ UNCHANGED <<proc, pc, home, ctl, started>>
    BY <1>1, <1>2 DEF RegisterDestroy, Ended
  <2>2. CASE reg[ctl].newApps = <<>>
    <3>1. /\ cpc' = "destroyUnlock" /\ UNCHANGED sem
          /\ ~reg'[ctl].exists
          /\ \A c \in Controllers \ {ctl} : reg'[c] = reg[c]
      BY <1>2, <2>1, <2>2 DEF RegisterDestroy, NoRegister, TypeOK
    <3> QED
      BY <2>1, <3>1, ControllerMovesLeak DEF OpenedPCs, ControllerLockedPCs
  <2>3. CASE reg[ctl].newApps # <<>>
    BY <1>2, <2>1, <2>3, ControllerEndsLeak DEF RegisterDestroy, Ended
  <2> QED
    BY <2>2, <2>3
<1>3. CASE DestroyUnlock
  BY <1>3, ControllerUnlocksLeak DEF DestroyUnlock
<1>4. CASE SemaphoreDestroy
  <2>1. /\ cpc = "semDestroy" /\ cpc' = "groupsDestroy" /\ ctl \in Controllers
        /\ UNCHANGED <<proc, pc, home, reg, ctl, started>>
    BY <1>1, <1>4 DEF SemaphoreDestroy, ControllerGoto, Ended
  <2>2. /\ sem'[ctl] = NoSem(Procs)
        /\ \A c \in Controllers \ {ctl} : sem'[c] = sem[c]
    BY <1>4, <2>1 DEF SemaphoreDestroy, TypeOK
  <2>3. /\ Unopened(sem'[ctl]) /\ ~sem'[ctl].exists
        /\ \A x \in Procs : sem'[ctl].adj[x] = 0
    BY <2>2 DEF NoSem, Unopened
  <2>4. \A c \in Controllers, x \in Procs : Locked(x, c) => Locked(x, c)'
    BY <2>1 DEF Locked, AppLocked, ControllerLocked, ControllerLockedPCs
  <2>5. UndosLocked'
    <3> SUFFICES ASSUME NEW c \in Controllers, NEW x \in Procs
                 PROVE  sem'[c].adj[x] <= 1 /\ (Locked(x, c)' \/ sem'[c].adj[x] <= 0)
      BY DEF UndosLocked
    <3>1. CASE c = ctl
      <4>1. sem'[c].adj[x] = 0
        BY <2>3, <3>1
      <4> QED
        BY <4>1
    <3>2. CASE c # ctl
      BY <2>2, <2>4, <3>2 DEF LeakInv, UndosLocked
    <3> QED
      BY <3>1, <3>2
  <2>6. UnitKept'
    BY <2>2, <2>3 DEF LeakInv, UnitKept
  <2>7. NoneServed'
    <3> SUFFICES ASSUME NEW c \in Controllers, NotOpened(c)'
                 PROVE  /\ ~reg'[c].exists
                        /\ \A p \in Pids : AppLocked(p, c)' => pc'[p] \in CheckPCs
      BY DEF NoneServed
    <3>1. NotOpened(c)
      BY <2>1, <2>2, <2>3 DEF NotOpened, NotBooted
    <3> QED
      BY <2>1, <3>1 DEF LeakInv, NoneServed, AppLocked
  <2>8. OpenedState'
    BY <2>1 DEF OpenedState, OpenedPCs, ControllerLockedPCs, Serving
  <2> QED
    BY <2>5, <2>6, <2>7, <2>8 DEF LeakInv
<1>5. CASE GroupsDestroy
  BY <1>5, ControllerMovesLeak
     DEF GroupsDestroy, ControllerGoto, OpenedPCs, ControllerLockedPCs, Serving
<1>6. ASSUME NEW p \in Pids, DropApp(p) PROVE LeakInv'
  BY <1>6, LeakStutter DEF DropApp
<1>7. CASE DestroyEnd
  <2>1. ctl \in Controllers
    BY <1>1, <1>7 DEF DestroyEnd, Ended
  <2> QED
    BY <1>7, <2>1, ControllerEndsLeak DEF DestroyEnd, Ended
<1> QED
  BY <1>2, <1>3, <1>4, <1>5, <1>6, <1>7 DEF Destroy

(* LeakInv is inductive, given the types.                                  *)
LEMMA LeakNext ==
  ASSUME FiniteProcs
  PROVE  TypeOK /\ TypeOK' /\ LeakInv /\ [Next]_vars => LeakInv'
<1> SUFFICES ASSUME TypeOK, TypeOK', LeakInv, [Next]_vars PROVE LeakInv'
  OBVIOUS
<1>1. CASE Next
  BY <1>1, LeakEnvironment, LeakAppStep, LeakBoot, LeakRun, LeakDestroy
     DEF Next, ControllerStep
<1>2. CASE UNCHANGED vars
  BY <1>2, LeakStutter DEF vars, appVars, ipcVars, ctlVars
<1> QED
  BY <1>1, <1>2

(* A closed and once opened semaphore has a living owner inside, whoever   *)
(* died or was interrupted: the death of a process never leaves the        *)
(* app_register locked.                                                    *)
THEOREM NotLeaked ==
  ASSUME FiniteProcs
  PROVE  Spec => []LockNotLeaked
<1>1. TypeOK /\ TypeOK' /\ LeakInv /\ [Next]_vars => LeakInv'
  BY LeakNext
<1>2. TypeOK /\ LeakInv => LockNotLeaked
  BY LeakInvNotLeaked
<1> QED
  BY <1>1, <1>2, LeakInit, TypeCorrect, PTL DEF Spec

-----------------------------------------------------------------------------
(***************************************************************************)
(* The arrays of the app_register are never overrun, for every MAX_NUM_OF_ *)
(* APPS and every number of applications.  The inductive invariant adds    *)
(* RoomForWriters to the bound; mutual exclusion (LockInv) keeps a second  *)
(* process from using up the room.                                         *)
(***************************************************************************)

QueueInv == QueueBounded /\ RoomForWriters

WritePCs == {"attachWrite", "detachWrite"}

(* The lists are sequences, and no negative room is left in the empty one. *)
LEMMA ListLengths ==
  ASSUME TypeOK, NEW c \in Controllers
  PROVE  /\ Len(reg[c].newApps) \in Nat /\ Len(reg[c].detachedApps) \in Nat
         /\ MaxApps \in Nat /\ 0 < MaxApps /\ Len(<<>>) = 0
BY RegisterLists, ParametersAssumption

(* The lists of c are as they were, or empty.                              *)
Shrunk(c) ==
  /\ reg'[c].newApps \in {reg[c].newApps, <<>>}
  /\ reg'[c].detachedApps \in {reg[c].detachedApps, <<>>}

(* A step that only empties lists and makes nobody a writer keeps the      *)
(* bound and the room of those who write.                                  *)
LEMMA ListsShrink ==
  ASSUME TypeOK, QueueInv, \A c \in Controllers : Shrunk(c),
         \A p \in Pids : pc'[p] \in WritePCs => pc'[p] = pc[p] /\ home'[p] = home[p]
  PROVE  QueueInv'
<1>1. QueueBounded'
  BY ListLengths DEF QueueInv, QueueBounded, Shrunk
<1>2. RoomForWriters'
  <2> SUFFICES ASSUME NEW p \in Pids, pc'[p] \in WritePCs
               PROVE  /\ pc'[p] = "attachWrite" => Len(reg'[home'[p]].newApps) < MaxApps
                      /\ pc'[p] = "detachWrite" => Len(reg'[home'[p]].detachedApps) < MaxApps
    BY DEF RoomForWriters, WritePCs
  <2>1. pc'[p] = pc[p] /\ home'[p] = home[p] /\ home[p] \in Controllers
    BY DEF TypeOK, WritePCs
  <2>2. Shrunk(home[p])
    BY <2>1
  <2> QED
    BY <2>1, <2>2, ListLengths DEF QueueInv, RoomForWriters, Shrunk
<1> QED
  BY <1>1, <1>2 DEF QueueInv

(* At the start there is no register, and every list is empty.             *)
LEMMA QueueInit == Init => QueueInv
<1> SUFFICES ASSUME Init PROVE QueueInv
  OBVIOUS
<1>1. \A c \in Controllers : reg[c].newApps = <<>> /\ reg[c].detachedApps = <<>>
  BY DEF Init, NoRegister
<1>2. MaxApps \in Nat /\ Len(<<>>) = 0
  BY ParametersAssumption
<1>3. QueueBounded
  BY <1>1, <1>2 DEF QueueBounded
<1>4. RoomForWriters
  BY DEF Init, RoomForWriters
<1> QED
  BY <1>3, <1>4 DEF QueueInv

(* Application p moves inside the library without touching a register.     *)
LEMMA AppMovesQueue ==
  ASSUME TypeOK, QueueInv, NEW p \in Pids, UNCHANGED reg, pc'[p] \notin WritePCs,
         \A q \in Pids \ {p} : pc'[q] = pc[q] /\ home'[q] = home[q]
  PROVE  QueueInv'
BY ListsShrink DEF Shrunk

(* The two writers are not inside the same register.                       *)
LEMMA OneWriter ==
  ASSUME TypeOK, LockInv, NEW p \in Pids, NEW q \in Pids, home[p] = home[q],
         pc[p] \in WritePCs, pc[q] \in WritePCs
  PROVE  p = q
<1>1. home[p] \in Controllers /\ proc[p] = "running" /\ proc[q] = "running"
  BY DEF TypeOK, WritePCs
<1>2. Locked(p, home[p]) /\ Locked(q, home[p])
  BY <1>1 DEF Locked, AppLocked, LockedPCs, WritePCs
<1>3. pc[p] \notin CheckPCs /\ pc[q] \notin CheckPCs
  BY DEF WritePCs, CheckPCs
<1>4. Owner(sem[home[p]], p) /\ Owner(sem[home[p]], q)
  BY <1>1, <1>2, <1>3 DEF LockInv, LockedOwn, Procs
<1> QED
  BY <1>1, <1>4, OwnerUnique DEF Procs

(* A check that finds room makes its caller a writer; one that does not    *)
(* ends the caller.                                                        *)
LEMMA ChecksQueue ==
  ASSUME TypeOK, QueueInv, NEW p \in Pids, AttachCheck(p) \/ DetachCheck(p)
  PROVE  QueueInv'
<1>1. UNCHANGED reg /\ home[p] \in Controllers
  BY DEF AttachCheck, DetachCheck, At, TypeOK
<1>2. CASE Dies(p)
  BY <1>1, <1>2, AppMovesQueue DEF Dies, TypeOK, WritePCs
<1>3. CASE ~Dies(p)
  <2>1. /\ \/ /\ Continues(p, "attachWrite")
              /\ Len(reg[home[p]].newApps) # MaxApps
           \/ /\ Continues(p, "detachWrite")
              /\ Len(reg[home[p]].detachedApps) # MaxApps
    BY <1>3 DEF AttachCheck, DetachCheck
  <2>2. /\ UNCHANGED home
        /\ \A q \in Pids \ {p} : pc'[q] = pc[q]
        /\ pc'[p] \in WritePCs
    BY <2>1 DEF Continues, Goto, TypeOK, WritePCs
  <2>3. /\ pc'[p] = "attachWrite" => Len(reg[home[p]].newApps) # MaxApps
        /\ pc'[p] = "detachWrite" => Len(reg[home[p]].detachedApps) # MaxApps
    BY <2>1 DEF Continues, Goto, TypeOK
  <2>4. /\ pc'[p] = "attachWrite" => Len(reg[home[p]].newApps) < MaxApps
        /\ pc'[p] = "detachWrite" => Len(reg[home[p]].detachedApps) < MaxApps
    BY <1>1, <2>3, ListLengths DEF QueueInv, QueueBounded
  <2>5. RoomForWriters'
    BY <1>1, <2>2, <2>4 DEF QueueInv, RoomForWriters
  <2> QED
    BY <1>1, <2>5 DEF QueueInv, QueueBounded
<1> QED
  BY <1>2, <1>3

(* A writer uses the room it found; nobody else counts on it.              *)
LEMMA WritesQueue ==
  ASSUME TypeOK, LockInv, QueueInv, NEW p \in Pids, AttachWrite(p) \/ DetachWrite(p)
  PROVE  QueueInv'
<1> DEFINE c == home[p]
<1>1. c \in Controllers /\ pc[p] \in WritePCs
  BY DEF AttachWrite, DetachWrite, At, TypeOK, WritePCs
<1>2. /\ UNCHANGED home
      /\ \A q \in Pids \ {p} : pc'[q] = pc[q]
      /\ pc'[p] \notin WritePCs
  BY DEF AttachWrite, DetachWrite, Goto, TypeOK, WritePCs
<1>3. \A d \in Controllers \ {c} : reg'[d] = reg[d]
  BY DEF AttachWrite, DetachWrite, TypeOK
<1>4. reg[c].newApps \in Seq(Pids) /\ reg[c].detachedApps \in Seq(Pids)
  BY <1>1, RegisterLists
<1>5. /\ Len(reg'[c].newApps) <= MaxApps
      /\ Len(reg'[c].detachedApps) <= MaxApps
  <2>1. CASE AttachWrite(p)
    <3>1. /\ reg'[c].newApps = Append(reg[c].newApps, p)
          /\ reg'[c].detachedApps = reg[c].detachedApps
      BY <1>1, <2>1 DEF AttachWrite, TypeOK, Registers
    <3>2. Len(reg[c].newApps) < MaxApps
      BY <2>1 DEF AttachWrite, At, QueueInv, RoomForWriters
    <3>3. Len(reg'[c].newApps) = Len(reg[c].newApps) + 1
      BY <1>4, <3>1
    <3> QED
      BY <1>1, <3>1, <3>2, <3>3, ListLengths DEF QueueInv, QueueBounded
  <2>2. CASE DetachWrite(p)
    <3>1. /\ reg'[c].detachedApps = Append(reg[c].detachedApps, p)
          /\ reg'[c].newApps = reg[c].newApps
      BY <1>1, <2>2 DEF DetachWrite, TypeOK, Registers
    <3>2. Len(reg[c].detachedApps) < MaxApps
      BY <2>2 DEF DetachWrite, At, QueueInv, RoomForWriters
    <3>3. Len(reg'[c].detachedApps) = Len(reg[c].detachedApps) + 1
      BY <1>4, <3>1
    <3> QED
      BY <1>1, <3>1, <3>2, <3>3, ListLengths DEF QueueInv, QueueBounded
  <2> QED
    BY <2>1, <2>2
<1>6. QueueBounded'
  BY <1>3, <1>5 DEF QueueInv, QueueBounded
<1>7. RoomForWriters'
  <2> SUFFICES ASSUME NEW q \in Pids, pc'[q] \in WritePCs
               PROVE  /\ pc'[q] = "attachWrite" => Len(reg'[home'[q]].newApps) < MaxApps
                      /\ pc'[q] = "detachWrite" => Len(reg'[home'[q]].detachedApps) < MaxApps
    BY DEF RoomForWriters, WritePCs
  <2>1. q # p /\ pc[q] \in WritePCs /\ pc'[q] = pc[q] /\ home'[q] = home[q]
    BY <1>2
  <2>2. home[q] \in Controllers /\ home[q] # c
    BY <1>1, <2>1, OneWriter DEF TypeOK, WritePCs
  <2> QED
    BY <1>3, <2>1, <2>2 DEF QueueInv, RoomForWriters
<1> QED
  BY <1>6, <1>7 DEF QueueInv

(* A step of an application inside the client library keeps the bounds.    *)
LEMMA QueueAppStep ==
  ASSUME TypeOK, LockInv, QueueInv, NEW p \in Pids, AppStep(p)
  PROVE  QueueInv'
<1>1. CASE AttachCheck(p) \/ DetachCheck(p)
  BY <1>1, ChecksQueue
<1>2. CASE AttachWrite(p) \/ DetachWrite(p)
  BY <1>2, WritesQueue
<1>3. CASE AttachSem(p) \/ DetachSem(p)
  BY <1>3, AppMovesQueue
     DEF AttachSem, DetachSem, GetRegisterSem, Continues, Dies, Goto, TypeOK, WritePCs
<1>4. CASE AttachWait(p) \/ DetachWait(p) \/ AttachPost(p) \/ DetachPost(p)
  BY <1>4, AppMovesQueue
     DEF AttachWait, DetachWait, AttachPost, DetachPost, WaitRegister, PostRegister,
         Goto, TypeOK, WritePCs
<1>5. CASE DetachData(p)
  BY <1>5, AppMovesQueue DEF DetachData, Goto, TypeOK, WritePCs
<1> QED
  BY <1>1, <1>2, <1>3, <1>4, <1>5 DEF AppStep

(* So does what applications, users and the derived class do.              *)
LEMMA QueueEnvironment ==
  ASSUME TypeOK, QueueInv, Environment
  PROVE  QueueInv'
<1>1. ASSUME NEW p \in Pids, Spawn(p) \/ Reap(p) \/ \E k \in Cores : AssignCore(p, k)
      PROVE  UNCHANGED <<reg, pc, home>>
  BY <1>1 DEF Spawn, Reap, AssignCore, appVars, ipcVars
<1>2. ASSUME NEW p \in Pids,
             Crash(p) \/ AttachCreate(p) \/ AttachRefused(p) \/ DetachBegin(p)
      PROVE  /\ UNCHANGED reg /\ pc'[p] \notin WritePCs
             /\ \A q \in Pids \ {p} : pc'[q] = pc[q] /\ home'[q] = home[q]
  BY <1>2 DEF Crash, AttachCreate, CreateData, AttachRefused, DetachBegin, Dies, Goto,
              TypeOK, WritePCs
<1>3. ASSUME (\E c \in Controllers : Start(c)) \/ ControllerCrash \/ DestroyBegin
      PROVE  UNCHANGED <<reg, pc, home>>
  BY <1>3 DEF Start, ControllerCrash, DestroyBegin, Lock, appVars, ipcVars
<1>4. ASSUME UNCHANGED <<reg, pc, home>> PROVE QueueInv'
  BY <1>4, ListsShrink DEF Shrunk
<1> QED
  BY <1>1, <1>2, <1>3, <1>4, AppMovesQueue DEF Environment

(* The controller empties lists and never fills them.                      *)
LEMMA QueueController ==
  ASSUME TypeOK, QueueInv, ControllerStep
  PROVE  QueueInv'
<1>1. UNCHANGED <<pc, home>>
  <2>1. CASE Boot
    BY <2>1 DEF Boot, SemaphoreCreate, SemaphoreInit, BootLock, RegisterCreate, BootUnlock,
                SetupGroups, Lock, Unlock, appVars
  <2>2. CASE Run
    BY <2>2 DEF Run, RunBegin, DeregisterDeadApp, DeadAppsDone, DeregisterDetachedApp,
                DetachedAppsDone, RegisterNewApp, NewAppsDone, RunEnd, HelperReturns,
                Lock, Unlock, appVars
  <2>3. CASE Destroy
    BY <2>3 DEF Destroy, RegisterDestroy, DestroyUnlock, SemaphoreDestroy, GroupsDestroy,
                DropApp, DestroyEnd, Unlock, appVars
  <2> QED
    BY <2>1, <2>2, <2>3 DEF ControllerStep
<1>2. ASSUME NEW c \in Controllers PROVE Shrunk(c)
  <2> USE DEF Shrunk
  <2>1. reg \in [Controllers -> Registers] /\ reg[c] \in Registers
    BY DEF TypeOK
  <2>2. CASE RegisterCreate \/ RegisterDestroy
    <3>1. reg'[c] = reg[c] \/ (reg'[c].newApps = <<>> /\ reg'[c].detachedApps = <<>>)
      BY <2>1, <2>2 DEF RegisterCreate, RegisterDestroy, NoRegister
    <3> QED
      BY <3>1
  <2>3. CASE DetachedAppsDone
    <3>1. reg' = [reg EXCEPT ![ctl].detachedApps = <<>>]
      BY <2>3 DEF DetachedAppsDone, HelperReturns
    <3> QED
      BY <2>1, <3>1 DEF Registers
  <2>4. CASE NewAppsDone
    <3>1. reg' = [reg EXCEPT ![ctl].newApps = <<>>]
      BY <2>4 DEF NewAppsDone, HelperReturns
    <3> QED
      BY <2>1, <3>1 DEF Registers
  <2>5. CASE Boot /\ ~RegisterCreate
    BY <2>5 DEF Boot, SemaphoreCreate, SemaphoreInit, BootLock, BootUnlock,
                SetupGroups, Lock, Unlock
  <2>6. CASE Run /\ ~DetachedAppsDone /\ ~NewAppsDone
    BY <2>6 DEF Run, RunBegin, DeregisterDeadApp, DeadAppsDone, DeregisterDetachedApp,
                RegisterNewApp, RunEnd, HelperReturns, Lock, Unlock
  <2>7. CASE Destroy /\ ~RegisterDestroy
    BY <2>7 DEF Destroy, DestroyUnlock, SemaphoreDestroy, GroupsDestroy,
                DropApp, DestroyEnd, Unlock, ipcVars
  <2> QED
    BY <2>2, <2>3, <2>4, <2>5, <2>6, <2>7 DEF ControllerStep
<1> QED
  BY <1>1, <1>2, ListsShrink

(* QueueInv is inductive, given the types and the lock.                    *)
LEMMA QueueNext == TypeOK /\ LockInv /\ QueueInv /\ [Next]_vars => QueueInv'
<1> SUFFICES ASSUME TypeOK, LockInv, QueueInv, [Next]_vars PROVE QueueInv'
  OBVIOUS
<1>1. CASE Next
  BY <1>1, QueueAppStep, QueueEnvironment, QueueController DEF Next
<1>2. CASE UNCHANGED vars
  BY <1>2, ListsShrink DEF Shrunk, vars, appVars, ipcVars
<1> QED
  BY <1>1, <1>2

(* QueueInv holds in every run.                                            *)
LEMMA QueueInvariant ==
  ASSUME Uninterrupted
  PROVE  Spec => []QueueInv
BY QueueInit, QueueNext, LockInvariant, TypeCorrect, PTL DEF Spec

(* new_apps and detached_apps never hold more than MAX_NUM_OF_APPS         *)
(* entries, whatever number of applications compete for the last one.      *)
THEOREM Bounded ==
  ASSUME Uninterrupted
  PROVE  Spec => []QueueBounded
<1>1. QueueInv => QueueBounded
  BY DEF QueueInv
<1> QED
  BY <1>1, QueueInvariant, PTL

(* The room that registerAttach or registerDetach found in a list is still *)
(* there when it writes.                                                   *)
THEOREM Room ==
  ASSUME Uninterrupted
  PROVE  Spec => []RoomForWriters
<1>1. QueueInv => RoomForWriters
  BY DEF QueueInv
<1> QED
  BY <1>1, QueueInvariant, PTL
=============================================================================
