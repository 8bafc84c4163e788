---------------------------- MODULE AppRegister ----------------------------
(***************************************************************************)
(* The registration protocol between applications and the controller.      *)
(*                                                                         *)
(* Applications call registerAttach and registerDetach (AppRegisterClient);*)
(* the controller is a Policy (AppRegisterServer) that is constructed,     *)
(* runs cycles and is destroyed.  They meet in System V IPC objects keyed  *)
(* by pid: the app_register segment and its semaphore, keyed by the        *)
(* controller's pid, and one app_data segment and semaphore per            *)
(* application, keyed by the application's pid.                            *)
(*                                                                         *)
(* A step is the code between two points where another process can make a  *)
(* difference: the semaphore calls, and inside the critical section the    *)
(* test of a list's length and the write that relies on it.  Any process   *)
(* may die between any two steps.                                          *)
(***************************************************************************)
EXTENDS Semaphore, Sequences, FiniteSets

CONSTANTS
  Pids,          \* pids that run applications
  Controllers,   \* pids of the controller processes, one running at a time
  NoPid,         \* no process
  MainGroup,     \* the control group "/mycontroller/"
  MayStay,       \* control groups whose deletion may fail
  Cores,         \* the cores 0 .. nCores-1 of the Policy
  MaxApps,       \* MAX_NUM_OF_APPS
  RunOrder,      \* the helpers a derived class's run() calls, in order
  GrepHits,      \* pids whose line of "ps -e -T" contains the digits of a pid
  Interruptible, \* whether a signal handler may interrupt a blocked semop
  MaxSpawns      \* bound: how many processes in turn have the same pid

Procs == Pids \cup Controllers

Helpers == {"deregisterDeadApps", "deregisterDetachedApps", "registerNewApps"}

ASSUME PidsAssumption ==
  /\ Pids \cap Controllers = {}
  /\ NoPid \notin Procs
  /\ MainGroup \notin Procs

ASSUME ParametersAssumption ==
  /\ MaxApps \in Nat \ {0}
  /\ MaxSpawns \in Nat
  /\ RunOrder \in Seq(Helpers)
  /\ Interruptible \in BOOLEAN
  /\ GrepHits \in [Pids -> SUBSET Pids]

CG == INSTANCE CGroupUtils

VARIABLES
  proc,       \* process table: proc[p] is "none", "running" or "zombie"
  spawned,    \* how many processes have had pid p
  pc,         \* where process p is in the client library
  home,       \* controllerPid, as p's current or last call looked it up
  sem,        \* sem[c]: the semaphore with the controller's key c
  reg,        \* reg[c]: the app_register with the controller's key c
  dataSem,    \* pids p for which the semaphore with key p exists
  dataSeg,    \* pids p for which the app_data segment with key p exists
  cgroups,    \* names of the existing control groups
  killed,     \* running processes that killApp has sent SIGINT
  ctl,        \* pid of the running, or else last, controller
  cpc,        \* where that controller is
  started,    \* controllers that have been started
  loop,       \* locals of the helper being run: phase, index, iterator
  registered, \* keys of Policy::registeredApps
  cores,      \* cores[p]: currentCores of the App registered for p
  freeCores   \* freeCores[k]: how often core k is in Policy::freeCores

appVars    == <<proc, spawned, pc, home>>
ipcVars    == <<sem, reg, dataSem, dataSeg>>
osVars     == <<cgroups, killed>>
policyVars == <<registered, cores, freeCores>>
ctlVars    == <<ctl, cpc, started, loop, policyVars>>
vars       == <<appVars, ipcVars, osVars, ctlVars>>

(* The states of a controller that has ended, or was never started.        *)
Ended == {"off", "done", "failed", "crashed", "killed"}

(* The states of a controller that serves applications.                    *)
Serving == {"idle", "run"}

ControllerPCs ==
  Ended \cup Serving \cup
  {"boot", "semInit", "bootLock", "create", "bootUnlock", "setup",
   "destroy", "destroyUnlock", "semDestroy", "groupsDestroy", "dropApps"}

AppPCs ==
  {"idle", "attached",
   "attachSem", "attachWait", "attachCheck", "attachWrite", "attachPost",
   "detachSem", "detachWait", "detachCheck", "detachWrite", "detachPost",
   "detachData"}

Registers ==
  [exists : BOOLEAN, newApps : Seq(Pids), detachedApps : Seq(Pids)]

NoRegister == [exists |-> FALSE, newApps |-> <<>>, detachedApps |-> <<>>]

Init ==
  /\ proc = [p \in Pids |-> "none"]
  /\ spawned = [p \in Pids |-> 0]
  /\ pc = [p \in Pids |-> "idle"]
  /\ home = [p \in Pids |-> NoPid]
  /\ sem = [c \in Controllers |-> NoSem(Procs)]
  /\ reg = [c \in Controllers |-> NoRegister]
  /\ dataSem = {}
  /\ dataSeg = {}
  /\ cgroups = {}
  /\ killed = {}
  /\ ctl = NoPid
  /\ cpc = "off"
  /\ started = {}
  /\ loop = [phase |-> 1, i |-> 0, todo |-> {}]
  /\ registered = {}
  /\ cores = [p \in Pids |-> {}]
  /\ freeCores = [k \in Cores |-> 0]

-----------------------------------------------------------------------------
(* The life of application processes (external).                           *)

At(p, l) == proc[p] = "running" /\ pc[p] = l

Goto(p, l) == pc' = [pc EXCEPT ![p] = l]

(* Process p ends, by exit() or by a signal: it stays in the process table *)
(* until its parent reaps it, and the kernel applies its semaphore undos.  *)
Dies(p) ==
  /\ proc' = [proc EXCEPT ![p] = "zombie"]
  /\ pc' = [pc EXCEPT ![p] = "idle"]
  /\ home' = [home EXCEPT ![p] = NoPid]
  /\ sem' = [c \in Controllers |-> Undone(sem[c], p)]
  /\ killed' = killed \ {p}
  /\ UNCHANGED spawned

(* ... or it goes on at l.                                                 *)
Continues(p, l) == Goto(p, l) /\ UNCHANGED <<proc, spawned, home, sem, killed>>

(* A process starts under a pid that is free.                              *)
Spawn(p) ==
  /\ proc[p] = "none"
  /\ spawned[p] < MaxSpawns
  /\ proc' = [proc EXCEPT ![p] = "running"]
  /\ spawned' = [spawned EXCEPT ![p] = @ + 1]
  /\ UNCHANGED <<pc, home, ipcVars, osVars, ctlVars>>

(* The application ends of itself or by a signal, wherever it is.          *)
Crash(p) ==
  /\ proc[p] = "running"
  /\ Dies(p)
  /\ UNCHANGED <<reg, dataSem, dataSeg, cgroups, ctlVars>>

(* Its parent waits for it.                                                *)
Reap(p) ==
  /\ proc[p] = "zombie"
  /\ proc' = [proc EXCEPT ![p] = "none"]
  /\ UNCHANGED <<spawned, pc, home, ipcVars, osVars, ctlVars>>

-----------------------------------------------------------------------------
(* Semaphore calls.                                                        *)

(* A blocked semop fails when the semaphore is removed, or when a signal   *)
(* handler runs.                                                           *)
WaitFails(s) == ~s.exists \/ (Interruptible /\ s.val = 0)

(* binarySemaphoreWait by x on c's semaphore; no caller looks at whether   *)
(* it failed.                                                              *)
binarySemaphoreWait(x, c) ==
  \/ CanTake(sem[c]) /\ sem' = [sem EXCEPT ![c] = Taken(@, x)]
  \/ WaitFails(sem[c]) /\ UNCHANGED sem

(* binarySemaphorePost by x on c's semaphore.                              *)
binarySemaphorePost(x, c) == sem' = [sem EXCEPT ![c] = Given(@, x)]

(* semget(controllerPid, 1, 0): without the semaphore every later call of  *)
(* the function fails and it ends in exit(EXIT_FAILURE).                   *)
GetRegisterSem(p, l) ==
  /\ IF sem[home[p]].exists
       THEN Continues(p, l)
       ELSE Dies(p)
  /\ UNCHANGED <<reg, dataSem, dataSeg, cgroups, ctlVars>>

(* The client's lock and unlock.                                           *)
WaitRegister(p, l) ==
  /\ binarySemaphoreWait(p, home[p])
  /\ Goto(p, l)
  /\ UNCHANGED <<proc, spawned, home, reg, dataSem, dataSeg, osVars, ctlVars>>

PostRegister(p, l) ==
  /\ binarySemaphorePost(p, home[p])
  /\ Goto(p, l)
  /\ UNCHANGED <<proc, spawned, home, reg, dataSem, dataSeg, osVars, ctlVars>>

-----------------------------------------------------------------------------
(* registerAttach.                                                         *)

(* getControllerPid: pgrep finds a process once it runs.                   *)
ControllerRuns == cpc \notin Ended

(* Create the semaphore and the segment of the app_data.  That the         *)
(* semaphore exists already is not looked at.                              *)
CreateData(p) ==
  /\ dataSem' = dataSem \cup {p}
  /\ dataSeg' = dataSeg \cup {p}
  /\ home' = [home EXCEPT ![p] = ctl]
  /\ Goto(p, "attachSem")
  /\ UNCHANGED <<proc, spawned, sem, reg, osVars, ctlVars>>

(* Mutants: the look-up that found no process is not an error; the segment *)
(* is created without IPC_EXCL.                                            *)
AttachCreateNoController(p) == At(p, "idle") /\ p \notin dataSeg /\ CreateData(p)

AttachCreateNoExcl(p) == At(p, "idle") /\ ControllerRuns /\ CreateData(p)

(* Look the controller up and create the app_data, which nobody has.       *)
AttachCreate(p) ==
  At(p, "idle") /\ ControllerRuns /\ p \notin dataSeg /\ CreateData(p)

(* No controller, or a segment with this key exists: exit(EXIT_FAILURE).   *)
AttachRefused(p) ==
  /\ At(p, "idle")
  /\ \/ ~ControllerRuns /\ UNCHANGED dataSem
     \/ ControllerRuns /\ p \in dataSeg /\ dataSem' = dataSem \cup {p}
  /\ Dies(p)
  /\ UNCHANGED <<reg, dataSeg, cgroups, ctlVars>>

(* Mutant: the wait is missing.                                            *)
AttachNoWait(p) ==
  /\ At(p, "attachWait")
  /\ Goto(p, "attachCheck")
  /\ UNCHANGED <<proc, spawned, home, sem, reg, dataSem, dataSeg, osVars, ctlVars>>

AttachSem(p) == At(p, "attachSem") /\ GetRegisterSem(p, "attachWait")

AttachWait(p) == At(p, "attachWait") /\ WaitRegister(p, "attachCheck")

(* Without the segment, or with the list full, exit(EXIT_FAILURE).         *)
AttachCheck(p) ==
  /\ At(p, "attachCheck")
  /\ IF reg[home[p]].exists /\ Len(reg[home[p]].newApps) # MaxApps
       THEN Continues(p, "attachWrite")
       ELSE Dies(p)
  /\ UNCHANGED <<reg, dataSem, dataSeg, cgroups, ctlVars>>

(* Mutant: n_new is not incremented before the next application writes.    *)
AttachWriteFirst(p) ==
  /\ At(p, "attachWrite")
  /\ reg' = [reg EXCEPT ![home[p]].newApps = <<p>>]
  /\ Goto(p, "attachPost")
  /\ UNCHANGED <<proc, spawned, home, sem, dataSem, dataSeg, osVars, ctlVars>>

(* Fill new_apps[n_new] and increment n_new.                               *)
AttachWrite(p) ==
  /\ At(p, "attachWrite")
  /\ reg' = [reg EXCEPT ![home[p]].newApps = Append(@, p)]
  /\ Goto(p, "attachPost")
  /\ UNCHANGED <<proc, spawned, home, sem, dataSem, dataSeg, osVars, ctlVars>>

AttachPost(p) == At(p, "attachPost") /\ PostRegister(p, "attached")

-----------------------------------------------------------------------------
(* registerDetach.                                                         *)

(* Look the controller up again; without one, exit(EXIT_FAILURE).  Callers *)
(* detach once from what they attached: the code does not test it.         *)
DetachBegin(p) ==
  /\ At(p, "attached")
  /\ IF ControllerRuns
       THEN /\ home' = [home EXCEPT ![p] = ctl]
            /\ Goto(p, "detachSem")
            /\ UNCHANGED <<proc, spawned, sem, killed>>
       ELSE Dies(p)
  /\ UNCHANGED <<reg, dataSem, dataSeg, cgroups, ctlVars>>

DetachSem(p) == At(p, "detachSem") /\ GetRegisterSem(p, "detachWait")

DetachWait(p) == At(p, "detachWait") /\ WaitRegister(p, "detachCheck")

DetachCheck(p) ==
  /\ At(p, "detachCheck")
  /\ IF reg[home[p]].exists /\ Len(reg[home[p]].detachedApps) # MaxApps
       THEN Continues(p, "detachWrite")
       ELSE Dies(p)
  /\ UNCHANGED <<reg, dataSem, dataSeg, cgroups, ctlVars>>

DetachWrite(p) ==
  /\ At(p, "detachWrite")
  /\ reg' = [reg EXCEPT ![home[p]].detachedApps = Append(@, p)]
  /\ Goto(p, "detachPost")
  /\ UNCHANGED <<proc, spawned, home, sem, dataSem, dataSeg, osVars, ctlVars>>

DetachPost(p) == At(p, "detachPost") /\ PostRegister(p, "detachData")

(* Mutant: the client removes the segment the controller still uses.       *)
DetachDataRemoved(p) ==
  /\ At(p, "detachData")
  /\ dataSem' = dataSem \ {p}
  /\ dataSeg' = dataSeg \ {p}
  /\ home' = [home EXCEPT ![p] = NoPid]
  /\ Goto(p, "idle")
  /\ UNCHANGED <<proc, spawned, sem, reg, osVars, ctlVars>>

(* shmdt leaves the segment in place; the semaphore, which nobody else     *)
(* removes, is removed.                                                    *)
DetachData(p) ==
  /\ At(p, "detachData")
  /\ dataSem' = dataSem \ {p}
  /\ home' = [home EXCEPT ![p] = NoPid]
  /\ Goto(p, "idle")
  /\ UNCHANGED <<proc, spawned, sem, reg, dataSeg, osVars, ctlVars>>

-----------------------------------------------------------------------------
(* The controller's process and its lock.                                  *)

ControllerGoto(from, to) == cpc = from /\ cpc' = to

(* The controller ends in state e.                                         *)
ControllerEnds(e) ==
  /\ cpc' = e
  /\ sem' = [c \in Controllers |-> Undone(sem[c], ctl)]

(* A controller process starts (external); its Policy is constructed.      *)
Start(c) ==
  /\ cpc \in Ended
  /\ c \notin started
  /\ ctl' = c
  /\ cpc' = "boot"
  /\ started' = started \cup {c}
  /\ registered' = {}
  /\ cores' = [p \in Pids |-> {}]
  /\ freeCores' = [k \in Cores |-> 1]
  /\ UNCHANGED <<appVars, ipcVars, osVars, loop>>

(* The controller is killed, wherever it is.                               *)
ControllerCrash ==
  /\ ControllerRuns
  /\ ControllerEnds("killed")
  /\ UNCHANGED <<appVars, reg, dataSem, dataSeg, osVars, ctl, started, loop, policyVars>>

(* Mutant: lock() posts, as App::lock() does.                              *)
LockPosts(from, to) ==
  /\ ControllerGoto(from, to)
  /\ binarySemaphorePost(ctl, ctl)
  /\ UNCHANGED <<appVars, reg, dataSem, dataSeg, osVars, ctl, started, policyVars>>

(* Policy::lock.                                                           *)
Lock(from, to) ==
  /\ ControllerGoto(from, to)
  /\ binarySemaphoreWait(ctl, ctl)
  /\ UNCHANGED <<appVars, reg, dataSem, dataSeg, osVars, ctl, started, policyVars>>

(* Mutants: unlock() posts twice; it forgets to post.                      *)
UnlockTwice(from, to) ==
  /\ ControllerGoto(from, to)
  /\ sem' = [sem EXCEPT ![ctl] = Given(Given(@, ctl), ctl)]
  /\ UNCHANGED <<appVars, reg, dataSem, dataSeg, osVars, ctl, started, loop, policyVars>>

UnlockMissing(from, to) ==
  /\ ControllerGoto(from, to)
  /\ UNCHANGED <<appVars, ipcVars, osVars, ctl, started, loop, policyVars>>

(* Policy::unlock.                                                         *)
Unlock(from, to) ==
  /\ ControllerGoto(from, to)
  /\ binarySemaphorePost(ctl, ctl)
  /\ UNCHANGED <<appVars, reg, dataSem, dataSeg, osVars, ctl, started, loop, policyVars>>

-----------------------------------------------------------------------------
(* Policy::Policy.                                                         *)

(* registerSemaphoreCreate: semget, then SETALL.                           *)
SemaphoreCreate ==
  /\ ControllerGoto("boot", "semInit")
  /\ sem' = [sem EXCEPT ![ctl] = Created(Procs)]
  /\ UNCHANGED <<appVars, reg, dataSem, dataSeg, osVars, ctl, started, loop, policyVars>>

SemaphoreInit ==
  /\ ControllerGoto("semInit", "bootLock")
  /\ sem' = [sem EXCEPT ![ctl] = SetToOne(@)]
  /\ UNCHANGED <<appVars, reg, dataSem, dataSeg, osVars, ctl, started, loop, policyVars>>

BootLock == Lock("bootLock", "create") /\ UNCHANGED loop

(* registerCreate.                                                         *)
RegisterCreate ==
  /\ ControllerGoto("create", "bootUnlock")
  /\ reg' = [reg EXCEPT ![ctl] = [NoRegister EXCEPT !.exists = TRUE]]
  /\ UNCHANGED <<appVars, sem, dataSem, dataSeg, osVars, ctl, started, loop, policyVars>>

BootUnlock == Unlock("bootUnlock", "setup")

(* Set the control groups up and put the controller in a group of its own, *)
(* or exit(EXIT_FAILURE).  The cpuset of the controller is left out.       *)
SetupGroups ==
  /\ cpc = "setup"
  /\ \E main \in CG!Setup(cgroups) :
       \E own \in CG!Initialize(main.groups, ctl, TRUE) :
         IF main.ok THEN
            /\ cgroups' = own.groups
            /\ \/ own.ok /\ cpc' = "idle" /\ UNCHANGED sem
               \/ ControllerEnds("failed")
         ELSE
            /\ cgroups' = main.groups
            /\ ControllerEnds("failed")
  /\ UNCHANGED <<appVars, reg, dataSem, dataSeg, killed, ctl, started, loop, policyVars>>

-----------------------------------------------------------------------------
(* App::~App, for each App of S, starting from the given control groups.   *)

(* isAppRunning: /proc/<pid>/status exists for a zombie too.               *)
isAppRunning(p) == proc[p] # "none"

(* Mutant: the output of ps is not filtered.                               *)
getAllPids(p) == {q \in Pids : isAppRunning(q)}

(* The threads that "ps -e -T | grep <pid>" lists, by process.             *)
getAppPids(p) == {q \in GrepHits[p] \cup {p} : isAppRunning(q)}

(* killApp sends SIGINT after it has removed the groups of these processes.*)
killAppGroups(p) == {p} \cup getAppPids(p)

(* Each App that is running is killed; then its segment and its own group  *)
(* are removed.  Groups whose deletion fails stay.                         *)
AppsDestroyed(S, groups) ==
  LET running == {p \in S : isAppRunning(p)}
  IN  /\ cgroups' \in CG!Remove(groups, S \cup UNION {killAppGroups(p) : p \in running})
      /\ killed' = killed \cup {p \in running : proc[p] = "running"}
      /\ dataSeg' = dataSeg \ S

-----------------------------------------------------------------------------
(* Policy::run (external) takes the lock, calls the helpers in RunOrder    *)
(* and releases the lock.                                                  *)

Phase ==
  IF loop.phase \in DOMAIN RunOrder THEN RunOrder[loop.phase] ELSE "end"

EnterPhase(n) ==
  loop' = [phase |-> n, i |-> 0,
           todo |-> IF n \in DOMAIN RunOrder /\ RunOrder[n] = "deregisterDeadApps"
                      THEN registered ELSE {}]

RunBegin == Lock("idle", "run") /\ EnterPhase(1)

RunEnd == Phase = "end" /\ Unlock("run", "idle")

(* The counter of the list is reset and the helper returns.                *)
HelperReturns(r) ==
  /\ reg' = r
  /\ EnterPhase(loop.phase + 1)
  /\ UNCHANGED <<appVars, sem, dataSem, dataSeg, osVars, ctl, cpc, started, policyVars>>

(* Mutants: the cores of the App are not given back; the entry stays in    *)
(* the map after its cores are given back.                                 *)
DeregisterKeepCores(p) ==
  /\ cores' = [cores EXCEPT ![p] = {}]
  /\ registered' = registered \ {p}
  /\ AppsDestroyed({p}, cgroups)
  /\ UNCHANGED freeCores

DeregisterKeepEntry(p) ==
  /\ freeCores' = [k \in Cores |-> freeCores[k] + IF k \in cores[p] THEN 1 ELSE 0]
  /\ cores' = [cores EXCEPT ![p] = {}]
  /\ UNCHANGED <<registered, cgroups, killed, dataSeg>>

(* Give p's cores back and erase it from the map.                          *)
Deregister(p) ==
  /\ freeCores' = [k \in Cores |-> freeCores[k] + IF k \in cores[p] THEN 1 ELSE 0]
  /\ cores' = [cores EXCEPT ![p] = {}]
  /\ registered' = registered \ {p}
  /\ AppsDestroyed({p}, cgroups)

DeregisterDeadApp(p) ==
  /\ cpc = "run" /\ Phase = "deregisterDeadApps"
  /\ p \in loop.todo
  /\ loop' = [loop EXCEPT !.todo = @ \ {p}]
  /\ IF isAppRunning(p) THEN UNCHANGED <<dataSeg, osVars, policyVars>>
                        ELSE Deregister(p)
  /\ UNCHANGED <<appVars, sem, reg, dataSem, ctl, cpc, started>>

DeadAppsDone ==
  /\ cpc = "run" /\ Phase = "deregisterDeadApps"
  /\ loop.todo = {}
  /\ HelperReturns(reg)

(* Mutant: n_detached is not reset.                                        *)
DetachedAppsKept ==
  /\ cpc = "run" /\ Phase = "deregisterDetachedApps"
  /\ loop.i = Len(reg[ctl].detachedApps)
  /\ HelperReturns(reg)

(* registeredApps[pid] of a pid that is not a key is a null pointer, and   *)
(* reading its currentCores kills the controller.                          *)
DeregisterDetachedApp ==
  /\ cpc = "run" /\ Phase = "deregisterDetachedApps"
  /\ loop.i < Len(reg[ctl].detachedApps)
  /\ LET p == reg[ctl].detachedApps[loop.i + 1]
     IN  IF p \in registered
           THEN /\ Deregister(p)
                /\ loop' = [loop EXCEPT !.i = @ + 1]
                /\ UNCHANGED <<sem, cpc>>
           ELSE /\ ControllerEnds("crashed")
                /\ UNCHANGED <<dataSeg, osVars, policyVars, loop>>
  /\ UNCHANGED <<appVars, reg, dataSem, ctl, started>>

DetachedAppsDone ==
  /\ cpc = "run" /\ Phase = "deregisterDetachedApps"
  /\ loop.i = Len(reg[ctl].detachedApps)
  /\ HelperReturns([reg EXCEPT ![ctl].detachedApps = <<>>])

(* Mutant: an off-by-one, the last entry is dropped.                       *)
NewAppsDoneEarly ==
  /\ cpc = "run" /\ Phase = "registerNewApps"
  /\ loop.i + 1 >= Len(reg[ctl].newApps)
  /\ HelperReturns([reg EXCEPT ![ctl].newApps = <<>>])

(* The constructor of App makes the application's control group.           *)
AppConstructed(p) == CG!Initialize(cgroups, p, isAppRunning(p))

(* Mutant: the loop begins at the end of the list.                         *)
RegisterNewAppLast ==
  /\ cpc = "run" /\ Phase = "registerNewApps"
  /\ loop.i < Len(reg[ctl].newApps)
  /\ LET p == reg[ctl].newApps[Len(reg[ctl].newApps) - loop.i]
     IN  \E own \in AppConstructed(p) :
           /\ own.ok
           /\ AppsDestroyed({p} \cap registered, own.groups)
           /\ registered' = registered \cup {p}
           /\ cores' = [cores EXCEPT ![p] = {}]
  /\ loop' = [loop EXCEPT !.i = @ + 1]
  /\ UNCHANGED <<appVars, reg, sem, dataSem, ctl, cpc, started, freeCores>>

(* When the constructor fails the controller ends.  An App the map held    *)
(* for the pid is destroyed by the assignment, its cores are forgotten.    *)
RegisterNewApp ==
  /\ cpc = "run" /\ Phase = "registerNewApps"
  /\ loop.i < Len(reg[ctl].newApps)
  /\ LET p == reg[ctl].newApps[loop.i + 1]
     IN  \E own \in AppConstructed(p) :
           IF own.ok
             THEN /\ AppsDestroyed({p} \cap registered, own.groups)
                  /\ registered' = registered \cup {p}
                  /\ cores' = [cores EXCEPT ![p] = {}]
                  /\ loop' = [loop EXCEPT !.i = @ + 1]
                  /\ UNCHANGED <<sem, cpc, freeCores>>
             ELSE /\ ControllerEnds("failed")
                  /\ cgroups' = own.groups
                  /\ UNCHANGED <<dataSeg, killed, policyVars, loop>>
  /\ UNCHANGED <<appVars, reg, dataSem, ctl, started>>

NewAppsDone ==
  /\ cpc = "run" /\ Phase = "registerNewApps"
  /\ loop.i = Len(reg[ctl].newApps)
  /\ HelperReturns([reg EXCEPT ![ctl].newApps = <<>>])

(* The derived class moves a core from freeCores to an App (external).     *)
AssignCore(p, k) ==
  /\ cpc = "idle"
  /\ p \in registered
  /\ freeCores[k] > 0
  /\ freeCores' = [freeCores EXCEPT ![k] = @ - 1]
  /\ cores' = [cores EXCEPT ![p] = @ \cup {k}]
  /\ UNCHANGED <<appVars, ipcVars, osVars, ctl, cpc, started, loop, registered>>

-----------------------------------------------------------------------------
(* Policy::~Policy.                                                        *)

DestroyBegin == Lock("idle", "destroy") /\ UNCHANGED loop

(* Mutant: the loop that is to collect new_apps is skipped.                *)
RegisterDestroyNoLoop ==
  /\ ControllerGoto("destroy", "destroyUnlock")
  /\ reg' = [reg EXCEPT ![ctl] = NoRegister]
  /\ UNCHANGED <<appVars, sem, dataSem, dataSeg, osVars, ctl, started, loop, policyVars>>

(* registerDestroy.  With n_new # 0 its loop, whose condition is n_new     *)
(* itself, reads past the end of the segment until the controller dies.    *)
RegisterDestroy ==
  /\ cpc = "destroy"
  /\ IF reg[ctl].newApps = <<>>
       THEN /\ reg' = [reg EXCEPT ![ctl] = NoRegister]
            /\ cpc' = "destroyUnlock"
            /\ UNCHANGED sem
       ELSE /\ ControllerEnds("crashed")
            /\ UNCHANGED reg
  /\ UNCHANGED <<appVars, dataSem, dataSeg, osVars, ctl, started, loop, policyVars>>

DestroyUnlock == Unlock("destroyUnlock", "semDestroy")

(* registerSemaphoreDestroy.                                               *)
SemaphoreDestroy ==
  /\ ControllerGoto("semDestroy", "groupsDestroy")
  /\ sem' = [sem EXCEPT ![ctl] = NoSem(Procs)]
  /\ UNCHANGED <<appVars, reg, dataSem, dataSeg, osVars, ctl, started, loop, policyVars>>

(* There is no new application left to kill; remove the controller's group *)
(* and all groups, some of which may stay.                                 *)
GroupsDestroy ==
  /\ ControllerGoto("groupsDestroy", "dropApps")
  /\ \E others \in CG!Remove(cgroups, {ctl}) : cgroups' \in CG!Destroy(others)
  /\ UNCHANGED <<appVars, ipcVars, killed, ctl, started, loop, policyVars>>

(* The map registeredApps is destroyed, App by App.                        *)
DropApp(p) ==
  /\ cpc = "dropApps"
  /\ p \in registered
  /\ registered' = registered \ {p}
  /\ cores' = [cores EXCEPT ![p] = {}]
  /\ AppsDestroyed({p}, cgroups)
  /\ UNCHANGED <<appVars, sem, reg, dataSem, ctl, cpc, started, loop, freeCores>>

DestroyEnd ==
  /\ cpc = "dropApps"
  /\ registered = {}
  /\ ControllerEnds("done")
  /\ UNCHANGED <<appVars, reg, dataSem, dataSeg, osVars, ctl, started, loop, policyVars>>

-----------------------------------------------------------------------------
(* The whole system.                                                       *)

(* What the library does for p once the application has called it.         *)
AppStep(p) ==
  \/ AttachSem(p) \/ AttachWait(p) \/ AttachCheck(p)
  \/ AttachWrite(p) \/ AttachPost(p)
  \/ DetachSem(p) \/ DetachWait(p) \/ DetachCheck(p)
  \/ DetachWrite(p) \/ DetachPost(p) \/ DetachData(p)

Boot ==
  \/ SemaphoreCreate \/ SemaphoreInit \/ BootLock \/ RegisterCreate
  \/ BootUnlock \/ SetupGroups

Run ==
  \/ RunBegin
  \/ \E p \in Pids : DeregisterDeadApp(p)
  \/ DeadAppsDone \/ DeregisterDetachedApp \/ DetachedAppsDone
  \/ RegisterNewApp \/ NewAppsDone
  \/ RunEnd

Destroy ==
  \/ RegisterDestroy \/ DestroyUnlock \/ SemaphoreDestroy \/ GroupsDestroy
  \/ \E p \in Pids : DropApp(p)
  \/ DestroyEnd

ControllerStep == Boot \/ Run \/ Destroy

(* What applications, users and the derived class may do, or never do.     *)
Environment ==
  \/ \E p \in Pids :
       \/ Spawn(p) \/ Crash(p) \/ Reap(p)
       \/ AttachCreate(p) \/ AttachRefused(p) \/ DetachBegin(p)
       \/ \E k \in Cores : AssignCore(p, k)
  \/ \E c \in Controllers : Start(c)
  \/ ControllerCrash
  \/ DestroyBegin

Next == Environment \/ ControllerStep \/ \E p \in Pids : AppStep(p)

Spec == Init /\ [][Next]_vars

(* Processes in the library are scheduled, and semop serves a waiter that  *)
(* the semaphore is open for again and again (the kernel keeps waiters in  *)
(* order).  The controller goes on calling run() until it is shut down.    *)
Fairness ==
  /\ WF_vars(ControllerStep)
  /\ SF_vars(RunBegin)
  /\ SF_vars(BootLock)
  /\ \A p \in Pids : WF_vars(AppStep(p))
  /\ \A p \in Pids : SF_vars(AttachWait(p)) /\ SF_vars(DetachWait(p))

FairSpec == Spec /\ Fairness

-----------------------------------------------------------------------------
(* Properties.                                                             *)

(* Where an application has been inside binarySemaphoreWait and not yet    *)
(* inside binarySemaphorePost, and where the controller is between lock()  *)
(* and unlock().                                                           *)
CheckPCs == {"attachCheck", "detachCheck"}

LockedPCs ==
  CheckPCs \cup {"attachWrite", "attachPost", "detachWrite", "detachPost"}

ControllerLockedPCs == {"create", "bootUnlock", "run", "destroy", "destroyUnlock"}

AppLocked(p, c) == proc[p] = "running" /\ pc[p] \in LockedPCs /\ home[p] = c

ControllerLocked(c) == ctl = c /\ cpc \in ControllerLockedPCs

Locked(x, c) ==
  IF x \in Pids THEN AppLocked(x, c) ELSE x = c /\ ControllerLocked(c)

(* Entries of the two lists the controller has still to process.           *)
NewApps ==
  IF cpc = "run" /\ Phase = "registerNewApps"
    THEN SubSeq(reg[ctl].newApps, loop.i + 1, Len(reg[ctl].newApps))
    ELSE reg[ctl].newApps

Pending == {NewApps[i] : i \in DOMAIN NewApps}

(* Every variable has its type: a process outside of the library has no    *)
(* call in progress, one inside it knows a controller, a running           *)
(* controller has been started.                                            *)
TypeOK ==
  /\ proc \in [Pids -> {"none", "running", "zombie"}]
  /\ spawned \in [Pids -> Nat]
  /\ pc \in [Pids -> AppPCs]
  /\ home \in [Pids -> Controllers \cup {NoPid}]
  /\ \A p \in Pids : pc[p] # "idle" => proc[p] = "running" /\ home[p] \in Controllers
  /\ sem \in [Controllers -> Semaphores(Procs)]
  /\ reg \in [Controllers -> Registers]
  /\ dataSem \in SUBSET Pids
  /\ dataSeg \in SUBSET Pids
  /\ cgroups \in SUBSET (Procs \cup {MainGroup})
  /\ killed \in SUBSET Pids
  /\ ctl \in Controllers \cup {NoPid}
  /\ cpc \in ControllerPCs
  /\ ControllerRuns => ctl \in started
  /\ started \in SUBSET Controllers
  /\ loop \in [phase : Nat \ {0}, i : Nat, todo : SUBSET Pids]
  /\ registered \in SUBSET Pids
  /\ cores \in [Pids -> SUBSET Cores]
  /\ freeCores \in [Cores -> Nat]

(* At most one process works on an app_register, and nobody writes to one  *)
(* that has been removed, although the callers of binarySemaphoreWait go   *)
(* on when it fails: a waiter woken by IPC_RMID finds the segment gone     *)
(* because Policy::~Policy removes it before the semaphore.  Processes may *)
(* die and controllers restart at any point.                               *)
Accessing(x, c) ==
  Locked(x, c) /\ (x \in Pids /\ pc[x] \in CheckPCs => reg[c].exists)

MutualExclusion ==
  \A c \in Controllers :
    /\ \A x, y \in Procs : Accessing(x, c) /\ Accessing(y, c) => x = y
    /\ \A p \in Pids :
         AppLocked(p, c) /\ pc[p] \notin CheckPCs => reg[c].exists

(* A closed semaphore has an owner that is alive and on its way to the     *)
(* unlock, whoever died or exited where: SEM_UNDO gives back what a dead   *)
(* process took.  The only exception is a semaphore that SETALL has not    *)
(* opened yet.                                                             *)
LockNotLeaked ==
  \A c \in Controllers :
    sem[c].exists /\ sem[c].val = 0
      => Unopened(sem[c]) \/ \E x \in Procs : Owner(sem[c], x) /\ Locked(x, c)

(* Why exclusion holds (without interrupted waits): the undo counts of an  *)
(* opened semaphore name the one process inside, and only a waiter woken   *)
(* by IPC_RMID is inside without owning, of a register that is gone.       *)
NotBooted(c) == c \notin started \/ (ctl = c /\ cpc = "boot")

OpenedPCs ==
  ControllerLockedPCs \cup Serving \cup {"bootLock", "setup", "semDestroy"}

SemaphoreState == \A c \in Controllers : OneOwner(sem[c]) \/ Unopened(sem[c])

OwnersLocked ==
  \A c \in Controllers, x \in Procs : Owner(sem[c], x) => Locked(x, c)

LockedOwn ==
  \A c \in Controllers, x \in Procs :
    Locked(x, c) =>
      \/ Owner(sem[c], x)
      \/ x \in Pids /\ pc[x] \in CheckPCs /\ ~sem[c].exists

WritersSeeRegister ==
  \A c \in Controllers, p \in Pids :
    AppLocked(p, c) /\ pc[p] \notin CheckPCs => reg[c].exists

RegisterHasSemaphore == \A c \in Controllers : reg[c].exists => sem[c].exists

BootState ==
  \A c \in Controllers :
    NotBooted(c) =>
      /\ ~sem[c].exists
      /\ \A p \in Pids :
           home[p] = c => c \in started /\ pc[p] \in {"attachSem", "detachSem"}

ControllerState ==
  /\ cpc = "semInit" => sem[ctl].exists /\ Unopened(sem[ctl])
  /\ cpc \in OpenedPCs => sem[ctl].exists
  /\ cpc \in {"destroyUnlock", "semDestroy"} => ~reg[ctl].exists

LockInv ==
  /\ SemaphoreState /\ OwnersLocked /\ LockedOwn
  /\ WritersSeeRegister /\ RegisterHasSemaphore
  /\ BootState /\ ControllerState

(* An application that was told it is attached is registered, or is in     *)
(* new_apps to be registered, as long as its controller serves: resetting  *)
(* n_new after the loop never drops an entry written meanwhile.            *)
NoLostAttach ==
  \A p \in Pids :
    pc[p] \in {"attachPost", "attached"} /\ home[p] = ctl /\ cpc \in Serving
      => p \in Pending \cup registered

(* No pid is twice in the map and new_apps together, so that registerNewApps *)
(* never destroys (and kills) an App by assigning over it, even when a pid *)
(* is reused before the controller has noticed the death.                  *)
NoDoubleRegistration ==
  ControllerRuns =>
    /\ Pending \cap registered = {}
    /\ Cardinality(Pending) = Len(NewApps)

(* No core is lost or given twice: each is free once or belongs to one     *)
(* registered application, through registrations, deaths and detachments.  *)
CoreConservation ==
  ControllerRuns /\ cpc # "dropApps" =>
    \A k \in Cores :
      freeCores[k] + Cardinality({p \in registered : k \in cores[p]}) = 1

(* The arrays new_apps and detached_apps are never overrun, although the   *)
(* test of the counter and the write are separate.                         *)
QueueBounded ==
  \A c \in Controllers :
    Len(reg[c].newApps) <= MaxApps /\ Len(reg[c].detachedApps) <= MaxApps

(* What makes that so: the room a process found is still there when it     *)
(* writes, although test and write are two steps and its controller may    *)
(* have died or been replaced in between.                                  *)
RoomForWriters ==
  \A p \in Pids :
    /\ pc[p] = "attachWrite" => Len(reg[home[p]].newApps) < MaxApps
    /\ pc[p] = "detachWrite" => Len(reg[home[p]].detachedApps) < MaxApps

(* What the controller's App objects rely on is there while it serves: the *)
(* control group they adjust and the app_data segment they are attached to. *)
RegisteredHaveGroup == cpc \in Serving => registered \subseteq cgroups

RegisteredHaveData == cpc \in Serving => registered \subseteq dataSeg

(* Outside the shutdown killApp signals no process that is attached: only  *)
(* one that has left registerDetach's critical section, or has not called  *)
(* the library since (that may be a later process with the same pid).      *)
KillOnlyDetached ==
  [][\A p \in killed' \ killed :
       cpc = "dropApps" \/ pc[p] \in {"idle", "detachData"}]_vars

(* A controller that ran its destructor to the end leaves no register and  *)
(* no semaphore, and of the applications attached to it no segment and no  *)
(* process that was not sent SIGINT.  Control groups may stay: nobody      *)
(* looks at whether their deletion worked.                                 *)
CleanShutdown ==
  cpc = "done" =>
    /\ ~reg[ctl].exists /\ ~sem[ctl].exists
    /\ \A p \in Pids :
         pc[p] = "attached" /\ home[p] = ctl => p \notin dataSeg /\ p \in killed

(* deregisterDetachedApps finds every pid of detached_apps in the map: it  *)
(* dereferences what operator[] returns without a test.                    *)
DetachedAreRegistered ==
  cpc = "run" /\ Phase = "deregisterDetachedApps" /\ loop.i < Len(reg[ctl].detachedApps)
    => reg[ctl].detachedApps[loop.i + 1] \in registered

(* registerDestroy returns the applications that are still in new_apps, as *)
(* its comment says, instead of ending the controller.                     *)
RegisterDestroyReturns ==
  [][cpc = "destroy" => cpc' \in {"destroy", "destroyUnlock", "killed"}]_vars

(* An application whose registerAttach returned is registered eventually,  *)
(* unless it leaves or its controller stops.                               *)
AttachedEventuallyRegistered ==
  \A p \in Pids :
    pc[p] = "attached" /\ home[p] = ctl /\ cpc \in Serving
      ~> p \in registered \/ pc[p] # "attached" \/ cpc \notin Serving

(* A controller that died between semget and SETALL leaves a semaphore     *)
(* that nobody will ever open.                                             *)
DiedUnopened(c) ==
  sem[c].exists /\ Unopened(sem[c]) /\ ~(ctl = c /\ ControllerRuns)

(* A process waiting for the semaphore gets on: neither the death of a     *)
(* process inside, nor the shutdown of the controller, nor its death at    *)
(* any point but between semget and SETALL blocks it for good.             *)
WaiterProceeds ==
  \A p \in Pids, l \in {"attachWait", "detachWait"} :
    pc[p] = l ~> pc[p] # l \/ DiedUnopened(home[p])

(* An application that died and was reaped leaves the map, and its segment *)
(* goes, so that a later process with the pid can attach, unless the pid   *)
(* is reused before or the controller stops.                               *)
GoneEventuallyDeregistered ==
  \A p \in Pids :
    p \in registered /\ proc[p] = "none"
      ~> p \notin registered \cup dataSeg \/ proc[p] # "none" \/ cpc \notin Serving
=============================================================================
