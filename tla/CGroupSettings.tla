--------------------------- MODULE CGroupSettings ---------------------------
(***************************************************************************)
(* The settings of the control groups (CGroupUtils.cc, AppUtils.cc): which *)
(* CPUs a group may use, its CPU quota, whether it is frozen, and what the *)
(* controller was told about them.                                         *)
(*                                                                         *)
(* A call builds a description of the group in libcgroup and lets the      *)
(* kernel write it at the end.  Failures before the write return -1, upon  *)
(* which the caller exits; a write the kernel refuses ends Setup and       *)
(* Initialize with -1 too, but not the three Update calls.                 *)
(***************************************************************************)
EXTENDS Integers

CONSTANTS
  Apps,          \* pids of applications
  Self, Main,    \* the controller's group and the parent group
  NumberOfCores, \* number_of_cores
  Quotas,        \* quotas asked for, in units of 0.005 CPUs
  NotTold,       \* nothing was said about a group
  GrepHits       \* groups named after what "ps -e -T | grep" finds for an App

Names == Apps \cup {Self}

VARIABLES
  groups,   \* the settings of the groups that exist
  said,     \* what successful calls of this controller said they set
  refused,  \* history: settings whose last write the kernel refused
  phase     \* how far the controller is: "off", "setup", "self" or "up"

vars == <<groups, said, refused, phase>>

Cores == 0 .. NumberOfCores - 1

(* The CPUs callers may name, one that does not exist among them.          *)
CpuSets == SUBSET (0 .. NumberOfCores)

Settings == [cpus : CpuSets, quota : Int, frozen : BOOLEAN]

SettingsAssumption ==
  /\ Self \notin Apps /\ Main \notin Names
  /\ NumberOfCores \in Nat \ {0}
  /\ Quotas \subseteq Nat
  /\ NotTold \notin Settings
  /\ GrepHits \in [Apps -> SUBSET Names]

(* What Setup and Initialize write, and what a group has that mkdir made.  *)
Default == [cpus |-> Cores, quota |-> -1, frozen |-> FALSE]

Blank == [Default EXCEPT !.cpus = {}]

(* cfs_quota_us: quota * cfs_period, as an int.                            *)
cfs_quota_us(q) == q * 500

With(g, s) == [h \in DOMAIN groups \cup {g} |-> IF h = g THEN s ELSE groups[h]]

Without(S) == [h \in DOMAIN groups \ S |-> groups[h]]

Init ==
  /\ groups = [g \in {} |-> Default]
  /\ said = [g \in Names |-> NotTold]
  /\ refused = {}
  /\ phase = "off"

(* exit(EXIT_FAILURE), or the death of the controller.                     *)
Exit == phase' = "off" /\ said' = [g \in Names |-> NotTold] /\ refused' = {}

ControllerDies == phase # "off" /\ Exit /\ UNCHANGED groups

-----------------------------------------------------------------------------
(* Mutant: a group that exists already keeps its settings.                 *)
CreateKeepsOld(g, to) ==
  /\ groups' = IF g \in DOMAIN groups THEN groups ELSE With(g, Default)
  /\ phase' = to

(* cgroup_create_cgroup, and for Initialize cgroup_attach_task_pid and     *)
(* cgroup_modify_cgroup, succeed: settings left by a former group of this  *)
(* name are overwritten.                                                   *)
Create(g, to) == groups' = With(g, Default) /\ phase' = to

(* ... or one of the steps fails, with the group made or not.              *)
CreateFails(g) ==
  /\ groups' \in {groups, With(g, Default),
                  With(g, IF g \in DOMAIN groups THEN groups[g] ELSE Blank)}
  /\ Exit

Told(g, s) == said' = [said EXCEPT ![g] = s] /\ UNCHANGED refused

Setup ==
  /\ phase = "off"
  /\ \/ Create(Main, "setup") /\ UNCHANGED <<said, refused>>
     \/ CreateFails(Main)

(* The constructors of Policy and of App.                                  *)
InitializeSelf ==
  /\ phase = "setup"
  /\ \/ Create(Self, "self") /\ Told(Self, Default)
     \/ CreateFails(Self)

Initialize(p) ==
  /\ phase = "up"
  /\ said[p] = NotTold
  /\ \/ Create(p, "up") /\ Told(p, Default)
     \/ CreateFails(p)

-----------------------------------------------------------------------------
(* What the kernel may accept for a setting of group g.                    *)
Acceptable(g, f, v) ==
  /\ g \in DOMAIN groups
  /\ f = "cpus" => v # {} /\ v \subseteq groups[Main].cpus
  /\ f = "quota" => v >= 1000

(* cgroup_modify_cgroup, whose failure is printed and forgotten: the call  *)
(* returns appID either way.                                               *)
Write(g, f, v) ==
  /\ said' = [said EXCEPT ![g][f] = v]
  /\ \/ /\ Acceptable(g, f, v)
        /\ groups' = [groups EXCEPT ![g][f] = v]
        /\ refused' = refused \ {<<g, f>>}
     \/ /\ refused' = refused \cup {<<g, f>>}
        /\ UNCHANGED groups

(* UpdateCpuSet of CGroupUtils as AppUtils::UpdateCpuSet and the           *)
(* constructor of Policy call it: an empty set is an error, which the      *)
(* caller answers with exit, as any other before the write.                *)
CallUpdateCpuSet(g, cores, to) ==
  \/ cores # {} /\ Write(g, "cpus", cores) /\ phase' = to
  \/ Exit /\ UNCHANGED groups

UpdateSelf == phase = "self" /\ CallUpdateCpuSet(Self, {0}, "up")

UpdateCpuSet(p, cores) ==
  phase = "up" /\ said[p] # NotTold /\ CallUpdateCpuSet(p, cores, "up")

UpdateCpuQuota(p, q) ==
  /\ phase = "up" /\ said[p] # NotTold
  /\ \/ Write(p, "quota", cfs_quota_us(q)) /\ UNCHANGED phase
     \/ Exit /\ UNCHANGED groups

UpdateCpuFreezer(p, freeze) ==
  /\ phase = "up" /\ said[p] # NotTold
  /\ Write(p, "frozen", freeze)
  /\ UNCHANGED phase

(* The destructor of App: Remove for the group of p, and before that, when *)
(* the process runs, killApp for that group and for those of its grep      *)
(* hits.  Whether a deletion worked is not looked at; other failures of    *)
(* Remove make the caller exit, with some of the groups gone.              *)
Remove(p) ==
  /\ phase = "up" /\ said[p] # NotTold
  /\ \E gone \in SUBSET ({p} \cup GrepHits[p]) : groups' = Without(gone)
  /\ \/ /\ said' = [said EXCEPT ![p] = NotTold]
        /\ refused' = {r \in refused : r[1] # p}
        /\ UNCHANGED phase
     \/ Exit

(* Remove for the controller and Destroy, as ~Policy calls them, and Remove*)
(* for the Apps that go with the map after that: a group that cannot be    *)
(* deleted keeps its parent.                                               *)
Destroy ==
  /\ phase = "up"
  /\ \E gone \in SUBSET DOMAIN groups :
       /\ Main \in gone => gone = DOMAIN groups
       /\ groups' = Without(gone)
  /\ Exit

Next ==
  \/ ControllerDies \/ Setup \/ InitializeSelf \/ UpdateSelf \/ Destroy
  \/ \E p \in Apps :
       \/ Initialize(p) \/ Remove(p)
       \/ \E cores \in CpuSets : UpdateCpuSet(p, cores)
       \/ \E q \in Quotas : UpdateCpuQuota(p, q)
       \/ \E freeze \in BOOLEAN : UpdateCpuFreezer(p, freeze)

Spec == Init /\ [][Next]_vars

-----------------------------------------------------------------------------
(* Every variable has its type.                                            *)
TypeOK ==
  /\ DOMAIN groups \subseteq Names \cup {Main}
  /\ \A g \in DOMAIN groups : groups[g] \in Settings
  /\ said \in [Names -> Settings \cup {NotTold}]
  /\ refused \subseteq Names \X {"cpus", "quota", "frozen"}
  /\ phase \in {"off", "setup", "self", "up"}
  /\ phase # "off" => Main \in DOMAIN groups
  /\ phase \in {"self", "up"} => said[Self] # NotTold

(* grep finds nothing but lines of the application itself.                 *)
ExactMatches == \A p \in Apps : GrepHits[p] \subseteq {p}

(* Every setting the controller was told about is in force, but for those  *)
(* whose write the kernel refused: a group left by an earlier controller   *)
(* is reset, and an application's end takes no other's settings along.     *)
(* The latter needs that grep hits nobody else's group.  The former        *)
(* exception is one the callers cannot see: CGroupUtils.h says that a call *)
(* that fails returns -1, but a refused Update returns the appID.          *)
InForceUnlessRefused ==
  \A g \in Names : said[g] # NotTold =>
    /\ g \in DOMAIN groups
    /\ \A f \in {"cpus", "quota", "frozen"} :
         <<g, f>> \notin refused => groups[g][f] = said[g][f]
=============================================================================
