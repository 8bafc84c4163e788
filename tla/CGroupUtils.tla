---------------------------- MODULE CGroupUtils ----------------------------
(***************************************************************************)
(* CGroupUtils.cc as the rest of the library sees it.  Only which control  *)
(* groups exist is kept; a group is named by the pid it was made for, the  *)
(* parent of all of them by MainGroup.  A call that can fail is the set of *)
(* its outcomes [ok, groups]: libcgroup may refuse any of the steps, and   *)
(* what was created before the refusal stays.  Deletions are sets of       *)
(* groups: whether they worked is not looked at.  That a deletion could    *)
(* not be prepared (-1, upon which the callers exit) is left to the crash  *)
(* of the caller.                                                          *)
(***************************************************************************)
CONSTANTS
  MainGroup,  \* the group "/mycontroller/"
  MayStay     \* groups whose deletion may fail

Outcome(ok, groups) == [ok |-> ok, groups |-> groups]

(* Setup: the last step, cgroup_create_cgroup, may fail after it has made  *)
(* the group.                                                              *)
Setup(groups) ==
  {Outcome(TRUE, groups \cup {MainGroup}),
   Outcome(FALSE, groups), Outcome(FALSE, groups \cup {MainGroup})}

(* Initialize(pid): the group is created before the process is attached to *)
(* it, and attaching a pid that no process has is refused, so a failure    *)
(* may leave the group behind.                                             *)
Initialize(groups, pid, exists) ==
  {Outcome(FALSE, groups), Outcome(FALSE, groups \cup {pid})}
    \cup IF exists THEN {Outcome(TRUE, groups \cup {pid})} ELSE {}

(* Remove, called for each of pids.                                        *)
Remove(groups, pids) ==
  {(groups \ pids) \cup stay : stay \in SUBSET (groups \cap pids \cap MayStay)}

(* Destroy: deletes MainGroup recursively.  A group that stays keeps its   *)
(* parent.                                                                 *)
Destroy(groups) ==
  {{}} \cup {{MainGroup} \cup stay : stay \in SUBSET (groups \cap MayStay)}
=============================================================================
