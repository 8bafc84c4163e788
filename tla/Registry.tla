------------------------------ MODULE Registry ------------------------------
(***************************************************************************)
(* What the library promises to applications and to the class derived from *)
(* Policy, with no word about semaphores, segments or helpers.             *)
(*                                                                         *)
(* While the registry is open, an application that attaches joins the end  *)
(* of a queue of bounded length and becomes a member when it is at its     *)
(* head; each pid is in the queue or a member at most once.  A member      *)
(* stays until it has announced that it leaves, or no process has its pid  *)
(* any more.  The controller may close the registry or die at any time,    *)
(* which ends everything it knew.                                          *)
(***************************************************************************)
EXTENDS Naturals, Sequences

CONSTANTS
  Pids,     \* pids that run applications
  MaxApps   \* the length of the queue

VARIABLES
  open,     \* whether a controller serves
  present,  \* pids that some process has, alive or not yet reaped
  queue,    \* attached applications that are not yet members
  members,  \* the applications the controller manages
  leaving   \* pids that have announced that they leave

vars == <<open, present, queue, members, leaving>>

Queued == {queue[i] : i \in DOMAIN queue}

Init ==
  /\ open = FALSE
  /\ present = {}
  /\ queue = <<>>
  /\ members = {}
  /\ leaving = {}

Open ==
  /\ ~open
  /\ open' = TRUE
  /\ UNCHANGED <<present, queue, members, leaving>>

Close ==
  /\ open
  /\ open' = FALSE
  /\ queue' = <<>>
  /\ members' = {}
  /\ leaving' = {}
  /\ UNCHANGED present

Appear(p) ==
  /\ p \notin present
  /\ present' = present \cup {p}
  /\ UNCHANGED <<open, queue, members, leaving>>

Vanish(p) ==
  /\ p \in present
  /\ present' = present \ {p}
  /\ UNCHANGED <<open, queue, members, leaving>>

Attach(p) ==
  /\ open
  /\ p \in present \ (Queued \cup members)
  /\ Len(queue) < MaxApps
  /\ queue' = Append(queue, p)
  /\ UNCHANGED <<open, present, members, leaving>>

Register ==
  /\ queue # <<>>
  /\ members' = members \cup {Head(queue)}
  /\ queue' = Tail(queue)
  /\ UNCHANGED <<open, present, leaving>>

(* An application that attached to an earlier controller announces itself  *)
(* to its successor too.                                                   *)
Leave(p) ==
  /\ open
  /\ p \in present
  /\ leaving' = leaving \cup {p}
  /\ UNCHANGED <<open, present, queue, members>>

(* When the reason is that no process has the pid, or the announcement was *)
(* made twice, the announcement may stay.                                  *)
Deregister(p) ==
  /\ p \in members
  /\ p \in leaving \/ p \notin present
  /\ members' = members \ {p}
  /\ leaving' \in {leaving, leaving \ {p}}
  /\ UNCHANGED <<open, present, queue>>

Next ==
  \/ Open \/ Close \/ Register
  \/ \E p \in Pids : Appear(p) \/ Vanish(p) \/ Attach(p) \/ Leave(p) \/ Deregister(p)

Spec == Init /\ [][Next]_vars

-----------------------------------------------------------------------------
(* The types; the queue keeps its length.                                  *)
TypeOK ==
  /\ open \in BOOLEAN
  /\ present \subseteq Pids
  /\ queue \in Seq(Pids) /\ Len(queue) <= MaxApps
  /\ members \subseteq Pids
  /\ leaving \subseteq Pids

(* An application is in one place at most, and nowhere while no controller *)
(* serves.                                                                 *)
OnePlace ==
  /\ Queued \cap members = {}
  /\ \A i, j \in DOMAIN queue : queue[i] = queue[j] => i = j
  /\ ~open => queue = <<>> /\ members = {}

(* An application is served in the order of arrival: who is in the queue   *)
(* never gets behind somebody who comes later.                             *)
InOrder ==
  [][\A i, j \in DOMAIN queue :
       i < j /\ queue[j] \in members' \cup {queue'[k] : k \in DOMAIN queue'} =>
         \/ queue[i] \in members'
         \/ \E k, l \in DOMAIN queue' : k < l /\ queue'[k] = queue[i] /\ queue'[l] = queue[j]]_vars
=============================================================================
