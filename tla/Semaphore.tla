----------------------------- MODULE Semaphore -----------------------------
(***************************************************************************)
(* The System V semaphore behind libs/AppRegisterCommon: one value, and    *)
(* for every process the undo count the kernel keeps because both wrappers *)
(* pass SEM_UNDO.  semop subtracts its sem_op from the caller's undo count *)
(* and adds the undo count back to the value when the process ends.        *)
(*                                                                         *)
(* A semaphore is a record [exists, val, adj]; "exists" is whether semget  *)
(* finds it and semop accepts it (it is false before its creation and      *)
(* after IPC_RMID).  The operators are pure functions of such a record.    *)
(***************************************************************************)
EXTENDS Integers

Semaphores(Procs) ==
  [exists : BOOLEAN, val : Nat, adj : [Procs -> Int]]

(* No such semaphore: not created yet, or removed by IPC_RMID.             *)
NoSem(Procs) ==
  [exists |-> FALSE, val |-> 0, adj |-> [x \in Procs |-> 0]]

(* semget(key, 1, IPC_CREAT | IPC_EXCL): the kernel starts the value at 0. *)
Created(Procs) ==
  [exists |-> TRUE, val |-> 0, adj |-> [x \in Procs |-> 0]]

(* semctl(id, 0, SETALL, {1}): opens the semaphore, clears every undo.     *)
SetToOne(s) ==
  [s EXCEPT !.val = 1, !.adj = [x \in DOMAIN s.adj |-> 0]]

(* Whether binarySemaphoreWait can take the semaphore at once.             *)
CanTake(s) == s.exists /\ s.val > 0

(* binarySemaphoreWait by x, when it succeeds.                             *)
Taken(s, x) == [s EXCEPT !.val = @ - 1, !.adj[x] = @ + 1]

(* binarySemaphorePost by x; on a removed semaphore semop fails and the    *)
(* failure has no effect.                                                  *)
Given(s, x) ==
  IF s.exists THEN [s EXCEPT !.val = @ + 1, !.adj[x] = @ - 1] ELSE s

(* Mutant: the semaphore calls do not pass SEM_UNDO.                       *)
NotUndone(s, x) == s

(* The kernel applies the undo of process x when it ends, keeping the      *)
(* value at or above 0.                                                    *)
Undone(s, x) ==
  [s EXCEPT !.val = IF @ + s.adj[x] > 0 THEN @ + s.adj[x] ELSE 0,
            !.adj[x] = 0]

(***************************************************************************)
(* What a binary semaphore promises: closed means that exactly one process *)
(* owes the unit back, open that none does.                                *)
(***************************************************************************)
Owner(s, x) == s.adj[x] = 1

OneOwner(s) ==
  /\ s.exists
  /\ \/ s.val = 1 /\ \A x \in DOMAIN s.adj : s.adj[x] = 0
     \/ s.val = 0 /\ \E x \in DOMAIN s.adj :
                        /\ Owner(s, x)
                        /\ \A y \in DOMAIN s.adj \ {x} : s.adj[y] = 0

(* The semaphore between semget and SETALL: closed, and nobody owes.       *)
Unopened(s) == s.val = 0 /\ \A x \in DOMAIN s.adj : s.adj[x] = 0
=============================================================================
