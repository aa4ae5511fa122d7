-------------------------- MODULE DistributedLock --------------------------
(***************************************************************************)
(* utils/distributedLock.ts: one Redis key per payment, SET NX with a TTL, *)
(* released by a script that compares the token first.  A token is fresh   *)
(* for every acquisition; the task that holds it stands for it, since a    *)
(* task runs one critical section at a time and a key that survives its    *)
(* owner can only expire.                                                  *)
(***************************************************************************)
EXTENDS Deployment

VARIABLE lock       \* lock[p]: the token stored under p's key, or None

LockTypeOK == lock \in [Payments -> Slots \cup Hooks \cup {None}]
LockInit == lock = [p \in Payments |-> None]

(* Bug: SET without NX.                                                    *)
LockAlwaysFree(p) == lock[p] = lock[p]

LockFree(p) == lock[p] = None
SetLock(p, task) == lock' = [lock EXCEPT ![p] = task]

(* Bug: DEL without comparing the token.                                   *)
DeleteLock(p, task) == lock' = [lock EXCEPT ![p] = None]

(* The script: delete the key only when it still holds our token.          *)
ReleaseLock(p, task) ==
    lock' = IF lock[p] = task THEN [lock EXCEPT ![p] = None] ELSE lock

(* Bug: SET without a TTL.                                                 *)
KeepLock(p) ==
    /\ FALSE
    /\ UNCHANGED lock

LoseLock(p) ==
    /\ lock[p] # None
    /\ lock' = [lock EXCEPT ![p] = None]
=============================================================================
