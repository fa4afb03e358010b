----------------------------- MODULE RedisLock -----------------------------
(***************************************************************************)
(* RedisLockProvider.lockProcess, as its callers use it: a name is locked  *)
(* for a holder and a time, the handler runs, the name is unlocked.  A     *)
(* lock that is not given back runs out by itself, whether or not its      *)
(* handler still works.                                                    *)
(***************************************************************************)
EXTENDS Integers

\* A lock: who holds it, and for how many milliseconds more.
NoLock == [by |-> "none", left |-> 0]
Free(lock) == lock = NoLock

Taken(holder, ttl) == [by |-> holder, left |-> ttl]

\* Only its holder gives a lock back: one that ran out may be another's.
Released(lock, holder) == IF lock.by = holder THEN NoLock ELSE lock

\* A lock after some milliseconds.
Aged(lock, millis) ==
    IF lock.left > millis THEN [lock EXCEPT !.left = @ - millis] ELSE NoLock
=============================================================================
