-------------------------------- MODULE Lock --------------------------------
(***************************************************************************)
(* What a mutex promises its callers: at most one thread holds it; the      *)
(* holder may hold it several times when the lock is recursive, and gives   *)
(* it up only after as many releases.                                      *)
(***************************************************************************)
EXTENDS Naturals

CONSTANT Thread

VARIABLES recursive,  \* may the holder acquire the lock again?
          held        \* held[t]: acquisitions of t not yet released

LockInit ==
    /\ recursive \in BOOLEAN
    /\ held = [t \in Thread |-> 0]

LockAcquire(t) ==
    /\ \A u \in Thread \ {t} : held[u] = 0
    /\ held[t] = 0 \/ recursive
    /\ held' = [held EXCEPT ![t] = @ + 1]

LockRelease(t) ==
    /\ held[t] > 0
    /\ held' = [held EXCEPT ![t] = @ - 1]

LockNext ==
    /\ \E t \in Thread : LockAcquire(t) \/ LockRelease(t)
    /\ UNCHANGED recursive

LockSpec == LockInit /\ [][LockNext]_<<recursive, held>>
=============================================================================
