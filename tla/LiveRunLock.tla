---------------------------- MODULE LiveRunLock -----------------------------
(***************************************************************************)
(* The one lock of the lab, domain/liveRunLock.ts.  Its decisions are pure *)
(* functions of the row; services/simulationLiveRunLock.service.ts writes  *)
(* what they return with a compare-and-swap on the row's revision, so each *)
(* is one step of whoever asks.                                            *)
(*                                                                         *)
(* A lease is measured on the clock of the run that holds it, which starts *)
(* when the run is created: it lasts until that clock shows RunExpires.    *)
(* acquiredAtMs and revision decide nothing here and are left out.         *)
(***************************************************************************)
EXTENDS Naturals

CONSTANTS Run, Operator, born, LockLease

\* A row that was released, or that was never written.
Free == [held |-> FALSE]

Held(r, o) == [held |-> TRUE, run |-> r, owner |-> o]

Locks == {Free} \cup {Held(r, o) : r \in Run, o \in Operator}

\* current?.status === 'held' && current.leaseUntilMs > nowMs.
Blocking(lock, now) == lock.held /\ now < born[lock.run] + LockLease

\* validateLease, and the caller's exception for 'held-by-other'.
MayAcquire(lock, now, r, o) ==
    /\ now < born[r] + LockLease
    /\ Blocking(lock, now) => lock = Held(r, o)

\* The row this call leaves, and whether it was this call that wrote it:
\* a start that is retried finds its own row and neither extends nor owns it.
Acquired(lock, now, r, o) == IF Blocking(lock, now) THEN lock ELSE Held(r, o)
CreatedHere(lock, now) == ~Blocking(lock, now)

\* mutant: whoever gives the lab back, the lock is opened
ReleasedForRun_AnyRun(lock, r) == Free

\* releaseLiveRunLockForRun: by run key, never by owner.
ReleasedForRun(lock, r) == IF lock.held /\ lock.run = r THEN Free ELSE lock
=============================================================================
