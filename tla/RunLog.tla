------------------------------ MODULE RunLog --------------------------------
(***************************************************************************)
(* What the event-sourced store of a run promises: one append-only log     *)
(* whose every record follows from the one before it, by an event the run  *)
(* accepts or by a deadline that has passed, each event at most once.      *)
(*                                                                         *)
(* A record is the snapshot it carries, stateAfter: its event id, type,    *)
(* statuses and time are the ones of the snapshot's last transition, and   *)
(* its sequence number is the snapshot's revision.                         *)
(***************************************************************************)
EXTENDS RunState

VARIABLE audit  \* the SimulationAuditEvent rows of the run, in order of sequence

Newest == audit[Len(audit)]

OnLog(id) == \E i \in DOMAIN audit : audit[i].last.id = id

LogInit == audit = <<>>

LogCreate ==
    /\ audit = <<>>
    /\ audit' = <<Created>>

\* An event is taken by the run as it stands, and once.
LogEvent ==
    /\ audit # <<>>
    /\ \E e \in Events :
         /\ ~OnLog(e.id)
         /\ Accepts(Newest, e)
         /\ audit' = Append(audit, After(Newest, e))

\* A deadline is taken when it has passed, and once.
LogDeadline ==
    /\ audit # <<>>
    /\ \E now \in 0..Horizon :
         /\ now >= Newest.updatedAt
         /\ Due(Newest, now)
         /\ audit' = Append(audit, Reconciled(Newest, now))

\* The first conjunct follows from the others and is there to be asked first.
LogNext ==
    /\ Len(audit') = Len(audit) + 1
    /\ LogCreate \/ LogEvent \/ LogDeadline

LogSpec == LogInit /\ [][LogNext]_audit

-----------------------------------------------------------------------------
\* A fault that may be on is never forgotten: no snapshot of a run that is
\* over, or that rests after a clean recovery, says that a fault may be active
\* or holds a fault lease.
NoFaultLeftBehind ==
    \A i \in DOMAIN audit :
        audit[i].status \in Terminal \cup {"cooldown"} =>
            ~audit[i].faultOn /\ audit[i].lease = 0

\* An abort is never undone: once it is asked for, the run ends as aborted or
\* waits in recovery, and no later event makes it rest or complete.
AbortSticks ==
    \A i \in DOMAIN audit :
        audit[i].abort => audit[i].status \in {"aborting", "recovery", "failed", "aborted"}

\* The audit of a run can always be replayed: every record is reproduced from
\* the one before it by the event rebuilt from its own snapshot, or, for a
\* system transition, by reconciling again at the recorded time.
\* replaySimulationRunAudit otherwise makes the run unloadable for good.
Rebuilt(s) ==
    [id |-> s.last.id, type |-> s.last.type, at |-> s.last.at,
     lease |-> IF s.last.type \in Activations THEN s.lease ELSE 0]

Reproduces(before, s) ==
    IF s.last.type \in SystemTypes
    THEN /\ s.last.at >= before.updatedAt
         /\ Due(before, s.last.at)
         /\ Reconciled(before, s.last.at) = s
    ELSE /\ Accepts(before, Rebuilt(s))
         /\ After(before, Rebuilt(s)) = s

CanBeReplayed ==
    /\ audit # <<>> => audit[1] = Created
    /\ \A i \in DOMAIN audit \ {1} : Reproduces(audit[i - 1], audit[i])
    /\ \A i, j \in DOMAIN audit : audit[i].last.id = audit[j].last.id => i = j
=============================================================================
