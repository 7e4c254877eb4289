----------------------------- MODULE RunState -------------------------------
(***************************************************************************)
(* The state of one simulation run and the two functions that move it,     *)
(* domain/simulationRunState.ts: an event applied by                       *)
(* transitionSimulationRun, and what reconcilePersistedSimulationRun does  *)
(* when a deadline has passed.                                             *)
(*                                                                         *)
(* Times are naturals; 0 stands for null in `lease` and `cooldownUntil`,   *)
(* both of which are later than the creation of the run once they are set. *)
(* stateEnteredAtMs, the chain anchors, the reason texts and the copies of *)
(* `from` and `to` in lastTransition decide nothing and are left out.      *)
(***************************************************************************)
EXTENDS Naturals, Sequences

CONSTANTS
    RunExpires,      \* runExpiresAtMs of the run; its creation is at time 0
    CooldownBudget,  \* COOLDOWN_BUDGET_MS
    Live,            \* live: a fault is applied to the lab, or none is
    Horizon,         \* bound of the clock
    Requests         \* ids of the events that operators ask for

\* The ids the program makes up itself: a name and the deadline or revision.
SystemNames == {"create", "resume", "cooldown", "lease-over", "run-over"}

ASSUME RunAssumption ==
    /\ Horizon \in Nat
    /\ RunExpires \in Nat \ {0}
    /\ CooldownBudget \in Nat \ {0}
    /\ Live \in BOOLEAN
    /\ Requests \cap (SystemNames \X Nat) = {}

Statuses == {"draft", "preflight", "rejected", "scheduled", "baseline", "armed",
             "activation_pending", "fault_active", "observing", "aborting",
             "recovery", "cooldown", "completed", "aborted", "failed"}

EventTypes == {"begin_preflight", "preflight_passed", "preflight_rejected",
               "begin_baseline", "baseline_completed", "dry_run_completed",
               "begin_activation", "activate_fault", "begin_observation",
               "begin_recovery", "recovery_succeeded", "recovery_failed",
               "cooldown_completed", "abort_requested"}

SystemTypes == {"system_timeout", "system_resume_recovery",
                "system_cooldown_complete"}

\* SimulationTransitionRecord.
Transitions == [id : Requests \cup (SystemNames \X Nat),
                type : EventTypes \cup SystemTypes \cup {"run_created"},
                at : 0..Horizon]

\* SimulationRunState; `last` is its lastTransition.
States == [status : Statuses, revision : Nat, updatedAt : 0..Horizon,
           cooldownUntil : Nat, lease : 0..RunExpires, faultOn : BOOLEAN,
           abort : BOOLEAN,
           last : Transitions]

\* ORDINARY_TRANSITIONS: from, by which event, to.
Ordinary ==
    {<<"draft", "begin_preflight", "preflight">>,
     <<"preflight", "preflight_passed", "scheduled">>,
     <<"preflight", "preflight_rejected", "rejected">>,
     <<"scheduled", "begin_baseline", "baseline">>,
     <<"baseline", "baseline_completed", "armed">>,
     <<"armed", "begin_activation", "activation_pending">>,
     <<"armed", "activate_fault", "fault_active">>,
     <<"armed", "dry_run_completed", "completed">>,
     <<"armed", "begin_recovery", "recovery">>,
     <<"activation_pending", "activate_fault", "fault_active">>,
     <<"activation_pending", "begin_recovery", "recovery">>,
     <<"fault_active", "begin_observation", "observing">>,
     <<"fault_active", "begin_recovery", "recovery">>,
     <<"observing", "begin_recovery", "recovery">>,
     <<"aborting", "begin_recovery", "recovery">>,
     <<"recovery", "recovery_succeeded", "cooldown">>,
     <<"recovery", "recovery_failed", "failed">>,
     <<"cooldown", "cooldown_completed", "completed">>,
     <<"failed", "begin_recovery", "recovery">>}

Activations == {"begin_activation", "activate_fault"}

\* An activation carries the end of its fault lease, nothing else does.
Events ==
    [id : Requests, type : EventTypes \ Activations, at : 0..Horizon, lease : {0}]
      \cup [id : Requests, type : Activations, at : 0..Horizon, lease : 1..RunExpires]

Outcomes == {"recovery_succeeded", "recovery_failed"}

Terminal == {"rejected", "completed", "aborted"}

TimeoutRecovery == {"preflight", "scheduled", "baseline", "armed",
                    "activation_pending", "fault_active", "observing"}

\* Everything that is not over, not in recovery and not failed.
Abortable == TimeoutRecovery \cup {"draft", "cooldown"}

\* Events an expired run still takes: assertEvent's recoverySafeEvent.
SafeWhenExpired == Outcomes \cup {"abort_requested", "begin_recovery",
                                  "cooldown_completed"}

-----------------------------------------------------------------------------
\* createSimulationRunState; `last` is the record that created the run.
Created ==
    [status |-> "draft", revision |-> 0, updatedAt |-> 0, cooldownUntil |-> 0,
     lease |-> 0, faultOn |-> FALSE, abort |-> FALSE,
     last |-> [id |-> <<"create", 0>>, type |-> "run_created", at |-> 0]]

\* What one event leads to from a status, before the run's intent is asked.
Leads(from, type) == {t[3] : t \in {u \in Ordinary : u[1] = from /\ u[2] = type}}

\* assertEvent and the refusals of transitionSimulationRun.  A repetition of
\* the run's latest event is answered before this is asked: its id is on record.
Accepts(s, e) ==
    /\ e.at >= s.updatedAt
    /\ e.at >= RunExpires => e.type \in SafeWhenExpired
    /\ IF e.type = "abort_requested"
       THEN s.status \in Abortable \cup {"recovery"}
       ELSE Leads(s.status, e.type) # {}
    /\ e.type \in Activations => Live /\ e.at < e.lease /\ e.lease <= RunExpires
    /\ e.type = "dry_run_completed" => ~Live
    /\ e.type = "begin_recovery" /\ s.status = "failed" => s.faultOn

\* mutant: a run that was to be aborted rests like one that finished
Target_IgnoresAbort(s, e) ==
    IF e.type = "abort_requested"
    THEN IF s.status = "recovery" THEN "recovery" ELSE "aborting"
    ELSE CHOOSE to \in Leads(s.status, e.type) : TRUE

\* Where an accepted event takes the run.
Target(s, e) ==
    IF e.type = "abort_requested"
    THEN IF s.status = "recovery" THEN "recovery" ELSE "aborting"
    ELSE IF e.type = "recovery_succeeded" /\ s.abort THEN "aborted"
    ELSE CHOOSE to \in Leads(s.status, e.type) : TRUE

\* applyTransition.
Moved(s, id, type, at, to) ==
    [s EXCEPT !.status = to, !.revision = @ + 1, !.updatedAt = at,
              !.cooldownUntil = IF to = "cooldown" /\ s.status # "cooldown"
                                THEN at + CooldownBudget ELSE @,
              !.last = [id |-> id, type |-> type, at |-> at]]

\* mutant: a clean recovery leaves the fault lease on the run
After_LeaseStays(s, e) ==
    [Moved(s, e.id, e.type, e.at, Target(s, e)) EXCEPT
        !.abort = @ \/ e.type = "abort_requested",
        !.lease = IF e.type \in Activations THEN e.lease ELSE @,
        !.faultOn = /\ @ \/ e.type \in Activations \cup {"recovery_failed"}
                    /\ e.type # "recovery_succeeded"]

\* transitionSimulationRun on an event it accepts.
After(s, e) ==
    [Moved(s, e.id, e.type, e.at, Target(s, e)) EXCEPT
        !.abort = @ \/ e.type = "abort_requested",
        !.lease = IF e.type \in Activations THEN e.lease
                  ELSE IF e.type = "recovery_succeeded" THEN 0 ELSE @,
        !.faultOn = /\ @ \/ e.type \in Activations \cup {"recovery_failed"}
                    /\ e.type # "recovery_succeeded"]

-----------------------------------------------------------------------------
LeaseOver(s, now) == s.faultOn /\ s.lease # 0 /\ now >= s.lease

CooldownOver(s, now) == s.status = "cooldown" /\ now >= s.cooldownUntil

TimedOut(s, now) ==
    s.status \in TimeoutRecovery /\ (LeaseOver(s, now) \/ now >= RunExpires)

\* reconcilePersistedSimulationRun moves the run.
Due(s, now) == s.status = "aborting" \/ CooldownOver(s, now) \/ TimedOut(s, now)

\* The id is made from the deadline, so that two sweeps name the same event.
Reconciled(s, now) ==
    IF s.status = "aborting"
    THEN [Moved(s, <<"resume", s.revision>>, "system_resume_recovery", now, "recovery")
            EXCEPT !.abort = TRUE]
    ELSE IF s.status = "cooldown"
    THEN Moved(s, <<"cooldown", s.cooldownUntil>>, "system_cooldown_complete", now, "completed")
    ELSE [Moved(s, IF LeaseOver(s, now) THEN <<"lease-over", s.lease>>
                                        ELSE <<"run-over", RunExpires>>,
                "system_timeout", now, "recovery") EXCEPT !.abort = TRUE]

\* mutant: a lapsed fault lease is not a reason to look at a run
Reconcilable_NotTimeouts(s, now) ==
    \/ s.status = "aborting"
    \/ s.status = "cooldown" /\ (now >= RunExpires \/ now >= s.cooldownUntil)

\* domain/reconcileSweep.ts, reconcilableRunFilter: which rows a sweep looks at.
Reconcilable(s, now) ==
    /\ s.status \in TimeoutRecovery \cup {"aborting", "cooldown"}
    /\ \/ s.status = "aborting"
       \/ now >= RunExpires
       \/ LeaseOver(s, now)
       \/ CooldownOver(s, now)
=============================================================================
