---------------------------- MODULE MCRunStore ------------------------------
(***************************************************************************)
(* The store of one run, started on databases that hold nothing, a run     *)
(* that is armed, one whose fault is on, or one that is in recovery.       *)
(***************************************************************************)
EXTENDS RunStore, SequencesExt, TLC

CONSTANTS r1, r2, w1, w2, Starts

\* The log of a run that the given events moved, all at time 0.
Prepared(types) ==
    LET take(log, type) ==
          Append(log, After(log[Len(log)],
                   [id |-> <<"create", Len(log)>>, type |-> type, at |-> 0,
                    lease |-> IF type \in Activations THEN 1 ELSE 0]))
    IN FoldLeft(take, <<Created>>, types)

ToArmed == <<"begin_preflight", "preflight_passed", "begin_baseline",
             "baseline_completed">>
ToActive == ToArmed \o <<"begin_activation", "activate_fault">>
ToRecovery == ToActive \o <<"begin_recovery">>

RaceStarts == {<<>>, Prepared(ToArmed), Prepared(ToRecovery)}
SweepStarts == RaceStarts \cup {Prepared(ToActive)}

MCInit == \E h \in Starts : StartFrom(h)

\* What the two requests may turn out to be.
MCAsked ==
    {e \in Events :
        e.type \in (IF e.id = r1
                   THEN {"begin_activation", "recovery_succeeded"}
                   ELSE {"abort_requested", "recovery_failed"})}

\* Two requests at one instant, or one while time passes and the process dies.
VARIABLE crowd

Pair == "pair"
Single == "single"

ScenarioInit ==
    \/ crowd = Pair /\ StartFrom(Prepared(ToArmed))
    \/ crowd = Single /\ MCInit

\* Writers are alike while they are idle: the first free one is taken.
PairNext ==
    /\ crowd = Pair
    /\ \/ BeginSweep
       \/ Requested(w1)
       \/ pc[w1] # "idle" /\ Requested(w2)
       \/ \E a \in Actors : Step(a)

SingleNext ==
    /\ crowd = Single
    /\ \/ Tick \/ Crash \/ BeginSweep
       \/ Requested(w1)
       \/ \E a \in Actors : Step(a)

MCNext == (PairNext \/ SingleNext) /\ UNCHANGED crowd

MCSpec == ScenarioInit /\ [][MCNext]_<<vars, crowd>> /\ SweepFairness
=============================================================================
