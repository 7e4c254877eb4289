------------------------- MODULE LiveControlProofs --------------------------
(***************************************************************************)
(* Proofs about the live control plane: for any runs, operators, requests, *)
(* schedules, leases and clock, and any number of calls and crashes.       *)
(*                                                                         *)
(* The argument is in three parts.  Good is what the state of a run and    *)
(* the events on its audit say of each other, kept by every transition.    *)
(* InHand is what a call relies on at each of its awaits, kept whatever    *)
(* moves the run meanwhile.  HoldsLab is the lock: from the moment it is   *)
(* taken for a run that may still be activated until that run's lease is   *)
(* gone it is that run's, in the name of the operator who starts it.       *)
(***************************************************************************)
EXTENDS LiveControl, TLAPS

-----------------------------------------------------------------------------
(***************************************************************************)
(* One run and the ids on its audit.                                       *)
(***************************************************************************)

LiveStatuses == {"armed", "activation_pending", "fault_active", "observing",
                 "aborting", "recovery", "cooldown", "completed", "aborted", "failed"}

Has(ids, suffix) == \E id \in ids : id[2] = suffix

Good(s, ids) ==
    /\ s \in States /\ s.status \in LiveStatuses
    /\ s.status = "armed" => ids = {}
    /\ s.status \in {"armed", "cooldown", "completed", "aborted"} => s.lease = 0
    /\ s.status = "activation_pending" => s.lease # 0 /\ s.updatedAt <= ActivateBy
    /\ s.abort => s.status \in {"aborting", "recovery", "failed", "aborted"}
    /\ s.status \in {"aborting", "aborted"} => s.abort
    /\ s.status \in {"fault_active", "observing", "cooldown", "completed"}
         => Has(ids, "activate")
    /\ s.status \in {"recovery", "failed"} => s.abort \/ Has(ids, "activate")
    /\ Has(ids, "recovered")
         => s.lease = 0 /\ s.status \notin {"armed", "activation_pending"}
    /\ Has(ids, "abort") => s.abort

\* The events that the control plane makes up, and their ids.
ControlEvent(e) ==
    /\ e.id \in EventIds /\ e.at \in 0..Horizon /\ e.lease \in Nat
    /\ \/ e.type = "begin_activation" /\ e.id[2] = "begin-activation"
                                      /\ e.at <= ActivateBy
       \/ e.type = "activate_fault" /\ e.id[2] = "activate"
       \/ e.type = "abort_requested" /\ e.id[2] = "abort"
       \/ e.type = "begin_recovery" /\ e.id[2] \in {"begin", "recovery"}
       \/ e.type = "recovery_succeeded" /\ e.id[2] = "recovered"
       \/ e.type = "recovery_failed" /\ e.id[2] = "recovery-failed"
       \/ e.type = "begin_observation" /\ e.id[2] = "observe"

\* The table, as far as those events go.
Path(from, e, to, abort) ==
    \/ e.type = "begin_activation" /\ from = "armed" /\ to = "activation_pending"
    \/ e.type = "activate_fault" /\ from \in {"armed", "activation_pending"}
                                 /\ to = "fault_active"
    \/ e.type = "abort_requested" /\ to = IF from = "recovery" THEN "recovery" ELSE "aborting"
    \/ e.type = "begin_recovery" /\ to = "recovery"
         /\ from \in {"armed", "activation_pending", "fault_active", "observing",
                      "aborting", "failed"}
    \/ e.type = "recovery_succeeded" /\ from = "recovery"
         /\ to = IF abort THEN "aborted" ELSE "cooldown"
    \/ e.type = "recovery_failed" /\ from = "recovery" /\ to = "failed"
    \/ e.type = "begin_observation" /\ from = "fault_active" /\ to = "observing"

LEMMA ChosenTarget ==
    ASSUME NEW from, NEW type, Leads(from, type) # {}
    PROVE  \E t \in Ordinary :
             /\ t[1] = from /\ t[2] = type
             /\ t[3] = (CHOOSE to \in Leads(from, type) : TRUE)
BY Zenon DEF Leads

LEMMA OrdinaryPaths ==
    ASSUME NEW t \in Ordinary
    PROVE  /\ t[2] = "begin_activation" => t[1] = "armed" /\ t[3] = "activation_pending"
           /\ t[2] = "activate_fault" => /\ t[1] \in {"armed", "activation_pending"}
                                        /\ t[3] = "fault_active"
           /\ t[2] = "begin_recovery" =>
                /\ t[1] \in {"armed", "activation_pending", "fault_active", "observing",
                             "aborting", "failed"}
                /\ t[3] = "recovery"
           /\ t[2] = "recovery_succeeded" => t[1] = "recovery" /\ t[3] = "cooldown"
           /\ t[2] = "recovery_failed" => t[1] = "recovery" /\ t[3] = "failed"
           /\ t[2] = "begin_observation" => t[1] = "fault_active" /\ t[3] = "observing"
BY SMTT(60) DEF Ordinary

LEMMA EventPath ==
    ASSUME NEW s, NEW e, ControlEvent(e), Accepts(s, e)
    PROVE  Path(s.status, e, Target(s, e), s.abort)
<1>1. CASE e.type = "abort_requested"
  BY <1>1 DEF Target, Path
<1>2. CASE e.type # "abort_requested"
  <2>1. PICK t \in Ordinary :
          /\ t[1] = s.status /\ t[2] = e.type
          /\ t[3] = (CHOOSE to \in Leads(s.status, e.type) : TRUE)
    BY <1>2, ChosenTarget DEF Accepts
  <2>2. Target(s, e) = IF e.type = "recovery_succeeded" /\ s.abort THEN "aborted" ELSE t[3]
    BY <1>2, <2>1 DEF Target
  <2> DEFINE to == Target(s, e)
  <2>3. to = IF e.type = "recovery_succeeded" /\ s.abort THEN "aborted" ELSE t[3]
    BY <2>2
  <2> HIDE DEF to
  <2>4. Path(s.status, e, to, s.abort)
    BY <1>2, <2>1, <2>3, OrdinaryPaths DEF Path, ControlEvent
  <2> QED BY <2>4 DEF to
<1> QED BY <1>1, <1>2

\* What applyTransition leaves of a state, whatever moved it.
LEMMA MovedState ==
    ASSUME NEW s \in States, NEW id \in EventIds \cup (SystemNames \X Nat),
           NEW type \in EventTypes \cup SystemTypes, NEW at \in 0..Horizon,
           NEW to \in Statuses
    PROVE  LET moved == Moved(s, id, type, at, to)
           IN /\ moved \in States
              /\ moved.status = to /\ moved.updatedAt = at
              /\ moved.abort = s.abort /\ moved.lease = s.lease
              /\ moved.faultOn = s.faultOn
<1> DEFINE until == IF to = "cooldown" /\ s.status # "cooldown"
                    THEN at + CooldownBudget ELSE s.cooldownUntil
           record1 == [id |-> id, type |-> type, at |-> at]
           moved == Moved(s, id, type, at, to)
<1>1. until \in Nat
  BY ControlAssumption DEF States
<1>2. record1 \in Transitions
  BY DEF Transitions
<1>3. s.revision + 1 \in Nat
  BY DEF States
<1>4. moved = [s EXCEPT !.status = to, !.revision = @ + 1, !.updatedAt = at,
                        !.cooldownUntil = until, !.last = record1]
  BY DEF Moved
<1> HIDE DEF until, record1, moved
<1> QED BY <1>1, <1>2, <1>3, <1>4 DEF States, moved

LEMMA PlainState ==
    ASSUME NEW s \in States
    PROVE  /\ Plain(s) \in States
           /\ Plain(s).status = s.status /\ Plain(s).updatedAt = s.updatedAt
           /\ Plain(s).abort = s.abort /\ Plain(s).lease = s.lease
           /\ Plain(s).faultOn = s.faultOn
<1> DEFINE first == Created.last
<1>1. first \in Transitions
  <2>1. Created.last = [id |-> <<"create", 0>>, type |-> "run_created", at |-> 0]
    BY DEF Created
  <2>2. <<"create", 0>> \in SystemNames \X Nat /\ 0 \in 0..Horizon
    BY ControlAssumption DEF SystemNames
  <2> QED BY <2>1, <2>2 DEF Transitions
<1> DEFINE plain == Plain(s)
<1>2. plain = [s EXCEPT !.revision = 0, !.last = first]
  BY DEF Plain
<1> HIDE DEF first, plain
<1>3. plain \in States
  BY <1>1, <1>2 DEF States
<1>4. /\ plain.status = s.status /\ plain.updatedAt = s.updatedAt
      /\ plain.abort = s.abort /\ plain.lease = s.lease
      /\ plain.faultOn = s.faultOn
  BY <1>2 DEF States
<1> QED BY <1>3, <1>4 DEF plain

\* What an event does to a run that takes it.
LEMMA EventStep ==
    ASSUME NEW s \in States, NEW e, ControlEvent(e), Accepts(s, e)
    PROVE  LET t == Plain(After(s, e))
           IN /\ t \in States
              /\ Path(s.status, e, t.status, s.abort)
              /\ t.updatedAt = e.at
              /\ t.abort = (s.abort \/ e.type = "abort_requested")
              /\ t.lease = IF e.type \in Activations THEN e.lease
                           ELSE IF e.type = "recovery_succeeded" THEN 0 ELSE s.lease
              /\ e.type \in Activations => e.lease # 0
<1> DEFINE to == Target(s, e)
           moved == Moved(s, e.id, e.type, e.at, to)
           abort == s.abort \/ e.type = "abort_requested"
           lease == IF e.type \in Activations THEN e.lease
                    ELSE IF e.type = "recovery_succeeded" THEN 0 ELSE s.lease
           faultOn == /\ s.faultOn \/ e.type \in Activations \cup {"recovery_failed"}
                      /\ e.type # "recovery_succeeded"
           after == After(s, e)
<1>1. Path(s.status, e, to, s.abort)
  BY EventPath
<1> HIDE DEF to
<1>2. to \in Statuses /\ e.type \in EventTypes
  BY <1>1 DEF Path, Statuses, EventTypes
<1>3. /\ moved \in States
      /\ moved.status = to /\ moved.updatedAt = e.at
      /\ moved.abort = s.abort /\ moved.lease = s.lease /\ moved.faultOn = s.faultOn
  BY <1>2, MovedState DEF ControlEvent
<1>4. after = [moved EXCEPT !.abort = abort, !.lease = lease, !.faultOn = faultOn]
  BY <1>3 DEF After, to
<1>5. /\ abort \in BOOLEAN /\ lease \in 0..RunExpires /\ faultOn \in BOOLEAN
      /\ e.type \in Activations => e.lease # 0
  BY ControlAssumption DEF States, Accepts, ControlEvent
<1> HIDE DEF moved, abort, lease, faultOn, after
<1>6. /\ after \in States
      /\ after.status = to /\ after.updatedAt = e.at
      /\ after.abort = abort /\ after.lease = lease
  BY <1>3, <1>4, <1>5 DEF States
<1>7. /\ Plain(after) \in States
      /\ Plain(after).status = to /\ Plain(after).updatedAt = e.at
      /\ Plain(after).abort = abort /\ Plain(after).lease = lease
  BY <1>6, PlainState
<1> QED BY <1>1, <1>5, <1>7 DEF after, abort, lease

\* Every transition keeps a run and its audit in agreement.
LEMMA GoodStep ==
    ASSUME NEW s, NEW ids, NEW e, Good(s, ids), ControlEvent(e), Accepts(s, e),
           e.type = "begin_recovery" => s.abort \/ Has(ids, "activate")
    PROVE  LET t == Plain(After(s, e))
           IN /\ Good(t, ids \cup {e.id})
              /\ t.status # "armed"
              /\ s.abort => t.abort
              /\ e.type = "abort_requested" => t.abort
              /\ t.lease # 0 => s.lease # 0 \/ s.status = "armed"
<1> DEFINE t == Plain(After(s, e))
           more == ids \cup {e.id}
<1>1. /\ t \in States
      /\ Path(s.status, e, t.status, s.abort)
      /\ t.updatedAt = e.at
      /\ t.abort = (s.abort \/ e.type = "abort_requested")
      /\ t.lease = IF e.type \in Activations THEN e.lease
                   ELSE IF e.type = "recovery_succeeded" THEN 0 ELSE s.lease
      /\ e.type \in Activations => e.lease # 0
  BY EventStep DEF Good
<1> HIDE DEF t
<1>2. /\ Has(ids, "activate") => Has(more, "activate")
      /\ e.type = "activate_fault" => Has(more, "activate")
      /\ Has(more, "recovered") => Has(ids, "recovered") \/ e.type = "recovery_succeeded"
      /\ Has(more, "abort") => Has(ids, "abort") \/ e.type = "abort_requested"
  BY DEF Has, ControlEvent
<1> HIDE DEF more
<1>3. s.abort \in BOOLEAN
  BY DEF Good, States
<1>4. t.status # "armed" /\ t.status \in LiveStatuses
  BY <1>1 DEF Path, Good, LiveStatuses
<1>5. e.type = "begin_activation" => e.at <= ActivateBy
  BY DEF ControlEvent
<1>6. Good(t, more)
  <2>1. CASE e.type = "begin_activation"
    BY <2>1, <1>1, <1>2, <1>3, <1>4, <1>5
       DEF Path, Good, Activations, LiveStatuses
  <2>2. CASE e.type = "activate_fault"
    BY <2>2, <1>1, <1>2, <1>3, <1>4, <1>5
       DEF Path, Good, Activations, LiveStatuses
  <2>3. CASE e.type = "abort_requested"
    BY <2>3, <1>1, <1>2, <1>3, <1>4, <1>5
       DEF Path, Good, Activations, LiveStatuses
  <2>4. CASE e.type = "begin_recovery"
    BY <2>4, <1>1, <1>2, <1>3, <1>4, <1>5
       DEF Path, Good, Activations, LiveStatuses
  <2>5. CASE e.type = "recovery_succeeded"
    BY <2>5, <1>1, <1>2, <1>3, <1>4, <1>5
       DEF Path, Good, Activations, LiveStatuses
  <2>6. CASE e.type = "recovery_failed"
    BY <2>6, <1>1, <1>2, <1>3, <1>4, <1>5
       DEF Path, Good, Activations, LiveStatuses
  <2>7. CASE e.type = "begin_observation"
    BY <2>7, <1>1, <1>2, <1>3, <1>4, <1>5
       DEF Path, Good, Activations, LiveStatuses
  <2> QED BY <2>1, <2>2, <2>3, <2>4, <2>5, <2>6, <2>7 DEF ControlEvent
<1>7. t.lease # 0 => s.lease # 0 \/ s.status = "armed"
  BY <1>1 DEF Path, Good, Activations
<1> QED BY <1>1, <1>3, <1>4, <1>6, <1>7 DEF t, more

\* So does the sweep.
LEMMA GoodSweep ==
    ASSUME NEW s, NEW ids, NEW at \in 0..Horizon, Good(s, ids), Due(s, at)
    PROVE  LET t == Plain(Reconciled(s, at))
           IN /\ Good(t, ids)
              /\ t.status # "armed"
              /\ s.abort => t.abort
              /\ t.lease = s.lease
<1> DEFINE t == Plain(Reconciled(s, at))
<1>0. /\ s \in States /\ s.revision \in Nat /\ s.cooldownUntil \in Nat /\ s.lease \in Nat
      /\ s.abort \in BOOLEAN /\ RunExpires \in Nat
  BY ControlAssumption DEF States, Good
<1>1. CASE s.status = "cooldown"
  <2>1. <<"cooldown", s.cooldownUntil>> \in SystemNames \X Nat
    BY <1>0 DEF SystemNames
  <2>2. Reconciled(s, at) = Moved(s, <<"cooldown", s.cooldownUntil>>,
                                  "system_cooldown_complete", at, "completed")
    BY <1>1 DEF Reconciled
  <2> DEFINE after == Reconciled(s, at)
  <2>3. /\ after \in States /\ after.status = "completed"
        /\ after.abort = s.abort /\ after.lease = s.lease
    BY <1>0, <2>1, <2>2, MovedState DEF Statuses, SystemTypes
  <2> HIDE DEF after
  <2>4. /\ t \in States /\ t.status = "completed"
        /\ t.abort = s.abort /\ t.lease = s.lease
    BY <2>3, PlainState DEF after
  <2> HIDE DEF t
  <2> QED BY <1>0, <1>1, <2>4 DEF Good, LiveStatuses, t
<1>2. CASE s.status # "cooldown"
  <2> DEFINE id == IF s.status = "aborting" THEN <<"resume", s.revision>>
                   ELSE IF LeaseOver(s, at) THEN <<"lease-over", s.lease>>
                   ELSE <<"run-over", RunExpires>>
             type == IF s.status = "aborting" THEN "system_resume_recovery"
                     ELSE "system_timeout"
             moved == Moved(s, id, type, at, "recovery")
             after == Reconciled(s, at)
  <2>1. id \in SystemNames \X Nat /\ type \in SystemTypes /\ "recovery" \in Statuses
    BY <1>0 DEF SystemNames, SystemTypes, Statuses
  <2>2. after = [moved EXCEPT !.abort = TRUE]
    BY <1>2 DEF Reconciled
  <2> HIDE DEF id, type
  <2>3. /\ moved \in States /\ moved.status = "recovery"
        /\ moved.abort = s.abort /\ moved.lease = s.lease
    BY <1>0, <2>1, MovedState
  <2> HIDE DEF moved, after
  <2>4. /\ after \in States /\ after.status = "recovery"
        /\ after.abort /\ after.lease = s.lease
    BY <2>2, <2>3 DEF States
  <2>5. /\ t \in States /\ t.status = "recovery"
        /\ t.abort /\ t.lease = s.lease
    BY <2>4, PlainState DEF after
  <2>6. s.status \in {"armed", "activation_pending", "fault_active", "observing", "aborting"}
    BY <1>2 DEF Due, CooldownOver, TimedOut, TimeoutRecovery, Good, LiveStatuses
  <2> HIDE DEF t
  <2> QED BY <1>0, <2>5, <2>6 DEF Good, LiveStatuses, t
<1> QED BY <1>1, <1>2

-----------------------------------------------------------------------------
(***************************************************************************)
(* The calls, and the runs they move.                                      *)
(***************************************************************************)

CallTypes ==
    /\ now \in 0..Horizon
    /\ run \in [Run -> States]
    /\ record \in [Run -> SUBSET EventIds]
    /\ lock \in Locks
    /\ accepted \in [Request -> (0..Horizon) \cup {None}]
    /\ call \in [Request -> [at : CallStages, from : 0..Horizon,
                             mine : BOOLEAN, clean : BOOLEAN]]
    /\ left \in [Request -> Nat]
    /\ told \subseteq Request
    /\ crashes \in 0..MaxCrashes

RunsGood ==
    \A r \in Run : /\ Good(run[r], record[r])
                   /\ run[r].status # "armed" => born[r] <= now

StartStages == {"lock", "relock", "intent", "giveback", "apply", "await", "enqueue",
                "activate"}

EndStages == {"ask", "begin", "cancel", "probe", "record", "release"}

\* The intent of this start is on the audit of its run.
Own(q) == <<q, "begin-activation">> \in record[Of(q)]

\* What a call relies on at the await it is at.
InHand(q) ==
    LET r == Of(q)
        at == call[q].at
    IN /\ at # "idle" => born[r] <= now
       /\ at \in StartStages => asks[q].op = "start" /\ call[q].from <= ActivateBy
       /\ at \in EndStages => asks[q].op # "start" /\ accepted[q] \in 0..Horizon
       /\ at \in {"relock", "apply", "await", "enqueue", "activate"} => Own(q)
       /\ at = "giveback" => ~Own(q)
       /\ at = "begin" => run[r].abort \/ Has(record[r], "activate")
       /\ at = "release" => Has(record[r], "recovered")
       /\ asks[q].op = "abort" /\ at \in EndStages \ {"ask"} => run[r].abort

HandsGood == \A q \in Request : InHand(q)

ToldGood == \A q \in told : asks[q].op = "abort" => run[Of(q)].abort

CallInv == CallTypes /\ RunsGood /\ HandsGood /\ ToldGood

\* Whatever moves the runs, their audits grow and aborts stay.
Grows ==
    \A r \in Run :
        /\ record[r] \subseteq record'[r]
        /\ run[r].abort => run'[r].abort
        /\ run'[r].lease # 0 => run[r].lease # 0 \/ run[r].status = "armed"
        /\ run'[r].status = "armed" => run[r].status = "armed"

LEMMA StillGrows ==
    ASSUME UNCHANGED stateVars
    PROVE  Grows
BY DEF stateVars, Grows

LEMMA HasMore ==
    ASSUME NEW ids, NEW more, ids \subseteq more, NEW suffix, Has(ids, suffix)
    PROVE  Has(more, suffix)
BY DEF Has

\* An event moves its run and no other.
LEMMA MovesGood ==
    ASSUME CallTypes, RunsGood, NEW r \in Run, NEW e, ControlEvent(e), born[r] <= now,
           now' = now, Moves(r, e),
           e.type = "begin_recovery" => run[r].abort \/ Has(record[r], "activate")
    PROVE  /\ run' \in [Run -> States] /\ record' \in [Run -> SUBSET EventIds]
           /\ RunsGood'
           /\ Grows
           /\ record' = [record EXCEPT ![r] = @ \cup {e.id}]
           /\ e.id \in record'[r]
           /\ run'[r].status # "armed"
           /\ e.type = "abort_requested" => run'[r].abort
<1> USE DEF CallTypes
<1>1. /\ record' = [record EXCEPT ![r] = @ \cup {e.id}]
      /\ record' \in [Run -> SUBSET EventIds] /\ e.id \in record'[r]
  BY DEF Moves, ControlEvent
<1>2. Good(run[r], record[r])
  BY DEF RunsGood
<1>3. CASE e.id \in record[r]
  <2>1. run' = run /\ record' = record
    BY <1>1, <1>3 DEF Moves
  <2>2. run[r].status # "armed"
    BY <1>2, <1>3 DEF Good
  <2>3. e.type = "abort_requested" => run[r].abort
    BY <1>2, <1>3 DEF Good, Has, ControlEvent
  <2> QED BY <1>1, <2>1, <2>2, <2>3 DEF RunsGood, Grows
<1>4. CASE e.id \notin record[r]
  <2> DEFINE t == Plain(After(run[r], e))
  <2>1. Accepts(run[r], e) /\ run' = [run EXCEPT ![r] = t]
    BY <1>4 DEF Moves, Takes
  <2>2. /\ Good(t, record[r] \cup {e.id})
        /\ t.status # "armed"
        /\ run[r].abort => t.abort
        /\ e.type = "abort_requested" => t.abort
        /\ t.lease # 0 => run[r].lease # 0 \/ run[r].status = "armed"
    BY <1>2, <2>1, GoodStep
  <2> HIDE DEF t
  <2>3. run' \in [Run -> States]
    BY <2>1, <2>2 DEF Good
  <2>4. /\ run'[r] = t /\ record'[r] = record[r] \cup {e.id}
        /\ \A x \in Run \ {r} : run'[x] = run[x] /\ record'[x] = record[x]
    BY <1>1, <2>1
  <2>5. RunsGood'
    BY <2>2, <2>4 DEF RunsGood
  <2>6. Grows
    BY <2>2, <2>4 DEF Grows
  <2> QED BY <1>1, <2>2, <2>3, <2>4, <2>5, <2>6
<1> QED BY <1>3, <1>4

\* A call that is not the one that moves keeps what it has in hand.
LEMMA InHandKept ==
    ASSUME NEW q \in Request, InHand(q), Grows, Of(q) \in Run,
           call'[q] = call[q], accepted'[q] = accepted[q], now <= now', now' \in Nat,
           now \in Nat, born[Of(q)] \in Nat,
           <<q, "begin-activation">> \in record'[Of(q)] => Own(q)
    PROVE  InHand(q)'
<1>1. record[Of(q)] \subseteq record'[Of(q)] /\ (run[Of(q)].abort => run'[Of(q)].abort)
  BY DEF Grows
<1>2. /\ Has(record[Of(q)], "activate") => Has(record'[Of(q)], "activate")
      /\ Has(record[Of(q)], "recovered") => Has(record'[Of(q)], "recovered")
  BY <1>1, HasMore
<1>3. Own(q)' <=> Own(q)
  BY <1>1 DEF Own, Of
<1> QED
  BY <1>1, <1>2, <1>3 DEF InHand, Of

\* What the steps of one call have in common.
LEMMA CallStep ==
    ASSUME CallInv, NEW q \in Request, now' = now, Grows, InHand(q)',
           \A p \in Request \ {q} : call'[p] = call[p] /\ accepted'[p] = accepted[p],
           \A p \in Request \ {q} :
               <<p, "begin-activation">> \in record'[Of(p)] => Own(p),
           \/ told' = told
           \/ /\ told' = told \cup {q}
              /\ asks[q].op = "abort" => run'[Of(q)].abort
    PROVE  HandsGood' /\ ToldGood'
<1>1. \A p \in Request : Of(p) \in Run /\ born[Of(p)] \in Nat
  BY ControlAssumption DEF Of
<1>2. HandsGood'
  <2> SUFFICES ASSUME NEW p \in Request PROVE InHand(p)'
    BY DEF HandsGood
  <2>1. CASE p = q
    BY <2>1
  <2>2. CASE p # q
    <3>1. InHand(p) /\ now \in Nat /\ now' \in Nat /\ now <= now'
      BY ControlAssumption DEF CallInv, HandsGood, CallTypes
    <3> QED BY <1>1, <2>2, <3>1, InHandKept
  <2> QED BY <2>1, <2>2
<1>3. ToldGood'
  BY <1>1 DEF CallInv, CallTypes, ToldGood, Grows, Of
<1> QED BY <1>2, <1>3

\* The first step of a call, and where it may go to from what it reads.
LEMMA ArrivesKeeps ==
    ASSUME CallInv, NEW q \in Request, NEW stage, Arrives(q, stage),
           \/ stage \in {"told", "refused"}
           \/ stage \in {"lock", "relock"} /\ asks[q].op = "start"
           \/ stage \in {"ask", "begin", "cancel"} /\ asks[q].op # "start",
           stage = "lock" => Clock(Of(q)) <= ActivateBy,
           stage = "relock" => Own(q) /\ run[Of(q)].status = "activation_pending",
           stage = "begin" => run[Of(q)].abort \/ Has(record[Of(q)], "activate"),
           asks[q].op = "abort" /\ stage \in {"begin", "cancel", "told"} => run[Of(q)].abort
    PROVE  CallInv'
<1> USE ControlAssumption DEF CallInv, CallTypes
<1>1. /\ Of(q) \in Run /\ born[Of(q)] \in Nat /\ born[Of(q)] <= now
      /\ now' = now /\ UNCHANGED <<run, record, lock, crashes>>
  BY DEF Arrives, stateVars, Of
<1>2. Clock(Of(q)) \in 0..Horizon
  BY <1>1 DEF Clock
<1> DEFINE from == IF stage = "lock" THEN Clock(Of(q))
                   ELSE IF stage = "relock" THEN run[Of(q)].updatedAt ELSE 0
           made == IF stage \in {"told", "refused"} THEN NoCall
                   ELSE [NoCall EXCEPT !.at = stage, !.from = from]
<1>3. /\ from \in 0..Horizon
      /\ stage \in {"lock", "relock"} => from <= ActivateBy
  BY <1>1, <1>2 DEF States, RunsGood, Good
<1> HIDE DEF from
<1>4. /\ made \in [at : CallStages, from : 0..Horizon, mine : BOOLEAN, clean : BOOLEAN]
      /\ made.at = IF stage \in {"told", "refused"} THEN "idle" ELSE stage
      /\ stage \notin {"told", "refused"} => made.from = from
  <2>0. stage \in {"told", "refused"} \/ (stage \notin {"told", "refused"} /\ stage \in CallStages)
    BY DEF CallStages
  <2>1. CASE stage \in {"told", "refused"}
    <3>1. made = [at |-> "idle", from |-> 0, mine |-> FALSE, clean |-> FALSE]
      BY <2>1 DEF NoCall
    <3> HIDE DEF made
    <3> QED BY <2>1, <3>1 DEF CallStages
  <2>2. CASE stage \notin {"told", "refused"} /\ stage \in CallStages
    <3>1. made = [at |-> stage, from |-> from, mine |-> FALSE, clean |-> FALSE]
      BY <2>2 DEF NoCall
    <3> HIDE DEF made
    <3> QED BY <1>3, <2>2, <3>1
  <2> QED BY <2>0, <2>1, <2>2
<1>5. call' = [call EXCEPT ![q] = made]
  BY DEF Arrives, from
<1> HIDE DEF made
<1>6. call'[q] = made /\ \A p \in Request \ {q} : call'[p] = call[p]
  BY <1>5
<1>7. /\ accepted' \in [Request -> (0..Horizon) \cup {None}]
      /\ \A p \in Request \ {q} : accepted'[p] = accepted[p]
      /\ asks[q].op # "start" => accepted'[q] \in 0..Horizon
  BY <1>2 DEF Arrives
<1>8. /\ \/ told' = told
         \/ told' = told \cup {q} /\ stage = "told"
      /\ left' \in [Request -> Nat]
  BY DEF Arrives
<1>9. CallTypes'
  BY <1>1, <1>4, <1>5, <1>7, <1>8
<1>10. Grows /\ RunsGood'
  BY <1>1, StillGrows DEF stateVars, RunsGood
<1>11. InHand(q)'
  BY <1>1, <1>3, <1>4, <1>6, <1>7 DEF InHand, StartStages, EndStages, Own, Of
<1>12. \A p \in Request \ {q} : <<p, "begin-activation">> \in record'[Of(p)] => Own(p)
  BY <1>1 DEF Own
<1>13. \/ told' = told
       \/ /\ told' = told \cup {q}
          /\ asks[q].op = "abort" => run'[Of(q)].abort
  BY <1>1, <1>8
<1>14. HandsGood' /\ ToldGood'
  BY <1>1, <1>6, <1>7, <1>10, <1>11, <1>12, <1>13, CallStep
<1> QED BY <1>9, <1>10, <1>14

LEMMA StartArrivesKeeps ==
    ASSUME CallInv, NEW q \in Request, StartArrives(q)
    PROVE  CallInv'
<1> DEFINE s == run[Of(q)]
           stage == IF s.status = "armed"
                    THEN IF Clock(Of(q)) <= ActivateBy THEN "lock" ELSE "refused"
                    ELSE IF s.status = "activation_pending"
                    THEN IF Own(q) /\ Clock(Of(q)) < s.lease THEN "relock" ELSE "refused"
                    ELSE IF <<q, "activate">> \in record[Of(q)] THEN "told" ELSE "refused"
<1>1. asks[q].op = "start" /\ Arrives(q, stage)
  BY DEF StartArrives, Own
<1>2. /\ stage \in {"lock", "relock", "told", "refused"}
      /\ stage = "lock" => Clock(Of(q)) <= ActivateBy
      /\ stage = "relock" => Own(q) /\ s.status = "activation_pending"
  OBVIOUS
<1> HIDE DEF stage
<1> QED BY <1>1, <1>2, ArrivesKeeps

LEMMA EndArrivesKeeps ==
    ASSUME CallInv, NEW q \in Request, EndArrives(q)
    PROVE  CallInv'
<1>1. Of(q) \in Run /\ Good(run[Of(q)], record[Of(q)])
  BY ControlAssumption DEF CallInv, RunsGood, Of
<1>2. CASE asks[q].op = "abort" /\ Arrives(q, AbortStage(run[Of(q)]))
  <2> DEFINE stage == AbortStage(run[Of(q)])
  <2>1. /\ stage \in {"told", "refused", "ask", "begin", "cancel"}
        /\ stage \in {"begin", "cancel", "told"} => run[Of(q)].abort
    BY <1>1 DEF AbortStage, Good
  <2> HIDE DEF stage
  <2>2. Arrives(q, stage)
    BY <1>2 DEF stage
  <2> QED BY <1>2, <2>1, <2>2, ArrivesKeeps
<1>3. CASE asks[q].op = "recover" /\ Arrives(q, RecoverStage(q, run[Of(q)]))
  <2> DEFINE stage == RecoverStage(q, run[Of(q)])
  <2>1. /\ stage \in {"told", "refused", "ask", "begin", "cancel"}
        /\ stage = "begin" => run[Of(q)].abort \/ Has(record[Of(q)], "activate")
    BY <1>1 DEF RecoverStage, Good
  <2> HIDE DEF stage
  <2>2. Arrives(q, stage)
    BY <1>3 DEF stage
  <2> QED BY <1>3, <2>1, <2>2, ArrivesKeeps
<1> QED BY <1>2, <1>3 DEF EndArrives

-----------------------------------------------------------------------------
(***************************************************************************)
(* The other steps of a call.                                              *)
(***************************************************************************)

Calls == [at : CallStages, from : 0..Horizon, mine : BOOLEAN, clean : BOOLEAN]

\* What is left to show of a step of one call.
LEMMA CallKeeps ==
    ASSUME CallInv, NEW q \in Request, UNCHANGED <<now, accepted, left, crashes>>,
           lock' \in Locks, run' \in [Run -> States], record' \in [Run -> SUBSET EventIds],
           RunsGood', Grows,
           call' \in [Request -> Calls], \A p \in Request \ {q} : call'[p] = call[p],
           \A p \in Request \ {q} :
               <<p, "begin-activation">> \in record'[Of(p)] => Own(p),
           InHand(q)',
           \/ told' = told
           \/ /\ told' = told \cup {q}
              /\ asks[q].op = "abort" => run'[Of(q)].abort
    PROVE  CallInv'
<1>1. HandsGood' /\ ToldGood'
  BY CallStep
<1>2. CallTypes'
  BY DEF CallInv, CallTypes, Calls
<1> QED BY <1>1, <1>2 DEF CallInv

\* ... when it moves no run,
LEMMA QuietKeeps ==
    ASSUME CallInv, NEW q \in Request, UNCHANGED <<now, run, record, accepted, left, crashes>>,
           lock' \in Locks,
           call' \in [Request -> Calls], \A p \in Request \ {q} : call'[p] = call[p],
           InHand(q)',
           \/ told' = told
           \/ /\ told' = told \cup {q}
              /\ asks[q].op = "abort" => run[Of(q)].abort
    PROVE  CallInv'
<1>1. /\ RunsGood' /\ Grows
      /\ run' \in [Run -> States] /\ record' \in [Run -> SUBSET EventIds]
  BY StillGrows DEF CallInv, CallTypes, RunsGood, stateVars
<1>2. \A p \in Request \ {q} : <<p, "begin-activation">> \in record'[Of(p)] => Own(p)
  BY DEF Own
<1> QED BY <1>1, <1>2, CallKeeps

\* ... and what an event of its own gives it when it does.
LEMMA OwnMove ==
    ASSUME CallInv, NEW q \in Request, NEW e, ControlEvent(e), born[Of(q)] <= now,
           now' = now, Moves(Of(q), e), e.id[1] = q,
           e.type = "begin_recovery" => run[Of(q)].abort \/ Has(record[Of(q)], "activate")
    PROVE  /\ Of(q) \in Run
           /\ run' \in [Run -> States] /\ record' \in [Run -> SUBSET EventIds]
           /\ RunsGood' /\ Grows
           /\ e.id \in record'[Of(q)]
           /\ e.type = "abort_requested" => run'[Of(q)].abort
           /\ run[Of(q)].abort => run'[Of(q)].abort
           /\ \A p \in Request \ {q} :
                 <<p, "begin-activation">> \in record'[Of(p)] => Own(p)
<1>1. Of(q) \in Run
  BY ControlAssumption DEF Of
<1>2. /\ run' \in [Run -> States] /\ record' \in [Run -> SUBSET EventIds]
      /\ RunsGood' /\ Grows
      /\ record' = [record EXCEPT ![Of(q)] = @ \cup {e.id}]
      /\ e.id \in record'[Of(q)]
      /\ e.type = "abort_requested" => run'[Of(q)].abort
  BY <1>1, MovesGood DEF CallInv
<1>3. ASSUME NEW p \in Request \ {q}, <<p, "begin-activation">> \in record'[Of(p)]
      PROVE  Own(p)
  BY <1>2, <1>3 DEF Own, CallInv, CallTypes
<1> QED BY <1>1, <1>2, <1>3 DEF Grows

LEMMA GotoMakes ==
    ASSUME CallTypes, NEW q \in Request, NEW stage \in CallStages, Goto(q, stage)
    PROVE  /\ call' \in [Request -> Calls] /\ \A p \in Request \ {q} : call'[p] = call[p]
           /\ call'[q].at = stage /\ call'[q].from = call[q].from
           /\ UNCHANGED <<accepted, left, told>>
BY DEF CallTypes, Goto, Calls

LEMMA EndMakes ==
    ASSUME CallTypes, NEW q \in Request, Answers(q) \/ Fails(q)
    PROVE  /\ call' \in [Request -> Calls] /\ \A p \in Request \ {q} : call'[p] = call[p]
           /\ call'[q].at = "idle" /\ InHand(q)'
           /\ UNCHANGED <<accepted, left>>
           /\ \/ told' = told
              \/ told' = told \cup {q} /\ Answers(q)
<1>1. /\ call' = [call EXCEPT ![q] = NoCall] /\ UNCHANGED <<accepted, left>>
      /\ \/ told' = told
         \/ told' = told \cup {q} /\ Answers(q)
  BY DEF Answers, Fails
<1>2. NoCall \in Calls /\ NoCall.at = "idle"
  <2> DEFINE c == [at |-> "idle", from |-> 0, mine |-> FALSE, clean |-> FALSE]
  <2>1. c.at = "idle" /\ c \in Calls
    BY ControlAssumption DEF Calls, CallStages
  <2> QED BY <2>1 DEF NoCall
<1> HIDE DEF NoCall
<1>3. /\ call' \in [Request -> Calls] /\ \A p \in Request \ {q} : call'[p] = call[p]
      /\ call'[q].at = "idle"
  BY <1>1, <1>2 DEF CallTypes, Calls
<1>4. InHand(q)'
  BY <1>3 DEF InHand, StartStages, EndStages
<1> QED BY <1>1, <1>3, <1>4

LEMMA LockStays ==
    ASSUME CallTypes, NEW r \in Run, NEW q \in Request
    PROVE  /\ ReleasedForRun(lock, r) \in Locks /\ Free \in Locks
           /\ Acquired(lock, now, Of(q), asks[q].by) \in Locks
BY ControlAssumption DEF CallTypes, ReleasedForRun, Acquired, Locks, Of

LEMMA Marked ==
    ASSUME NEW c \in Calls, NEW stage \in CallStages, NEW mine \in BOOLEAN
    PROVE  LET d == [c EXCEPT !.at = stage, !.mine = mine]
           IN d \in Calls /\ d.at = stage /\ d.from = c.from
<1> DEFINE moved == [c EXCEPT !.at = stage]
<1>1. moved \in Calls /\ moved.at = stage /\ moved.from = c.from
  BY DEF Calls
<1> HIDE DEF moved
<1> DEFINE d == [moved EXCEPT !.mine = mine]
<1>2. d \in Calls /\ d.at = stage /\ d.from = c.from
  BY <1>1 DEF Calls
<1> QED BY <1>2 DEF moved

LEMMA AcquiresKeeps ==
    ASSUME CallInv, NEW q \in Request, Acquires(q)
    PROVE  CallInv'
<1>1. CASE MayAcquire(lock, now, Of(q), asks[q].by)
  <2> DEFINE stage == IF call[q].at = "lock" THEN "intent" ELSE "apply"
             mine == CreatedHere(lock, now)
  <2>1. /\ call[q].at \in {"lock", "relock"}
        /\ call' = [call EXCEPT ![q].at = stage, ![q].mine = mine]
        /\ lock' = Acquired(lock, now, Of(q), asks[q].by)
        /\ UNCHANGED <<now, run, record, accepted, left, told, crashes>>
    BY <1>1 DEF Acquires, stateVars
  <2>2. /\ mine \in BOOLEAN /\ stage \in CallStages
        /\ stage = "intent" \/ (stage = "apply" /\ call[q].at = "relock")
    BY <2>1 DEF CallInv, CallTypes, CallStages, CreatedHere, Blocking, Locks, Free, Held
  <2> HIDE DEF mine, stage
  <2>3. /\ call' \in [Request -> Calls] /\ \A p \in Request \ {q} : call'[p] = call[p]
        /\ call'[q].at = stage /\ call'[q].from = call[q].from
    <3> DEFINE c == [call[q] EXCEPT !.at = stage, !.mine = mine]
    <3>1. call[q] \in Calls /\ call \in [Request -> Calls]
      BY DEF CallInv, CallTypes, Calls
    <3>2. c \in Calls /\ c.at = stage /\ c.from = call[q].from
      BY <2>2, <3>1, Marked
    <3>3. call' = [call EXCEPT ![q] = c]
      BY <2>1, <3>1
    <3> HIDE DEF c
    <3> QED BY <3>1, <3>2, <3>3
  <2>4. InHand(q)'
    BY <2>1, <2>2, <2>3 DEF CallInv, HandsGood, InHand, StartStages, EndStages, Own, Of
  <2>5. lock' \in Locks
    BY <2>1, LockStays, ControlAssumption DEF CallInv, Of
  <2> QED BY <2>1, <2>3, <2>4, <2>5, QuietKeeps
<1>2. CASE ~MayAcquire(lock, now, Of(q), asks[q].by)
  <2>1. Fails(q) /\ UNCHANGED <<now, run, record, lock, crashes>>
    BY <1>2 DEF Acquires, stateVars
  <2>2. ~(told' = told \cup {q} /\ Answers(q)) \/ told' = told
    BY <2>1 DEF Fails
  <2> QED BY <2>1, <2>2, EndMakes, QuietKeeps DEF CallInv, CallTypes
<1> QED BY <1>1, <1>2

LEMMA IntendsKeeps ==
    ASSUME CallInv, NEW q \in Request, Intends(q)
    PROVE  CallInv'
<1> DEFINE e == BeginActivation(q)
<1>1. /\ call[q].at = "intent" /\ InHand(q)
      /\ UNCHANGED <<now, lock, crashes>>
      /\ \/ Moves(Of(q), e) /\ Goto(q, "apply")
         \/ /\ ~Takes(Of(q), e) /\ UNCHANGED stateVars
            /\ Goto(q, "giveback") \/ Fails(q)
  BY DEF Intends, CallInv, HandsGood
<1>2. born[Of(q)] <= now /\ asks[q].op = "start" /\ call[q].from <= ActivateBy
  BY <1>1 DEF InHand, StartStages
<1>3. /\ e.id = <<q, "begin-activation">> /\ e.type = "begin_activation"
      /\ ControlEvent(e)
  <2> DEFINE f == call[q].from
  <2>1. f \in 0..Horizon /\ f <= ActivateBy /\ f + FaultEnd \in Nat
    BY <1>2, ControlAssumption DEF CallInv, CallTypes
  <2>2. e = [id |-> <<q, "begin-activation">>, type |-> "begin_activation",
             at |-> f, lease |-> f + FaultEnd]
    BY DEF BeginActivation, Event
  <2> HIDE DEF e, f
  <2> QED BY <2>1, <2>2 DEF ControlEvent, EventIds, Suffixes
<1> HIDE DEF e
<1>4. CASE Moves(Of(q), e) /\ Goto(q, "apply")
  <2>1. /\ call' \in [Request -> Calls] /\ \A p \in Request \ {q} : call'[p] = call[p]
        /\ call'[q].at = "apply" /\ call'[q].from = call[q].from
        /\ UNCHANGED <<accepted, left, told>>
    BY <1>4, GotoMakes DEF CallInv, CallStages
  <2>2. /\ run' \in [Run -> States] /\ record' \in [Run -> SUBSET EventIds]
        /\ RunsGood' /\ Grows /\ e.id \in record'[Of(q)]
        /\ \A p \in Request \ {q} : <<p, "begin-activation">> \in record'[Of(p)] => Own(p)
    BY <1>1, <1>2, <1>3, <1>4, OwnMove
  <2>3. InHand(q)'
    BY <1>1, <1>2, <1>3, <2>1, <2>2 DEF InHand, StartStages, EndStages, Own, Of
  <2> QED BY <1>1, <2>1, <2>2, <2>3, CallKeeps DEF CallInv, CallTypes
<1>5. CASE /\ ~Takes(Of(q), e) /\ UNCHANGED stateVars
           /\ Goto(q, "giveback") \/ Fails(q)
  <2>0. UNCHANGED <<run, record>> /\ ~Own(q)
    BY <1>3, <1>5 DEF stateVars, Takes, Own
  <2>1. CASE Goto(q, "giveback")
    <3>1. /\ call' \in [Request -> Calls] /\ \A p \in Request \ {q} : call'[p] = call[p]
          /\ call'[q].at = "giveback" /\ call'[q].from = call[q].from
          /\ UNCHANGED <<accepted, left, told>>
      BY <2>1, GotoMakes DEF CallInv, CallStages
    <3>2. InHand(q)'
      BY <1>1, <1>2, <2>0, <3>1 DEF InHand, StartStages, EndStages, Own, Of
    <3> QED BY <1>1, <2>0, <3>1, <3>2, QuietKeeps DEF CallInv, CallTypes
  <2>2. CASE Fails(q)
    <3>1. told' = told
      BY <2>2 DEF Fails
    <3> QED BY <1>1, <2>0, <2>2, <3>1, EndMakes, QuietKeeps DEF CallInv, CallTypes
  <2> QED BY <1>5, <2>1, <2>2
<1> QED BY <1>1, <1>4, <1>5

LEMMA GivesBackKeeps ==
    ASSUME CallInv, NEW q \in Request, GivesBack(q)
    PROVE  CallInv'
<1>1. Fails(q) /\ told' = told /\ UNCHANGED <<now, run, record, crashes>>
  BY DEF GivesBack, Fails, stateVars
<1>2. lock' \in Locks
  BY LockStays, ControlAssumption DEF GivesBack, CallInv, CallTypes, Of
<1> QED BY <1>1, <1>2, EndMakes, QuietKeeps DEF CallInv

LEMMA AppliesKeeps ==
    ASSUME CallInv, NEW q \in Request, Applies(q)
    PROVE  CallInv'
<1>1. /\ call[q].at = "apply" /\ InHand(q)
      /\ Goto(q, "await") \/ (Fails(q) /\ told' = told)
      /\ UNCHANGED <<now, run, record, lock, crashes>> /\ lock' \in Locks
  BY DEF Applies, Fails, stateVars, CallInv, CallTypes, HandsGood
<1>2. CASE Goto(q, "await")
  <2>1. /\ call' \in [Request -> Calls] /\ \A p \in Request \ {q} : call'[p] = call[p]
        /\ call'[q].at = "await" /\ call'[q].from = call[q].from
        /\ UNCHANGED <<accepted, left, told>>
    BY <1>2, GotoMakes DEF CallInv, CallStages
  <2>2. InHand(q)'
    BY <1>1, <2>1 DEF InHand, StartStages, EndStages, Own, Of
  <2> QED BY <1>1, <2>1, <2>2, QuietKeeps
<1> QED BY <1>1, <1>2, EndMakes, QuietKeeps DEF CallInv

LEMMA AwaitsApplyKeeps ==
    ASSUME CallInv, NEW q \in Request, AwaitsApply(q)
    PROVE  CallInv'
<1>1. /\ call[q].at = "await" /\ InHand(q)
      /\ Goto(q, "enqueue") \/ (Fails(q) /\ told' = told)
      /\ UNCHANGED <<now, run, record, lock, crashes>> /\ lock' \in Locks
  BY DEF AwaitsApply, Fails, stateVars, CallInv, CallTypes, HandsGood
<1>2. CASE Goto(q, "enqueue")
  <2>1. /\ call' \in [Request -> Calls] /\ \A p \in Request \ {q} : call'[p] = call[p]
        /\ call'[q].at = "enqueue" /\ call'[q].from = call[q].from
        /\ UNCHANGED <<accepted, left, told>>
    BY <1>2, GotoMakes DEF CallInv, CallStages
  <2>2. InHand(q)'
    BY <1>1, <2>1 DEF InHand, StartStages, EndStages, Own, Of
  <2> QED BY <1>1, <2>1, <2>2, QuietKeeps
<1> QED BY <1>1, <1>2, EndMakes, QuietKeeps DEF CallInv

LEMMA EnqueuesKeeps ==
    ASSUME CallInv, NEW q \in Request, Enqueues(q)
    PROVE  CallInv'
<1>1. /\ call[q].at = "enqueue" /\ InHand(q) /\ Goto(q, "activate")
      /\ UNCHANGED <<now, run, record, lock, crashes>> /\ lock' \in Locks
  BY DEF Enqueues, stateVars, CallInv, CallTypes, HandsGood
<1>2. /\ call' \in [Request -> Calls] /\ \A p \in Request \ {q} : call'[p] = call[p]
      /\ call'[q].at = "activate" /\ call'[q].from = call[q].from
      /\ UNCHANGED <<accepted, left, told>>
  BY <1>1, GotoMakes DEF CallInv, CallStages
<1>3. InHand(q)'
  BY <1>1, <1>2 DEF InHand, StartStages, EndStages, Own, Of
<1> QED BY <1>1, <1>2, <1>3, QuietKeeps

LEMMA CancelsKeeps ==
    ASSUME CallInv, NEW q \in Request, Cancels(q)
    PROVE  CallInv'
<1>1. /\ call[q].at = "cancel" /\ InHand(q) /\ Goto(q, "probe")
      /\ UNCHANGED <<now, run, record, lock, crashes>> /\ lock' \in Locks
  BY DEF Cancels, stateVars, CallInv, CallTypes, HandsGood
<1>2. /\ call' \in [Request -> Calls] /\ \A p \in Request \ {q} : call'[p] = call[p]
      /\ call'[q].at = "probe" /\ call'[q].from = call[q].from
      /\ UNCHANGED <<accepted, left, told>>
  BY <1>1, GotoMakes DEF CallInv, CallStages
<1>3. InHand(q)'
  BY <1>1, <1>2 DEF InHand, StartStages, EndStages, Own, Of
<1> QED BY <1>1, <1>2, <1>3, QuietKeeps

LEMMA ProbesKeeps ==
    ASSUME CallInv, NEW q \in Request, Probes(q)
    PROVE  CallInv'
<1>1. PICK clean \in BOOLEAN :
        call' = [call EXCEPT ![q].at = "record", ![q].clean = clean]
  BY DEF Probes
<1>2. /\ call[q].at = "probe" /\ InHand(q)
      /\ UNCHANGED <<now, run, record, lock, crashes, accepted, left, told>>
      /\ lock' \in Locks
  BY DEF Probes, stateVars, CallInv, CallTypes, HandsGood
<1>3. /\ call' \in [Request -> Calls] /\ \A p \in Request \ {q} : call'[p] = call[p]
      /\ call'[q].at = "record" /\ call'[q].from = call[q].from
  BY <1>1 DEF CallInv, CallTypes, Calls, CallStages
<1>4. InHand(q)'
  BY <1>2, <1>3 DEF InHand, StartStages, EndStages, Own, Of
<1> QED BY <1>2, <1>3, <1>4, QuietKeeps

LEMMA ReleasesKeeps ==
    ASSUME CallInv, NEW q \in Request, Releases(q)
    PROVE  CallInv'
<1>1. /\ Answers(q) /\ UNCHANGED <<now, run, record, crashes>>
      /\ asks[q].op = "abort" => run[Of(q)].abort
  BY DEF Releases, stateVars, CallInv, HandsGood, InHand, EndStages
<1>2. lock' \in Locks
  BY LockStays, ControlAssumption DEF Releases, CallInv, CallTypes, Of
<1> QED BY <1>1, <1>2, EndMakes, QuietKeeps DEF CallInv

LEMMA ActivatesKeeps ==
    ASSUME CallInv, NEW q \in Request, Activates(q)
    PROVE  CallInv'
<1> DEFINE e == ActivateFault(q)
<1>1. /\ call[q].at = "activate" /\ InHand(q)
      /\ UNCHANGED <<now, lock, crashes>> /\ lock' \in Locks
      /\ \/ Moves(Of(q), e) /\ Answers(q)
         \/ Fails(q) /\ told' = told /\ UNCHANGED <<run, record>>
  BY DEF Activates, stateVars, Fails, CallInv, CallTypes, HandsGood
<1>2. born[Of(q)] <= now /\ asks[q].op = "start"
  BY <1>1 DEF InHand, StartStages
<1>3. /\ e.id = <<q, "activate">> /\ e.type = "activate_fault" /\ ControlEvent(e)
  <2> DEFINE f == call[q].from
             at == Clock(Of(q))
  <2>1. f + FaultEnd \in Nat /\ at \in 0..Horizon
    BY <1>2, ControlAssumption DEF CallInv, CallTypes, Clock, Of
  <2>2. e = [id |-> <<q, "activate">>, type |-> "activate_fault",
             at |-> at, lease |-> f + FaultEnd]
    BY DEF ActivateFault, Event
  <2> HIDE DEF e, f, at
  <2> QED BY <2>1, <2>2 DEF ControlEvent, EventIds, Suffixes
<1> HIDE DEF e
<1>4. CASE Moves(Of(q), e) /\ Answers(q)
  <2>1. /\ run' \in [Run -> States] /\ record' \in [Run -> SUBSET EventIds]
        /\ RunsGood' /\ Grows
        /\ \A p \in Request \ {q} : <<p, "begin-activation">> \in record'[Of(p)] => Own(p)
    BY <1>1, <1>2, <1>3, <1>4, OwnMove
  <2> QED BY <1>1, <1>2, <1>4, <2>1, EndMakes, CallKeeps DEF CallInv
<1>5. CASE Fails(q) /\ told' = told /\ UNCHANGED <<run, record>>
  BY <1>1, <1>5, EndMakes, QuietKeeps DEF CallInv
<1> QED BY <1>1, <1>4, <1>5

\* Events of a request that ends a run carry the time it was accepted.
LEMMA EndEvents ==
    ASSUME CallInv, NEW q \in Request, call[q].at \in EndStages,
           NEW suffix, NEW type,
           \/ suffix = "abort" /\ type = "abort_requested"
           \/ suffix \in {"begin", "recovery"} /\ type = "begin_recovery"
           \/ suffix = "recovered" /\ type = "recovery_succeeded"
           \/ suffix = "recovery-failed" /\ type = "recovery_failed"
    PROVE  LET e == EventFor(q, suffix, type)
           IN e.id = <<q, suffix>> /\ e.type = type /\ ControlEvent(e)
<1> DEFINE e == EventFor(q, suffix, type)
           at == accepted[q]
<1>1. at \in 0..Horizon
  BY DEF CallInv, HandsGood, InHand, EndStages
<1>2. e = [id |-> <<q, suffix>>, type |-> type, at |-> at, lease |-> 0]
  BY DEF EventFor, Event
<1> HIDE DEF e, at
<1>3. e.id = <<q, suffix>> /\ e.type = type /\ ControlEvent(e)
  BY <1>1, <1>2 DEF ControlEvent, EventIds, Suffixes
<1> QED BY <1>3 DEF e

LEMMA AsksKeeps ==
    ASSUME CallInv, NEW q \in Request, Asks(q)
    PROVE  CallInv'
<1> DEFINE e == EventFor(q, "abort", "abort_requested")
           next == IF asks[q].op = "recover" \/ run'[Of(q)].status = "aborting"
                   THEN "begin" ELSE "cancel"
<1>1. /\ call[q].at = "ask" /\ InHand(q)
      /\ UNCHANGED <<now, lock, crashes>> /\ lock' \in Locks
      /\ \/ Moves(Of(q), e) /\ Goto(q, next)
         \/ Fails(q) /\ told' = told /\ UNCHANGED <<run, record>>
  BY DEF Asks, stateVars, Fails, CallInv, CallTypes, HandsGood
<1>2. /\ e.id = <<q, "abort">> /\ e.type = "abort_requested" /\ ControlEvent(e)
      /\ born[Of(q)] <= now /\ asks[q].op # "start" /\ accepted[q] \in 0..Horizon
  BY <1>1, EndEvents DEF EndStages, InHand
<1>3. next \in {"begin", "cancel"}
  OBVIOUS
<1> HIDE DEF e, next
<1>4. CASE Moves(Of(q), e) /\ Goto(q, next)
  <2>1. /\ call' \in [Request -> Calls] /\ \A p \in Request \ {q} : call'[p] = call[p]
        /\ call'[q].at = next
        /\ UNCHANGED <<accepted, left, told>>
    BY <1>3, <1>4, GotoMakes DEF CallInv, CallStages
  <2>2. /\ run' \in [Run -> States] /\ record' \in [Run -> SUBSET EventIds]
        /\ RunsGood' /\ Grows /\ run'[Of(q)].abort
        /\ \A p \in Request \ {q} : <<p, "begin-activation">> \in record'[Of(p)] => Own(p)
    BY <1>1, <1>2, <1>4, OwnMove
  <2>3. InHand(q)'
    BY <1>1, <1>2, <1>3, <2>1, <2>2 DEF InHand, StartStages, EndStages, Of
  <2> QED BY <1>1, <2>1, <2>2, <2>3, CallKeeps
<1>5. CASE Fails(q) /\ told' = told /\ UNCHANGED <<run, record>>
  BY <1>1, <1>5, EndMakes, QuietKeeps DEF CallInv
<1> QED BY <1>1, <1>4, <1>5

LEMMA BeginsRecoveryKeeps ==
    ASSUME CallInv, NEW q \in Request, BeginsRecovery(q)
    PROVE  CallInv'
<1> DEFINE suffix == IF asks[q].op = "abort" THEN "recovery" ELSE "begin"
           e == EventFor(q, suffix, "begin_recovery")
<1>1. /\ call[q].at = "begin" /\ InHand(q)
      /\ UNCHANGED <<now, lock, crashes>> /\ lock' \in Locks
      /\ \/ Moves(Of(q), e) /\ Goto(q, "cancel")
         \/ Fails(q) /\ told' = told /\ UNCHANGED <<run, record>>
  BY DEF BeginsRecovery, stateVars, Fails, CallInv, CallTypes, HandsGood
<1>2. suffix \in {"begin", "recovery"}
  OBVIOUS
<1> HIDE DEF suffix
<1>3. /\ e.id = <<q, suffix>> /\ e.type = "begin_recovery" /\ ControlEvent(e)
      /\ born[Of(q)] <= now /\ asks[q].op # "start" /\ accepted[q] \in 0..Horizon
      /\ run[Of(q)].abort \/ Has(record[Of(q)], "activate")
      /\ asks[q].op = "abort" => run[Of(q)].abort
  BY <1>1, <1>2, EndEvents DEF EndStages, InHand
<1> HIDE DEF e
<1>4. CASE Moves(Of(q), e) /\ Goto(q, "cancel")
  <2>1. /\ call' \in [Request -> Calls] /\ \A p \in Request \ {q} : call'[p] = call[p]
        /\ call'[q].at = "cancel"
        /\ UNCHANGED <<accepted, left, told>>
    BY <1>4, GotoMakes DEF CallInv, CallStages
  <2>2. /\ run' \in [Run -> States] /\ record' \in [Run -> SUBSET EventIds]
        /\ RunsGood' /\ Grows /\ (run[Of(q)].abort => run'[Of(q)].abort)
        /\ \A p \in Request \ {q} : <<p, "begin-activation">> \in record'[Of(p)] => Own(p)
    BY <1>1, <1>3, <1>4, OwnMove
  <2>3. InHand(q)'
    BY <1>1, <1>3, <2>1, <2>2 DEF InHand, StartStages, EndStages, Of
  <2> QED BY <1>1, <2>1, <2>2, <2>3, CallKeeps
<1>5. CASE Fails(q) /\ told' = told /\ UNCHANGED <<run, record>>
  BY <1>1, <1>5, EndMakes, QuietKeeps DEF CallInv
<1> QED BY <1>1, <1>4, <1>5

LEMMA RecordsKeeps ==
    ASSUME CallInv, NEW q \in Request, Records(q)
    PROVE  CallInv'
<1> DEFINE clean == call[q].clean
           suffix == IF clean THEN "recovered" ELSE "recovery-failed"
           type == IF clean THEN "recovery_succeeded" ELSE "recovery_failed"
           e == EventFor(q, suffix, type)
<1>0. clean \in BOOLEAN
  BY DEF CallInv, CallTypes
<1>1. /\ call[q].at = "record" /\ InHand(q)
      /\ UNCHANGED <<now, lock, crashes>> /\ lock' \in Locks
      /\ \/ Moves(Of(q), e) /\ clean /\ Goto(q, "release")
         \/ Moves(Of(q), e) /\ ~clean /\ Answers(q)
         \/ Fails(q) /\ told' = told /\ UNCHANGED <<run, record>>
  BY <1>0 DEF Records, stateVars, Fails, CallInv, CallTypes, HandsGood
<1>2. /\ clean => suffix = "recovered" /\ type = "recovery_succeeded"
      /\ ~clean => suffix = "recovery-failed" /\ type = "recovery_failed"
  OBVIOUS
<1> HIDE DEF suffix, type, clean
<1>3. /\ e.id = <<q, suffix>> /\ e.type = type /\ ControlEvent(e)
      /\ born[Of(q)] <= now /\ asks[q].op # "start" /\ accepted[q] \in 0..Horizon
      /\ asks[q].op = "abort" => run[Of(q)].abort
      /\ e.type # "begin_recovery"
  BY <1>0, <1>1, <1>2, EndEvents DEF EndStages, InHand
<1> HIDE DEF e
<1>4. CASE Moves(Of(q), e)
  <2>2. /\ run' \in [Run -> States] /\ record' \in [Run -> SUBSET EventIds]
        /\ RunsGood' /\ Grows /\ (run[Of(q)].abort => run'[Of(q)].abort)
        /\ e.id \in record'[Of(q)]
        /\ \A p \in Request \ {q} : <<p, "begin-activation">> \in record'[Of(p)] => Own(p)
    BY <1>1, <1>3, <1>4, OwnMove
  <2>3. CASE clean /\ Goto(q, "release")
    <3>1. /\ call' \in [Request -> Calls] /\ \A p \in Request \ {q} : call'[p] = call[p]
          /\ call'[q].at = "release"
          /\ UNCHANGED <<accepted, left, told>>
      BY <2>3, GotoMakes DEF CallInv, CallStages
    <3>2. Has(record'[Of(q)], "recovered")
      BY <1>2, <1>3, <2>2, <2>3 DEF Has
    <3>3. InHand(q)'
      BY <1>1, <1>3, <2>2, <3>1, <3>2 DEF InHand, StartStages, EndStages, Of
    <3> QED BY <1>1, <2>2, <3>1, <3>3, CallKeeps
  <2>4. CASE Answers(q)
    BY <1>1, <1>3, <2>2, <2>4, EndMakes, CallKeeps DEF CallInv
  <2>5. CASE Fails(q) /\ told' = told
    BY <1>1, <1>3, <2>2, <2>5, EndMakes, CallKeeps DEF CallInv
  <2> QED BY <1>1, <2>3, <2>4, <2>5
<1>5. CASE Fails(q) /\ told' = told /\ UNCHANGED <<run, record>>
  BY <1>1, <1>5, EndMakes, QuietKeeps DEF CallInv
<1> QED BY <1>1, <1>4, <1>5

-----------------------------------------------------------------------------
(***************************************************************************)
(* The steps that no call takes.                                           *)
(***************************************************************************)

LEMMA OtherKeeps ==
    ASSUME CallInv, UNCHANGED <<accepted, left, told>>, call' = call,
           now' \in 0..Horizon, now <= now', crashes' \in 0..MaxCrashes,
           lock' \in Locks, run' \in [Run -> States], record' \in [Run -> SUBSET EventIds],
           RunsGood', Grows,
           \A p \in Request : <<p, "begin-activation">> \in record'[Of(p)] => Own(p)
    PROVE  CallInv'
<1>1. CallTypes'
  BY DEF CallInv, CallTypes
<1>2. HandsGood'
  <2> SUFFICES ASSUME NEW p \in Request PROVE InHand(p)'
    BY DEF HandsGood
  <2>1. /\ InHand(p) /\ Of(p) \in Run /\ born[Of(p)] \in Nat /\ now \in Nat /\ now' \in Nat
        /\ <<p, "begin-activation">> \in record'[Of(p)] => Own(p)
    BY ControlAssumption DEF CallInv, HandsGood, CallTypes, Of
  <2> QED BY <2>1, InHandKept
<1>3. ToldGood'
  BY ControlAssumption DEF CallInv, CallTypes, ToldGood, Grows, Of
<1> QED BY <1>1, <1>2, <1>3 DEF CallInv

\* What leaves the runs and their audits alone.
LEMMA ElsewhereKeeps ==
    ASSUME CallInv, UNCHANGED <<run, record, call, accepted, left, told>>,
           now' \in 0..Horizon, now <= now', crashes' \in 0..MaxCrashes, lock' \in Locks
    PROVE  CallInv'
<1>1. Grows
  BY StillGrows DEF stateVars
<1>2. RunsGood'
  BY ControlAssumption DEF CallInv, CallTypes, RunsGood
<1> QED BY <1>1, <1>2, OtherKeeps DEF CallInv, CallTypes, Own

LEMMA ForceReleasesKeeps ==
    ASSUME CallInv, NEW r \in Run, ForceReleases(r)
    PROVE  CallInv'
BY ElsewhereKeeps, ControlAssumption
   DEF ForceReleases, callVars, stateVars, CallInv, CallTypes, Locks

LEMMA TimePassesKeeps ==
    ASSUME CallInv, TimePasses
    PROVE  CallInv'
BY ElsewhereKeeps, ControlAssumption
   DEF TimePasses, callVars, stateVars, CallInv, CallTypes

\* A sweep and what it leaves of the leases.
LEMMA SweepsMove ==
    ASSUME CallInv, NEW r \in Run, Sweeps(r)
    PROVE  /\ CallInv' /\ Grows
           /\ \A x \in Run : run'[x].lease # 0 => run[x].lease # 0
<1> DEFINE at == Clock(r)
           t == Plain(Reconciled(run[r], at))
<1>0. born[r] <= now
  BY DEF Sweeps
<1>1. at \in 0..Horizon
  BY <1>0, ControlAssumption DEF CallInv, CallTypes, Clock
<1>2. /\ Due(run[r], at) /\ run' = [run EXCEPT ![r] = t]
      /\ born[r] <= now
      /\ UNCHANGED <<now, record, lock, call, accepted, left, told, crashes>>
  BY DEF Sweeps, callVars
<1> HIDE DEF at
<1>3. /\ Good(t, record[r]) /\ t.status # "armed"
      /\ run[r].abort => t.abort
      /\ t.lease = run[r].lease
  BY <1>1, <1>2, GoodSweep DEF CallInv, RunsGood
<1> HIDE DEF t
<1>4. run' \in [Run -> States] /\ record' \in [Run -> SUBSET EventIds]
  BY <1>2, <1>3 DEF CallInv, CallTypes, Good
<1>5. run'[r] = t /\ \A x \in Run \ {r} : run'[x] = run[x]
  BY <1>2 DEF CallInv, CallTypes
<1>6. RunsGood' /\ Grows
  BY <1>2, <1>3, <1>5 DEF CallInv, RunsGood, Grows
<1>7. \A x \in Run : run'[x].lease # 0 => run[x].lease # 0
  BY <1>3, <1>5
<1>8. CallInv'
  BY <1>2, <1>4, <1>6, OtherKeeps, ControlAssumption DEF CallInv, CallTypes, Own
<1> QED BY <1>6, <1>7, <1>8

\* An event that is no activation gives no run a lease.
LEMMA NoNewLease ==
    ASSUME CallTypes, RunsGood, NEW r \in Run, NEW e, ControlEvent(e), Moves(r, e),
           e.type \notin Activations
    PROVE  \A x \in Run : run'[x].lease # 0 => run[x].lease # 0
<1> DEFINE t == Plain(After(run[r], e))
<1>1. CASE e.id \in record[r]
  BY <1>1 DEF Moves
<1>2. CASE e.id \notin record[r]
  <2>1. run[r] \in States /\ Accepts(run[r], e) /\ run' = [run EXCEPT ![r] = t]
    BY <1>2 DEF Moves, Takes, CallTypes
  <2>2. t.lease # 0 => run[r].lease # 0
    BY <2>1, EventStep
  <2> HIDE DEF t
  <2> QED BY <2>1, <2>2 DEF CallTypes
<1> QED BY <1>1, <1>2

LEMMA ObservesMove ==
    ASSUME CallInv, NEW r \in Run, Observes(r)
    PROVE  /\ CallInv' /\ Grows
           /\ \A x \in Run : run'[x].lease # 0 => run[x].lease # 0
<1> DEFINE at == Clock(r)
           e == Event(r, "observe", "begin_observation", at)
<1>1. /\ Moves(r, e) /\ run[r].status = "fault_active"
      /\ UNCHANGED <<now, lock, call, accepted, left, told, crashes>>
  BY DEF Observes, callVars
<1>2. born[r] <= now
  BY <1>1 DEF CallInv, RunsGood
<1>3. at \in 0..Horizon
  BY <1>2, ControlAssumption DEF CallInv, CallTypes, Clock
<1>4. /\ ControlEvent(e) /\ e.id = <<r, "observe">> /\ e.type = "begin_observation"
  <2>1. e = [id |-> <<r, "observe">>, type |-> "begin_observation", at |-> at, lease |-> 0]
    BY DEF Event
  <2> HIDE DEF at, e
  <2> QED BY <1>3, <2>1 DEF ControlEvent, EventIds, Suffixes
<1> HIDE DEF e
<1>5. /\ run' \in [Run -> States] /\ record' \in [Run -> SUBSET EventIds]
      /\ RunsGood' /\ Grows
      /\ record' = [record EXCEPT ![r] = @ \cup {e.id}]
  BY <1>1, <1>2, <1>4, MovesGood DEF CallInv
<1>6. ASSUME NEW p \in Request, <<p, "begin-activation">> \in record'[Of(p)]
      PROVE  Own(p)
  BY <1>4, <1>5, <1>6 DEF Own, CallInv, CallTypes
<1>7. CallInv'
  BY <1>1, <1>5, <1>6, OtherKeeps, ControlAssumption DEF CallInv, CallTypes
<1>8. e.type \notin Activations
  BY <1>4 DEF Activations
<1> QED BY <1>1, <1>4, <1>5, <1>7, <1>8, NoNewLease DEF CallInv

LEMMA CrashesKeeps ==
    ASSUME CallInv, Crashes
    PROVE  CallInv'
<1>1. /\ call' = [q \in Request |-> NoCall]
      /\ UNCHANGED <<now, run, record, lock, accepted, left, told>>
      /\ crashes' \in 0..MaxCrashes
  BY ControlAssumption DEF Crashes, stateVars, CallInv, CallTypes
<1>2. NoCall \in Calls /\ NoCall.at = "idle"
  <2> DEFINE c == [at |-> "idle", from |-> 0, mine |-> FALSE, clean |-> FALSE]
  <2>1. c.at = "idle" /\ c \in Calls
    BY ControlAssumption DEF Calls, CallStages
  <2> QED BY <2>1 DEF NoCall
<1> HIDE DEF NoCall
<1>3. call' \in [Request -> Calls] /\ \A q \in Request : call'[q].at = "idle"
  BY <1>1, <1>2
<1>4. CallTypes'
  BY <1>1, <1>3 DEF CallInv, CallTypes, Calls
<1>5. HandsGood'
  BY <1>3 DEF HandsGood, InHand, StartStages, EndStages
<1>6. RunsGood' /\ ToldGood'
  BY <1>1 DEF CallInv, RunsGood, ToldGood, Of
<1> QED BY <1>4, <1>5, <1>6 DEF CallInv

-----------------------------------------------------------------------------
LEMMA CreatedState == Created \in States /\ Created.lease = 0 /\ ~Created.abort
<1> DEFINE first == [id |-> <<"create", 0>>, type |-> "run_created", at |-> 0]
           s == [status |-> "draft", revision |-> 0, updatedAt |-> 0, cooldownUntil |-> 0,
                 lease |-> 0, faultOn |-> FALSE, abort |-> FALSE, last |-> first]
<1>1. <<"create", 0>> \in SystemNames \X Nat /\ 0 \in 0..Horizon
  BY ControlAssumption DEF SystemNames
<1>2. first \in Transitions
  BY <1>1 DEF Transitions
<1> HIDE DEF first
<1>3. s \in States /\ s.lease = 0 /\ ~s.abort
  BY <1>1, <1>2, ControlAssumption DEF States, Statuses
<1>4. Created = s
  BY DEF Created, first
<1> HIDE DEF s
<1> QED BY <1>3, <1>4

LEMMA ArmedStatus == Armed.status = "armed"
<1> DEFINE made == Plain(Created)
<1>1. made \in States
  BY CreatedState, PlainState
<1>2. Armed = [made EXCEPT !.status = "armed"]
  BY DEF Armed
<1> HIDE DEF made
<1> QED BY <1>1, <1>2 DEF States

LEMMA CallFromInit ==
    ASSUME ControlInit
    PROVE  CallInv
<1>1. NoCall \in Calls /\ NoCall.at = "idle"
  <2> DEFINE c == [at |-> "idle", from |-> 0, mine |-> FALSE, clean |-> FALSE]
  <2>1. c.at = "idle" /\ c \in Calls
    BY ControlAssumption DEF Calls, CallStages
  <2> QED BY <2>1 DEF NoCall
<1> HIDE DEF NoCall
<1>2. call \in [Request -> Calls] /\ \A q \in Request : call[q].at = "idle"
  BY <1>1 DEF ControlInit
<1>3. Good(Armed, {})
  <2> DEFINE made == Plain(Created)
  <2>1. Created \in States /\ Created.lease = 0 /\ ~Created.abort
    BY CreatedState
  <2>2. made \in States /\ made.lease = 0 /\ ~made.abort
    BY <2>1, PlainState
  <2>3. Armed = [made EXCEPT !.status = "armed"]
    BY DEF Armed
  <2> HIDE DEF made
  <2> DEFINE s == Armed
  <2>4. s \in States /\ s.status = "armed" /\ s.lease = 0 /\ ~s.abort
    BY <2>2, <2>3 DEF States, Statuses
  <2> HIDE DEF s
  <2>5. Good(s, {})
    BY <2>4 DEF Good, LiveStatuses, Has
  <2> QED BY <2>5 DEF s
<1> HIDE DEF Armed
<1>4. CallTypes
  <2>1. \A r \in Run : Armed \in States
    BY <1>3 DEF Good
  <2> QED BY <1>2, <2>1, ControlAssumption DEF ControlInit, CallTypes, Calls, Locks
<1>5. RunsGood
  BY <1>3, ArmedStatus DEF ControlInit, RunsGood
<1>6. HandsGood /\ ToldGood
  BY <1>2 DEF HandsGood, InHand, StartStages, EndStages, ToldGood, ControlInit
<1> QED BY <1>4, <1>5, <1>6 DEF CallInv

-----------------------------------------------------------------------------
(***************************************************************************)
(* The dispatcher, and what a call and a worker hand to the wrapper.       *)
(***************************************************************************)

WorkGood ==
    /\ worker \in [at : WorkerStages, action : Action \cup {None},
                   verdict : Settled \cup {"none"}]
    /\ worker.at \notin {"idle", "claim"} => worker.action \in Action
    /\ worker.at \in {"plan", "end"} => Planned(worker.action)
    /\ worker.at = "hand" => Has(record[actionOf[worker.action].run], "activate")

LEMMA PlannedRequest ==
    ASSUME NEW a \in Action, Planned(a)
    PROVE  actionOf[a].request \in Request
BY ControlAssumption

LEMMA CallNext ==
    ASSUME CallInv, WorkGood, [ControlNext]_vars
    PROVE  CallInv'
<1>1. ASSUME NEW q \in Request, StartSteps(q)
      PROVE  CallInv'
  BY <1>1, StartArrivesKeeps, AcquiresKeeps, IntendsKeeps, GivesBackKeeps, AppliesKeeps,
     AwaitsApplyKeeps, EnqueuesKeeps, ActivatesKeeps DEF StartSteps
<1>2. ASSUME NEW q \in Request, OperatorAsks(q)
      PROVE  CallInv'
  BY <1>2, EndArrivesKeeps DEF OperatorAsks
<1>3. ASSUME NEW q \in Request, EndSteps(q)
      PROVE  CallInv'
  BY <1>3, AsksKeeps, BeginsRecoveryKeeps, CancelsKeeps, ProbesKeeps, RecordsKeeps,
     ReleasesKeeps DEF EndSteps
<1>4. ASSUME NEW r \in Run, ForceReleases(r) \/ Sweeps(r) \/ Observes(r)
      PROVE  CallInv'
  BY <1>4, ForceReleasesKeeps, SweepsMove, ObservesMove
<1>5. CASE PlannedEnds
  <2>1. EndArrives(actionOf[worker.action].request) /\ worker.at = "plan"
    BY <1>5 DEF PlannedEnds
  <2>2. actionOf[worker.action].request \in Request
    BY <2>1, PlannedRequest DEF WorkGood
  <2> QED BY <2>1, <2>2, EndArrivesKeeps
<1>6. CASE \/ Ticks \/ Claims \/ Looks \/ PlannedEnded \/ HandsOver \/ AwaitsAction
           \/ Settles \/ UNCHANGED vars
  <2>1. UNCHANGED <<now, run, record, lock, call, accepted, left, told, crashes>>
    BY <1>6 DEF Ticks, Claims, Looks, PlannedEnded, HandsOver, AwaitsAction, Settles,
                vars, stateVars, callVars
  <2>2. now' \in 0..Horizon /\ now <= now' /\ crashes' \in 0..MaxCrashes /\ lock' \in Locks
    BY <2>1, ControlAssumption DEF CallInv, CallTypes
  <2> QED BY <2>1, <2>2, ElsewhereKeeps
<1>7. CASE Crashes \/ TimePasses
  BY <1>7, CrashesKeeps, TimePassesKeeps
<1> QED BY <1>1, <1>2, <1>3, <1>4, <1>5, <1>6, <1>7 DEF ControlNext, Dispatches

\* Audits only grow, in every step.
LEMMA AuditsGrow ==
    ASSUME CallInv, WorkGood, [ControlNext]_vars
    PROVE  \A r \in Run : record[r] \subseteq record'[r]
<1>1. CASE UNCHANGED record
  BY <1>1
<1>2. CASE \E r \in Run : \E e : Moves(r, e)
  BY <1>2 DEF Moves, CallInv, CallTypes
<1>3. ASSUME NEW q \in Request, StartSteps(q)
      PROVE  UNCHANGED record \/ \E r \in Run : \E e : Moves(r, e)
  BY <1>3, ControlAssumption
     DEF StartSteps, StartArrives, Arrives, Acquires, Intends, GivesBack, Applies,
         AwaitsApply, Enqueues, Activates, stateVars, Of
<1>4. ASSUME NEW q \in Request, EndArrives(q) \/ EndSteps(q)
      PROVE  UNCHANGED record \/ \E r \in Run : \E e : Moves(r, e)
  BY <1>4, ControlAssumption
     DEF EndArrives, Arrives, EndSteps, Asks, BeginsRecovery, Cancels, Probes, Records,
         Releases, stateVars, Of
<1>5. ASSUME NEW r \in Run, ForceReleases(r) \/ Sweeps(r) \/ Observes(r)
      PROVE  UNCHANGED record \/ \E x \in Run : \E e : Moves(x, e)
  BY <1>5 DEF ForceReleases, Sweeps, Observes, stateVars
<1>6. CASE Dispatches
  <2>1. CASE PlannedEnds
    BY <2>1, <1>1, <1>2, <1>4, PlannedRequest DEF PlannedEnds, WorkGood
  <2> QED BY <1>1, <1>6, <2>1
     DEF Dispatches, Ticks, Claims, Looks, PlannedEnded, HandsOver, AwaitsAction, Settles,
         stateVars
<1>7. CASE Crashes \/ TimePasses \/ UNCHANGED vars
  BY <1>1, <1>7 DEF Crashes, TimePasses, vars, stateVars
<1> QED BY <1>1, <1>2, <1>3, <1>4, <1>5, <1>6, <1>7 DEF ControlNext, OperatorAsks

LEMMA WorkMakes ==
    ASSUME NEW stage \in WorkerStages, NEW a \in Action \cup {None},
           NEW verdict \in Settled \cup {"none"}, Work(stage, a, verdict)
    PROVE  /\ worker' \in [at : WorkerStages, action : Action \cup {None},
                           verdict : Settled \cup {"none"}]
           /\ worker'.at = stage /\ worker'.action = a
BY DEF Work

LEMMA WorkStays ==
    ASSUME WorkGood, worker' = worker, \A r \in Run : record[r] \subseteq record'[r]
    PROVE  WorkGood'
<1>1. worker.at = "hand" => Has(record'[actionOf[worker.action].run], "activate")
  BY ControlAssumption, HasMore DEF WorkGood
<1> QED BY <1>1 DEF WorkGood, Planned

LEMMA WorkNext ==
    ASSUME CallInv, WorkGood, [ControlNext]_vars
    PROVE  WorkGood'
<1>0. \A r \in Run : record[r] \subseteq record'[r]
  BY AuditsGrow
<1>1. CASE worker' = worker
  BY <1>0, <1>1, WorkStays
<1>2. CASE worker' = NoWork
  <2>1. /\ NoWork \in [at : WorkerStages, action : Action \cup {None},
                       verdict : Settled \cup {"none"}]
        /\ NoWork.at = "idle"
    <3> DEFINE w == [at |-> "idle", action |-> None, verdict |-> "none"]
    <3>1. w.at = "idle" /\ w \in [at : WorkerStages, action : Action \cup {None},
                                  verdict : Settled \cup {"none"}]
      BY DEF WorkerStages
    <3> QED BY <3>1 DEF NoWork
  <2> HIDE DEF NoWork
  <2> QED BY <1>2, <2>1 DEF WorkGood
<1>3. CASE Dispatches
  <2>1. CASE Ticks \/ Settles
    <3>1. Work("claim", None, "none")
      BY <2>1 DEF Ticks, Settles
    <3>2. /\ worker' \in [at : WorkerStages, action : Action \cup {None},
                          verdict : Settled \cup {"none"}]
          /\ worker'.at = "claim"
      BY <3>1, WorkMakes DEF WorkerStages
    <3> QED BY <3>2 DEF WorkGood
  <2>2. CASE Claims
    <3>1. CASE \E a \in Action : Work("look", a, "none")
      <4>1. PICK a \in Action : Work("look", a, "none")
        BY <3>1
      <4>2. /\ worker' \in [at : WorkerStages, action : Action \cup {None},
                            verdict : Settled \cup {"none"}]
            /\ worker'.at = "look" /\ worker'.action = a
        BY <4>1, WorkMakes DEF WorkerStages
      <4> QED BY <4>2 DEF WorkGood
    <3> QED BY <1>2, <2>2, <3>1 DEF Claims
  <2>3. CASE Looks
    <3> DEFINE a == worker.action
               s == run[actionOf[a].run]
    <3>1. a \in Action /\ actionOf[a].run \in Run /\ Good(s, record[actionOf[a].run])
          /\ UNCHANGED record
      BY <2>3, ControlAssumption DEF Looks, WorkGood, CallInv, RunsGood, stateVars
    <3>2. CASE Work("settle", a, "compensated")
      <4>1. /\ worker' \in [at : WorkerStages, action : Action \cup {None},
                            verdict : Settled \cup {"none"}]
            /\ worker'.at = "settle" /\ worker'.action = a
        BY <3>1, <3>2, WorkMakes DEF WorkerStages, Settled
      <4> QED BY <3>1, <4>1 DEF WorkGood
    <3>3. CASE /\ s.status \in {"fault_active", "observing"}
               /\ Work(IF Planned(a) THEN "plan" ELSE "hand", a, "none")
      <4>1. Has(record'[actionOf[a].run], "activate")
        BY <3>1, <3>3 DEF Good
      <4> DEFINE stage == IF Planned(a) THEN "plan" ELSE "hand"
      <4>2. stage \in WorkerStages /\ (stage = "plan" => Planned(a))
            /\ stage \in {"plan", "hand"}
        BY DEF WorkerStages
      <4> HIDE DEF stage
      <4>3. Work(stage, a, "none")
        BY <3>3 DEF stage
      <4>4. /\ worker' \in [at : WorkerStages, action : Action \cup {None},
                            verdict : Settled \cup {"none"}]
            /\ worker'.at = stage /\ worker'.action = a
        BY <3>1, <4>2, <4>3, WorkMakes
      <4> HIDE DEF a
      <4> QED BY <3>1, <4>1, <4>2, <4>4 DEF WorkGood, Planned
    <3> QED BY <2>3, <3>2, <3>3 DEF Looks
  <2>4. CASE PlannedEnds
    <3> DEFINE a == worker.action
    <3>1. a \in Action /\ Planned(a) /\ Work("end", a, "none")
      BY <2>4 DEF PlannedEnds, WorkGood
    <3>2. /\ worker' \in [at : WorkerStages, action : Action \cup {None},
                          verdict : Settled \cup {"none"}]
          /\ worker'.at = "end" /\ worker'.action = a
      BY <3>1, WorkMakes DEF WorkerStages
    <3> HIDE DEF a
    <3> QED BY <3>1, <3>2 DEF WorkGood, Planned
  <2>5. CASE PlannedEnded \/ HandsOver \/ AwaitsAction
    <3> DEFINE a == worker.action
    <3>1. /\ a \in Action
          /\ \E stage \in {"settle", "await"}, verdict \in Settled \cup {"none"} :
                Work(stage, a, verdict)
      BY <2>5 DEF PlannedEnded, HandsOver, AwaitsAction, WorkGood, Settled
    <3>2. PICK stage \in {"settle", "await"}, verdict \in Settled \cup {"none"} :
            Work(stage, a, verdict)
      BY <3>1
    <3>3. /\ worker' \in [at : WorkerStages, action : Action \cup {None},
                          verdict : Settled \cup {"none"}]
          /\ worker'.at = stage /\ worker'.action = a
      BY <3>1, <3>2, WorkMakes DEF WorkerStages
    <3> HIDE DEF a
    <3> QED BY <3>1, <3>3 DEF WorkGood
  <2> QED BY <1>3, <2>1, <2>2, <2>3, <2>4, <2>5 DEF Dispatches
<1>4. ASSUME NEW q \in Request, StartSteps(q) \/ OperatorAsks(q) \/ EndSteps(q)
      PROVE  worker' = worker
  BY <1>4 DEF StartSteps, StartArrives, Acquires, Intends, GivesBack, Applies,
              AwaitsApply, Enqueues, Activates, OperatorAsks, EndSteps, Asks,
              BeginsRecovery, Cancels, Probes, Records, Releases
<1>5. ASSUME NEW r \in Run, ForceReleases(r) \/ Sweeps(r) \/ Observes(r)
      PROVE  worker' = worker
  BY <1>5 DEF ForceReleases, Sweeps, Observes
<1>6. CASE Crashes \/ TimePasses \/ UNCHANGED vars
  BY <1>1, <1>2, <1>6 DEF Crashes, TimePasses, vars
<1> QED BY <1>1, <1>3, <1>4, <1>5, <1>6 DEF ControlNext

-----------------------------------------------------------------------------
(***************************************************************************)
(* The queue of scheduled actions.                                         *)
(***************************************************************************)

Rows == [status : Settled \cup {"none", "pending", "claimed"}, due : 0..RunExpires,
         until : 0..(Horizon + ActionLease), attempts : Nat]

QueueGood ==
    /\ queue \in [Action -> Rows]
    /\ \A a \in Action : queue[a].attempts <= actionOf[a].maxAttempts

LEMMA NewRow ==
    ASSUME NEW due \in 0..RunExpires
    PROVE  LET row == [NoRow EXCEPT !.status = "pending", !.due = due]
           IN row \in Rows /\ row.attempts = 0
<1> DEFINE row == [status |-> "pending", due |-> due, until |-> 0, attempts |-> 0]
<1>1. row \in Rows /\ row.attempts = 0
  BY ControlAssumption DEF Rows
<1>2. [NoRow EXCEPT !.status = "pending", !.due = due] = row
  <2> DEFINE first == [status |-> "pending", due |-> 0, until |-> 0, attempts |-> 0]
  <2>1. [NoRow EXCEPT !.status = "pending"] = first
    BY DEF NoRow
  <2>2. [first EXCEPT !.due = due] = row
    OBVIOUS
  <2>3. [NoRow EXCEPT !.status = "pending", !.due = due]
          = [[NoRow EXCEPT !.status = "pending"] EXCEPT !.due = due]
    OBVIOUS
  <2> HIDE DEF first, row
  <2> QED BY <2>1, <2>2, <2>3, Zenon
<1> HIDE DEF row
<1> QED BY <1>1, <1>2

LEMMA NewStatus ==
    ASSUME NEW row \in Rows, NEW status \in Settled, NEW until \in {0, row.until}
    PROVE  LET new == [row EXCEPT !.status = status, !.until = until]
           IN new \in Rows /\ new.attempts = row.attempts /\ new.status = status
<1> DEFINE first == [row EXCEPT !.status = status]
<1>1. first \in Rows /\ first.attempts = row.attempts /\ first.status = status
  BY DEF Rows
<1> HIDE DEF first
<1> DEFINE new == [first EXCEPT !.until = until]
<1>2. until \in 0..(Horizon + ActionLease)
  BY ControlAssumption DEF Rows
<1>3. new \in Rows /\ new.attempts = row.attempts /\ new.status = status
  BY <1>1, <1>2 DEF Rows
<1> QED BY <1>3 DEF first

LEMMA ClaimedRow ==
    ASSUME NEW row \in Rows, NEW until \in 0..(Horizon + ActionLease)
    PROVE  LET new == [row EXCEPT !.status = "claimed", !.until = until, !.attempts = @ + 1]
           IN new \in Rows /\ new.attempts = row.attempts + 1 /\ new.status = "claimed"
<1> DEFINE first == [row EXCEPT !.status = "claimed"]
           more == row.attempts + 1
<1>1. first \in Rows /\ first.attempts = row.attempts /\ first.status = "claimed"
      /\ more \in Nat
  BY DEF Rows
<1> HIDE DEF first
<1> DEFINE second == [first EXCEPT !.until = until]
<1>2. second \in Rows /\ second.attempts = row.attempts /\ second.status = "claimed"
  BY <1>1 DEF Rows
<1> HIDE DEF second
<1> DEFINE new == [second EXCEPT !.attempts = more]
<1> HIDE DEF more
<1>3. new \in Rows /\ new.attempts = more /\ new.status = "claimed"
  BY <1>1, <1>2 DEF Rows
<1> HIDE DEF new
<1> QED BY <1>3 DEF first, second, new, more

\* What a step may do to a row: nothing, write it first, claim it, or settle it.
RowStep(a) ==
    /\ queue'[a] \in Rows /\ queue'[a].attempts <= actionOf[a].maxAttempts
    /\ queue[a].status \in Settled => queue'[a] = queue[a]

QueueStep ==
    /\ queue' \in [Action -> Rows]
    /\ \A a \in Action : RowStep(a)

LEMMA QueueStays ==
    ASSUME QueueGood, queue' = queue
    PROVE  QueueStep
BY DEF QueueGood, QueueStep, RowStep

LEMMA EnqueuesRows ==
    ASSUME CallInv, QueueGood, NEW q \in Request, Enqueues(q)
    PROVE  QueueStep
<1> DEFINE due(a) == call[q].from + actionOf[a].offset
           row(a) == [NoRow EXCEPT !.status = "pending", !.due = due(a)]
<1>1. queue' = [a \in Action |->
                  IF actionOf[a].run = Of(q) /\ queue[a].status = "none"
                  THEN row(a) ELSE queue[a]]
  BY DEF Enqueues
<1>2. ASSUME NEW a \in Action
      PROVE  row(a) \in Rows /\ row(a).attempts = 0
  <2>1. call[q].from <= ActivateBy /\ call[q].from \in Nat
    <3>1. call[q].at = "enqueue" /\ InHand(q) /\ call[q].from \in 0..Horizon
      BY DEF Enqueues, CallInv, HandsGood, CallTypes
    <3> QED BY <3>1, ControlAssumption DEF InHand, StartStages
  <2>2. actionOf[a].offset \in 1..(FaultEnd - 1) /\ ActivateBy \in Nat /\ FaultEnd \in Nat
        /\ RunExpires \in Nat /\ ActivateBy + FaultEnd <= RunExpires
    BY ControlAssumption
  <2>3. due(a) \in 0..RunExpires
    BY <2>1, <2>2
  <2> HIDE DEF due
  <2> QED BY <2>3, NewRow
<1> HIDE DEF row
<1>3. ASSUME NEW a \in Action
      PROVE  RowStep(a)
  <2>1. /\ actionOf[a].maxAttempts \in Nat /\ queue[a] \in Rows
        /\ queue[a].attempts <= actionOf[a].maxAttempts
    BY ControlAssumption DEF QueueGood
  <2> QED BY <1>1, <1>2, <2>1 DEF RowStep, Settled
<1> QED BY <1>1, <1>3 DEF QueueStep, RowStep

LEMMA CancelsRows ==
    ASSUME QueueGood, NEW q \in Request, Cancels(q)
    PROVE  QueueStep
<1> DEFINE row(a) == [queue[a] EXCEPT !.status = "compensated"]
<1>1. queue' = [a \in Action |->
                  IF actionOf[a].run = Of(q) /\ queue[a].status = "pending"
                  THEN row(a) ELSE queue[a]]
  BY DEF Cancels
<1>2. ASSUME NEW a \in Action
      PROVE  row(a) \in Rows /\ row(a).attempts = queue[a].attempts
  BY DEF QueueGood, Rows, Settled
<1> HIDE DEF row
<1>3. ASSUME NEW a \in Action
      PROVE  RowStep(a)
  BY <1>1, <1>2 DEF RowStep, Settled, QueueGood
<1> QED BY <1>1, <1>3 DEF QueueStep, RowStep

LEMMA TicksRows ==
    ASSUME QueueGood, Ticks
    PROVE  QueueStep
<1> DEFINE row(a) == [queue[a] EXCEPT !.status = "expired", !.until = 0]
<1>1. queue' = [a \in Action |-> IF Overdue(a) THEN row(a) ELSE queue[a]]
  BY DEF Ticks
<1>2. ASSUME NEW a \in Action
      PROVE  row(a) \in Rows /\ row(a).attempts = queue[a].attempts
  BY NewStatus DEF QueueGood, Settled
<1> HIDE DEF row
<1>3. ASSUME NEW a \in Action
      PROVE  RowStep(a)
  <2>1. Overdue(a) => queue[a].status \notin Settled
    BY DEF Overdue, Settled
  <2> QED BY <1>1, <1>2, <2>1 DEF RowStep, QueueGood
<1> QED BY <1>1, <1>3 DEF QueueStep, RowStep

LEMMA ClaimsRows ==
    ASSUME CallInv, QueueGood, Claims
    PROVE  QueueStep
<1>1. CASE queue' = queue
  BY <1>1, QueueStays
<1>2. CASE queue' # queue
  <2>1. PICK a \in Action :
          /\ Claimable(a)
          /\ queue' = [queue EXCEPT ![a].status = "claimed", ![a].until = now + ActionLease,
                                    ![a].attempts = @ + 1]
    BY <1>2 DEF Claims
  <2> DEFINE row == [queue[a] EXCEPT !.status = "claimed", !.until = now + ActionLease,
                                     !.attempts = @ + 1]
  <2>2. now + ActionLease \in 0..(Horizon + ActionLease)
    BY ControlAssumption DEF CallInv, CallTypes
  <2>3. row \in Rows /\ row.attempts = queue[a].attempts + 1
    BY <2>2, ClaimedRow DEF QueueGood
  <2>4. queue' = [queue EXCEPT ![a] = row]
    BY <2>1 DEF QueueGood
  <2> HIDE DEF row
  <2>5. /\ queue[a].status \notin Settled
        /\ queue[a].attempts < actionOf[a].maxAttempts
    BY <2>1 DEF Claimable, Settled
  <2>6. queue[a].attempts + 1 <= actionOf[a].maxAttempts
    BY <2>5, ControlAssumption DEF QueueGood, Rows
  <2>7. ASSUME NEW b \in Action
        PROVE  RowStep(b)
    BY <2>3, <2>4, <2>5, <2>6 DEF RowStep, QueueGood
  <2> QED BY <2>3, <2>4, <2>7 DEF QueueStep, QueueGood
<1> QED BY <1>1, <1>2

LEMMA SettlesRows ==
    ASSUME WorkGood, QueueGood, Settles
    PROVE  QueueStep
<1>1. CASE queue' = queue
  BY <1>1, QueueStays
<1>2. CASE queue' # queue
  <2> DEFINE a == worker.action
             row == [queue[a] EXCEPT !.status = worker.verdict, !.until = 0]
  <2>1. /\ queue[a].status = "claimed"
        /\ queue' = [queue EXCEPT ![a].status = worker.verdict, ![a].until = 0]
        /\ a \in Action /\ worker.verdict \in Settled \cup {"none"}
    BY <1>2 DEF Settles, WorkGood
  <2>2. row \in Rows /\ row.attempts = queue[a].attempts
    <3> DEFINE first == [queue[a] EXCEPT !.status = worker.verdict]
    <3>1. first \in Rows /\ first.attempts = queue[a].attempts
      BY <2>1 DEF QueueGood, Rows
    <3> HIDE DEF first
    <3> DEFINE new == [first EXCEPT !.until = 0]
    <3>2. new \in Rows /\ new.attempts = queue[a].attempts
      BY <3>1, ControlAssumption DEF Rows
    <3> QED BY <3>2 DEF first
  <2>3. queue' = [queue EXCEPT ![a] = row]
    BY <2>1 DEF QueueGood
  <2> HIDE DEF row, a
  <2>4. ASSUME NEW b \in Action
        PROVE  RowStep(b)
    BY <2>1, <2>2, <2>3 DEF RowStep, QueueGood, Settled
  <2> QED BY <2>1, <2>2, <2>3, <2>4 DEF QueueStep, QueueGood
<1> QED BY <1>1, <1>2

LEMMA QueueNext ==
    ASSUME CallInv, WorkGood, QueueGood, [ControlNext]_vars
    PROVE  QueueStep
<1>1. ASSUME NEW q \in Request, StartSteps(q)
      PROVE  QueueStep
  BY <1>1, EnqueuesRows, QueueStays
     DEF StartSteps, StartArrives, Arrives, Acquires, Intends, GivesBack, Applies,
         AwaitsApply, Activates
<1>2. ASSUME NEW q \in Request, EndArrives(q) \/ EndSteps(q)
      PROVE  QueueStep
  BY <1>2, CancelsRows, QueueStays
     DEF EndArrives, Arrives, EndSteps, Asks, BeginsRecovery, Probes, Records, Releases
<1>3. CASE Dispatches
  <2>1. CASE PlannedEnds
    BY <2>1, <1>2, PlannedRequest DEF PlannedEnds, WorkGood
  <2> QED BY <1>3, <2>1, TicksRows, ClaimsRows, SettlesRows, QueueStays
          DEF Dispatches, Looks, PlannedEnded, HandsOver, AwaitsAction
<1>4. ASSUME NEW r \in Run, ForceReleases(r) \/ Sweeps(r) \/ Observes(r)
      PROVE  QueueStep
  BY <1>4, QueueStays DEF ForceReleases, Sweeps, Observes
<1>5. CASE Crashes \/ TimePasses \/ UNCHANGED vars
  BY <1>5, QueueStays DEF Crashes, TimePasses, vars
<1> QED BY <1>1, <1>2, <1>3, <1>4, <1>5 DEF ControlNext, OperatorAsks

-----------------------------------------------------------------------------
(***************************************************************************)
(* What was handed to the wrapper.                                         *)
(***************************************************************************)

LEMMA SubmittedNext ==
    ASSUME CallInv, WorkGood, submitted \subseteq Faults, EveryFaultIsAnnounced,
           [ControlNext]_vars
    PROVE  submitted' \subseteq Faults /\ EveryFaultIsAnnounced'
<1>0. ASSUME NEW f \in Faults
      PROVE  RunOf(f) \in Run
  BY ControlAssumption DEF Faults, RunOf
<1>1. \A r \in Run : record[r] \subseteq record'[r]
  BY AuditsGrow
<1>2. CASE submitted' = submitted
  BY <1>0, <1>1, <1>2 DEF EveryFaultIsAnnounced, RunOf
<1>3. ASSUME NEW f \in Faults, submitted' = submitted \cup {f}, record' = record,
             \E id \in record[RunOf(f)] :
                 id[2] = IF f \in Run THEN "begin-activation" ELSE "activate"
      PROVE  submitted' \subseteq Faults /\ EveryFaultIsAnnounced'
  BY <1>3 DEF EveryFaultIsAnnounced, RunOf
<1>4. ASSUME NEW q \in Request, Applies(q)
      PROVE  submitted' \subseteq Faults /\ EveryFaultIsAnnounced'
  <2>1. Of(q) \in Run /\ Of(q) \in Faults /\ RunOf(Of(q)) = Of(q) /\ record' = record
    BY <1>4, ControlAssumption DEF Of, Faults, RunOf, Applies, stateVars
  <2>2. <<q, "begin-activation">> \in record[Of(q)]
    BY <1>4 DEF Applies, CallInv, HandsGood, InHand, Own
  <2>3. submitted' = submitted \cup {Of(q)} \/ submitted' = submitted
    BY <1>4 DEF Applies
  <2> QED BY <1>2, <1>3, <2>1, <2>2, <2>3
<1>5. CASE HandsOver
  <2> DEFINE a == worker.action
  <2>1. /\ a \in Action /\ Has(record[actionOf[a].run], "activate") /\ record' = record
        /\ submitted' = submitted \cup ({a} \cap Faults) \/ submitted' = submitted
    BY <1>5 DEF HandsOver, WorkGood, stateVars
  <2> HIDE DEF a
  <2>2. CASE a \in Faults /\ submitted' = submitted \cup {a}
    <3>1. a \notin Run /\ RunOf(a) = actionOf[a].run
      BY <2>1, ControlAssumption DEF RunOf
    <3> QED BY <1>3, <2>1, <2>2, <3>1 DEF Has
  <2>3. submitted' = submitted \/ (a \in Faults /\ submitted' = submitted \cup {a})
    <3>1. {a} \cap Faults = IF a \in Faults THEN {a} ELSE {}
      OBVIOUS
    <3> QED BY <2>1, <3>1
  <2> QED BY <1>2, <2>2, <2>3
<1>6. ASSUME NEW q \in Request,
             (StartSteps(q) /\ ~Applies(q)) \/ OperatorAsks(q) \/ EndSteps(q)
      PROVE  submitted' = submitted
  BY <1>6 DEF StartSteps, StartArrives, Arrives, Acquires, Intends, GivesBack,
              AwaitsApply, Enqueues, Activates, OperatorAsks, EndArrives, EndSteps, Asks,
              BeginsRecovery, Cancels, Probes, Records, Releases
<1>7. ASSUME NEW r \in Run, ForceReleases(r) \/ Sweeps(r) \/ Observes(r)
      PROVE  submitted' = submitted
  BY <1>7 DEF ForceReleases, Sweeps, Observes
<1>8. CASE Dispatches /\ ~HandsOver
  BY <1>2, <1>8 DEF Dispatches, Ticks, Claims, Looks, PlannedEnds, EndArrives, Arrives,
                    PlannedEnded, AwaitsAction, Settles
<1>9. CASE Crashes \/ TimePasses \/ UNCHANGED vars
  BY <1>2, <1>9 DEF Crashes, TimePasses, vars
<1> QED BY <1>2, <1>4, <1>5, <1>6, <1>7, <1>8, <1>9 DEF ControlNext

-----------------------------------------------------------------------------
(***************************************************************************)
(* The lock.                                                               *)
(***************************************************************************)

\* A run that may have a fault in the lab, or may still be given one.
Guarded(r) == Clock(r) < RunExpires /\ (run[r].status = "armed" \/ run[r].lease # 0)

\* Whoever starts a run under a key does it once: no two keys of one operator
\* start the same run.
OneStart ==
    \A p, q \in Request :
        (asks[p].op = "start" /\ asks[q].op = "start"
           /\ Of(p) = Of(q) /\ asks[p].by = asks[q].by) => p = q

\* Some start of the run has its intent on the audit, and holds the lock.
Keeps(q, r) ==
    /\ asks[q].op = "start" /\ Of(q) = r /\ Own(q)
    /\ lock = Held(r, asks[q].by)

Intending(q) == call[q].at \in {"intent", "giveback"}

HoldsLab ==
    /\ \A r \in Run : Exposed(r) => \E q \in Request : Keeps(q, r)
    /\ \A q \in Request :
          Intending(q) /\ Guarded(Of(q)) => lock = Held(Of(q), asks[q].by)

NoLaterLease == \A r \in Run : run'[r].lease # 0 => run[r].lease # 0

LEMMA GuardsOnlyEnd ==
    ASSUME CallInv, Grows, now <= now', now' \in Nat, NEW r \in Run
    PROVE  /\ Guarded(r)' => Guarded(r)
           /\ NoLaterLease => (Exposed(r)' => Exposed(r))
BY ControlAssumption DEF CallInv, CallTypes, Grows, Guarded, Exposed, NoLaterLease, Clock

LEMMA OwnStays ==
    ASSUME Grows, NEW q \in Request, Own(q)
    PROVE  Own(q)'
BY ControlAssumption DEF Grows, Own, Of

\* Whatever writes no lease, no lock and no new intent.
LEMMA LabKept ==
    ASSUME CallInv, HoldsLab, Grows, NoLaterLease, now <= now', now' \in Nat,
           lock' = lock, \A q \in Request : Intending(q)' => Intending(q)
    PROVE  HoldsLab'
<1>1. ASSUME NEW r \in Run, Exposed(r)'
      PROVE  \E q \in Request : Keeps(q, r)'
  <2>1. PICK q \in Request : Keeps(q, r)
    BY <1>1, GuardsOnlyEnd DEF HoldsLab
  <2>2. Keeps(q, r)'
    BY <2>1, OwnStays DEF Keeps, Of
  <2> QED BY <2>2
<1>2. ASSUME NEW q \in Request, Intending(q)', Guarded(Of(q))'
      PROVE  lock' = Held(Of(q), asks[q].by)
  <2>1. Of(q) \in Run /\ (Guarded(Of(q))' => Guarded(Of(q)))
    BY ControlAssumption, GuardsOnlyEnd DEF Of
  <2> QED BY <1>2, <2>1 DEF HoldsLab
<1> QED BY <1>1, <1>2 DEF HoldsLab, Of

\* While a run may have a fault in the lab, its lock is not overwritten.
LEMMA GuardBlocks ==
    ASSUME CallInv, NEW r \in Run, NEW o \in Operator, lock = Held(r, o),
           Clock(r) < RunExpires
    PROVE  Blocking(lock, now) /\ lock.held /\ lock.run = r
BY ControlAssumption DEF Blocking, Held, Clock, CallInv, CallTypes

LEMMA AcquiresHolds ==
    ASSUME CallInv, HoldsLab, NEW q \in Request, Acquires(q),
           MayAcquire(lock, now, Of(q), asks[q].by)
    PROVE  HoldsLab'
<1>1. /\ lock' = Acquired(lock, now, Of(q), asks[q].by)
      /\ UNCHANGED <<now, run, record>>
      /\ Blocking(lock, now) => lock = Held(Of(q), asks[q].by)
  BY DEF Acquires, MayAcquire, stateVars
<1>2. \A p \in Request \ {q} : call'[p] = call[p]
  BY DEF Acquires, CallInv, CallTypes
<1>3. /\ \A r \in Run : (Guarded(r)' <=> Guarded(r)) /\ (Exposed(r)' <=> Exposed(r))
      /\ \A p \in Request : Own(p)' <=> Own(p)
  BY <1>1 DEF Guarded, Exposed, Clock, Own
<1>4. lock' = Held(Of(q), asks[q].by)
  BY <1>1 DEF Acquired
<1>5. ASSUME Blocking(lock, now) PROVE lock' = lock
  BY <1>1, <1>4, <1>5
<1>6. ASSUME NEW r \in Run, Exposed(r)'
      PROVE  \E p \in Request : Keeps(p, r)'
  <2>1. PICK p \in Request : Keeps(p, r)
    BY <1>3, <1>6 DEF HoldsLab
  <2>2. asks[p].by \in Operator /\ Clock(r) < RunExpires
    BY <1>3, <1>6, ControlAssumption DEF Exposed
  <2>3. lock' = lock
    BY <1>5, <2>1, <2>2, GuardBlocks DEF Keeps
  <2> QED BY <1>3, <2>1, <2>3 DEF Keeps, Of
<1>7. ASSUME NEW p \in Request, Intending(p)', Guarded(Of(p))'
      PROVE  lock' = Held(Of(p), asks[p].by)
  <2>1. CASE p = q
    BY <1>4, <2>1
  <2>2. CASE p # q
    <3>1. Of(p) \in Run /\ asks[p].by \in Operator
      BY ControlAssumption DEF Of
    <3>2. lock = Held(Of(p), asks[p].by) /\ Clock(Of(p)) < RunExpires
      BY <1>2, <1>3, <1>7, <2>2, <3>1 DEF HoldsLab, Intending, Guarded
    <3> QED BY <1>5, <3>1, <3>2, GuardBlocks
  <2> QED BY <2>1, <2>2
<1> QED BY <1>6, <1>7 DEF HoldsLab, Of

\* The intent is written by the start that holds the lock.
LEMMA IntendsHolds ==
    ASSUME CallInv, HoldsLab, NEW q \in Request, Intends(q)
    PROVE  HoldsLab'
<1> DEFINE e == BeginActivation(q)
<1>1. /\ call[q].at = "intent" /\ InHand(q) /\ Of(q) \in Run
      /\ UNCHANGED <<now, lock>> /\ now' \in Nat /\ now <= now'
      /\ \/ Moves(Of(q), e)
         \/ UNCHANGED stateVars
  BY ControlAssumption DEF Intends, CallInv, CallTypes, HandsGood, Of
<1>2. \A p \in Request : Intending(p)' => Intending(p)
  <2>1. \A p \in Request \ {q} : call'[p] = call[p]
    BY DEF Intends, Goto, Fails, CallInv, CallTypes
  <2> QED BY <1>1, <2>1 DEF Intending
<1>3. CASE UNCHANGED stateVars
  BY <1>1, <1>2, <1>3, StillGrows, LabKept DEF NoLaterLease, stateVars
<1>4. CASE Moves(Of(q), e)
  <2>1. born[Of(q)] <= now /\ asks[q].op = "start" /\ call[q].from <= ActivateBy
    BY <1>1 DEF InHand, StartStages
  <2>2. /\ e.id = <<q, "begin-activation">> /\ e.type = "begin_activation"
        /\ ControlEvent(e)
    <3> DEFINE f == call[q].from
    <3>1. f \in 0..Horizon /\ f <= ActivateBy /\ f + FaultEnd \in Nat
      BY <2>1, ControlAssumption DEF CallInv, CallTypes
    <3>2. e = [id |-> <<q, "begin-activation">>, type |-> "begin_activation",
               at |-> f, lease |-> f + FaultEnd]
      BY DEF BeginActivation, Event
    <3> HIDE DEF e, f
    <3> QED BY <3>1, <3>2 DEF ControlEvent, EventIds, Suffixes
  <2> HIDE DEF e
  <2>3. /\ Grows /\ e.id \in record'[Of(q)]
        /\ \A x \in Run \ {Of(q)} : run'[x] = run[x]
    <3>1. Grows /\ e.id \in record'[Of(q)]
      BY <1>1, <1>4, <2>1, <2>2, OwnMove
    <3>2. \A x \in Run \ {Of(q)} : run'[x] = run[x]
      BY <1>1, <1>4 DEF Moves, CallInv, CallTypes
    <3> QED BY <3>1, <3>2
  <2>4. ASSUME NEW r \in Run, Exposed(r)'
        PROVE  \E p \in Request : Keeps(p, r)'
    <3>1. CASE Exposed(r)
      <4>1. PICK p \in Request : Keeps(p, r)
        BY <3>1 DEF HoldsLab
      <4> QED BY <1>1, <2>3, <4>1, OwnStays DEF Keeps, Of
    <3>2. CASE ~Exposed(r)
      <4>1. r = Of(q)
        BY <1>1, <2>3, <2>4, <3>2 DEF Exposed, Clock
      <4>2. Guarded(r)
        BY <1>1, <2>3, <2>4, <3>2 DEF Grows, Exposed, Guarded, Clock
      <4>3. lock' = Held(r, asks[q].by) /\ Own(q)'
        BY <1>1, <2>2, <2>3, <4>1, <4>2 DEF HoldsLab, Intending, Own, Of
      <4> QED BY <2>1, <4>1, <4>3 DEF Keeps, Of
    <3> QED BY <3>1, <3>2
  <2>5. ASSUME NEW p \in Request, Intending(p)', Guarded(Of(p))'
        PROVE  lock' = Held(Of(p), asks[p].by)
    <3>1. Of(p) \in Run /\ (Guarded(Of(p))' => Guarded(Of(p)))
      BY <1>1, <2>3, ControlAssumption, GuardsOnlyEnd DEF Of
    <3> QED BY <1>1, <1>2, <2>5, <3>1 DEF HoldsLab
  <2> QED BY <2>4, <2>5 DEF HoldsLab, Of
<1> QED BY <1>1, <1>3, <1>4

\* A lock is opened only for a run that needs it no more: the start that gives
\* it back has no intent on record, and is the only one of its operator's.
LEMMA OpensHolds ==
    ASSUME CallInv, HoldsLab, NEW r \in Run, UNCHANGED <<now, run, record>>,
           lock' = ReleasedForRun(lock, r) \/ lock' = lock,
           \A q \in Request : Intending(q)' => Intending(q),
           \A q \in Request : Intending(q)' /\ Of(q) = r => ~Guarded(r)
                                                 \/ lock # Held(r, asks[q].by),
           \A q \in Request : Exposed(r) => ~Keeps(q, r)
    PROVE  HoldsLab'
<1>1. /\ \A x \in Run : (Guarded(x)' <=> Guarded(x)) /\ (Exposed(x)' <=> Exposed(x))
      /\ \A q \in Request : Own(q)' <=> Own(q)
  BY DEF Guarded, Exposed, Clock, Own
<1>2. ASSUME NEW x \in Run, x # r, NEW o, lock = Held(x, o)
      PROVE  lock' = lock
  BY <1>2 DEF ReleasedForRun, Held
<1>3. ASSUME NEW x \in Run, Exposed(x)'
      PROVE  \E q \in Request : Keeps(q, x)'
  <2>1. PICK q \in Request : Keeps(q, x)
    BY <1>1, <1>3 DEF HoldsLab
  <2>2. x # r
    BY <1>1, <1>3, <2>1
  <2>3. lock' = lock
    BY <1>2, <2>1, <2>2 DEF Keeps
  <2> QED BY <1>1, <2>1, <2>3 DEF Keeps, Of
<1>4. ASSUME NEW q \in Request, Intending(q)', Guarded(Of(q))'
      PROVE  lock' = Held(Of(q), asks[q].by)
  <2>1. Of(q) \in Run /\ lock = Held(Of(q), asks[q].by) /\ Guarded(Of(q))
    BY <1>1, <1>4, ControlAssumption DEF HoldsLab, Of
  <2>2. Of(q) # r
    BY <1>4, <2>1
  <2> QED BY <1>2, <2>1, <2>2
<1> QED BY <1>3, <1>4 DEF HoldsLab, Of

LEMMA GivesBackHolds ==
    ASSUME CallInv, HoldsLab, OneStart, NEW q \in Request, GivesBack(q)
    PROVE  HoldsLab'
<1>1. /\ Of(q) \in Run /\ UNCHANGED <<now, run, record>>
      /\ lock' = ReleasedForRun(lock, Of(q)) \/ lock' = lock
      /\ call[q].at = "giveback" /\ InHand(q)
  BY ControlAssumption DEF GivesBack, stateVars, Of, CallInv, HandsGood
<1>2. /\ call'[q].at = "idle" /\ \A p \in Request \ {q} : call'[p] = call[p]
  BY EndMakes DEF GivesBack, CallInv
<1>3. asks[q].op = "start" /\ ~Own(q) /\ asks[q].by \in Operator
  BY <1>1, ControlAssumption DEF InHand, StartStages
<1>4. Guarded(Of(q)) => lock = Held(Of(q), asks[q].by)
  BY <1>1 DEF HoldsLab, Intending
<1>5. ASSUME NEW p \in Request, Of(p) = Of(q), asks[p].op = "start",
             Guarded(Of(q)), lock = Held(Of(q), asks[p].by)
      PROVE  p = q
  BY <1>3, <1>4, <1>5 DEF OneStart, Held
<1>6. \A p \in Request : Intending(p)' => Intending(p) /\ p # q
  BY <1>2 DEF Intending
<1>7. \A p \in Request : Exposed(Of(q)) => ~Keeps(p, Of(q))
  BY <1>3, <1>5 DEF Exposed, Guarded, Keeps
<1>8. ASSUME NEW p \in Request, Intending(p)', Of(p) = Of(q)
      PROVE  ~Guarded(Of(q)) \/ lock # Held(Of(q), asks[p].by)
  <2>1. asks[p].op = "start" /\ p # q
    BY <1>6, <1>8 DEF Intending, CallInv, HandsGood, InHand, StartStages
  <2> QED BY <1>5, <1>8, <2>1
<1> QED BY <1>1, <1>6, <1>7, <1>8, OpensHolds

LEMMA ReleasesHolds ==
    ASSUME CallInv, HoldsLab, NEW q \in Request, Releases(q)
    PROVE  HoldsLab'
<1>1. /\ Of(q) \in Run /\ UNCHANGED <<now, run, record>>
      /\ lock' = ReleasedForRun(lock, Of(q)) \/ lock' = lock
      /\ Has(record[Of(q)], "recovered")
  BY ControlAssumption DEF Releases, stateVars, Of, CallInv, HandsGood, InHand
<1>2. /\ call'[q].at = "idle" /\ \A p \in Request \ {q} : call'[p] = call[p]
  BY EndMakes DEF Releases, CallInv
<1>3. ~Guarded(Of(q)) /\ ~Exposed(Of(q))
  BY <1>1 DEF CallInv, RunsGood, Good, Guarded, Exposed
<1>4. \A p \in Request : Intending(p)' => Intending(p)
  BY <1>2 DEF Intending
<1> QED BY <1>1, <1>3, <1>4, OpensHolds

LEMMA ForceReleasesHolds ==
    ASSUME CallInv, HoldsLab, ~LoadsFail, NEW r \in Run, ForceReleases(r)
    PROVE  HoldsLab'
<1>1. /\ UNCHANGED <<now, run, record, call>> /\ lock' = ReleasedForRun(lock, r)
      /\ run[r].status \in Terminal
  BY DEF ForceReleases, stateVars, callVars, ReleasedForRun
<1>2. ~Guarded(r) /\ ~Exposed(r)
  BY <1>1 DEF CallInv, RunsGood, Good, LiveStatuses, Guarded, Exposed, Terminal
<1>3. \A p \in Request : Intending(p)' => Intending(p)
  BY <1>1 DEF Intending
<1> QED BY <1>1, <1>2, <1>3, OpensHolds

LEMMA ArrivesHolds ==
    ASSUME CallInv, HoldsLab, NEW q \in Request, NEW stage, Arrives(q, stage),
           stage \notin {"intent", "giveback"}
    PROVE  HoldsLab'
<1> DEFINE from == IF stage = "lock" THEN Clock(Of(q))
                   ELSE IF stage = "relock" THEN run[Of(q)].updatedAt ELSE 0
           made == IF stage \in {"told", "refused"} THEN NoCall
                   ELSE [NoCall EXCEPT !.at = stage, !.from = from]
<1>1. made.at = IF stage \in {"told", "refused"} THEN "idle" ELSE stage
  <2>1. CASE stage \in {"told", "refused"}
    BY <2>1 DEF NoCall
  <2>2. CASE stage \notin {"told", "refused"}
    <3>1. made = [at |-> stage, from |-> from, mine |-> FALSE, clean |-> FALSE]
      BY <2>2 DEF NoCall
    <3> QED BY <2>2, <3>1
  <2> QED BY <2>1, <2>2
<1> HIDE DEF from
<1>2. call' = [call EXCEPT ![q] = made] /\ UNCHANGED <<now, run, record, lock>>
  BY DEF Arrives, stateVars, from
<1> HIDE DEF made
<1>3. \A p \in Request : Intending(p)' => Intending(p)
  BY <1>1, <1>2 DEF Intending, CallInv, CallTypes
<1>4. Grows /\ NoLaterLease /\ now <= now' /\ now' \in Nat
  BY <1>2, StillGrows, ControlAssumption DEF stateVars, NoLaterLease, CallInv, CallTypes
<1> QED BY <1>2, <1>3, <1>4, LabKept

\* A call that goes on, answers or fails is past its intent.
LEMMA NoNewIntent ==
    ASSUME CallInv, NEW q \in Request,
           \/ Answers(q) \/ Fails(q)
           \/ \E stage \in CallStages \ {"intent", "giveback"} : Goto(q, stage)
    PROVE  \A p \in Request : Intending(p)' => Intending(p)
<1>1. /\ call'[q].at \notin {"intent", "giveback"}
      /\ \A p \in Request \ {q} : call'[p] = call[p]
  BY EndMakes, GotoMakes DEF CallInv
<1> QED BY <1>1 DEF Intending

LEMMA ActivatesHolds ==
    ASSUME CallInv, HoldsLab, NEW q \in Request, Activates(q)
    PROVE  HoldsLab'
<1> DEFINE e == ActivateFault(q)
<1>1. /\ call[q].at = "activate" /\ InHand(q) /\ Of(q) \in Run
      /\ UNCHANGED <<now, lock>> /\ now <= now' /\ now' \in Nat
      /\ Answers(q) \/ Fails(q)
      /\ Moves(Of(q), e) \/ UNCHANGED stateVars
  BY ControlAssumption DEF Activates, CallInv, CallTypes, HandsGood, Of
<1>2. \A p \in Request : Intending(p)' => Intending(p)
  BY <1>1, NoNewIntent
<1>3. CASE UNCHANGED stateVars
  BY <1>1, <1>2, <1>3, StillGrows, LabKept DEF NoLaterLease, stateVars
<1>4. CASE Moves(Of(q), e)
  <2>1. born[Of(q)] <= now /\ Own(q)
    BY <1>1 DEF InHand
  <2>2. /\ e.id = <<q, "activate">> /\ e.type = "activate_fault" /\ ControlEvent(e)
    <3> DEFINE f == call[q].from
               at == Clock(Of(q))
    <3>1. f + FaultEnd \in Nat /\ at \in 0..Horizon
      BY <1>1, <2>1, ControlAssumption DEF CallInv, CallTypes, Clock
    <3>2. e = [id |-> <<q, "activate">>, type |-> "activate_fault",
               at |-> at, lease |-> f + FaultEnd]
      BY DEF ActivateFault, Event
    <3> HIDE DEF e, f, at
    <3> QED BY <3>1, <3>2 DEF ControlEvent, EventIds, Suffixes
  <2> HIDE DEF e
  <2>3. Grows
    BY <1>1, <1>4, <2>1, <2>2, OwnMove
  <2>4. run[Of(q)].status # "armed"
    BY <1>1, <2>1 DEF Own, CallInv, RunsGood, Good
  <2>5. \A x \in Run \ {Of(q)} : run'[x] = run[x]
    BY <1>1, <1>4 DEF Moves, CallInv, CallTypes
  <2>6. NoLaterLease
    BY <2>3, <2>4, <2>5 DEF Grows, NoLaterLease
  <2> QED BY <1>1, <1>2, <2>3, <2>6, LabKept
<1> QED BY <1>1, <1>3, <1>4

\* Asking, beginning and recording a recovery lease nothing.
LEMMA EndsHold ==
    ASSUME CallInv, HoldsLab, NEW q \in Request,
           Asks(q) \/ BeginsRecovery(q) \/ Records(q)
    PROVE  HoldsLab'
<1>1. /\ call[q].at \in EndStages /\ InHand(q) /\ Of(q) \in Run
      /\ UNCHANGED <<now, lock>> /\ now <= now' /\ now' \in Nat
  BY ControlAssumption
     DEF Asks, BeginsRecovery, Records, CallInv, CallTypes, HandsGood, Of, EndStages
<1>2. \A p \in Request : Intending(p)' => Intending(p)
  <2>1. \/ Answers(q) \/ Fails(q)
        \/ \E stage \in {"begin", "cancel", "release"} : Goto(q, stage)
    BY DEF Asks, BeginsRecovery, Records
  <2>2. {"begin", "cancel", "release"} \subseteq CallStages \ {"intent", "giveback"}
    BY DEF CallStages
  <2> QED BY <2>1, <2>2, NoNewIntent
<1>3. CASE UNCHANGED stateVars
  BY <1>1, <1>2, <1>3, StillGrows, LabKept DEF NoLaterLease, stateVars
<1>4. ASSUME NEW suffix, NEW type, Moves(Of(q), EventFor(q, suffix, type)),
             \/ suffix = "abort" /\ type = "abort_requested"
             \/ /\ suffix \in {"begin", "recovery"} /\ type = "begin_recovery"
                /\ run[Of(q)].abort \/ Has(record[Of(q)], "activate")
             \/ suffix = "recovered" /\ type = "recovery_succeeded"
             \/ suffix = "recovery-failed" /\ type = "recovery_failed"
      PROVE  HoldsLab'
  <2> DEFINE e == EventFor(q, suffix, type)
  <2>1. /\ e.id = <<q, suffix>> /\ e.type = type /\ ControlEvent(e)
        /\ born[Of(q)] <= now
    BY <1>1, <1>4, EndEvents DEF InHand, EndStages
  <2>2. Moves(Of(q), e) /\ e.type \notin Activations
        /\ (e.type = "begin_recovery" =>
              run[Of(q)].abort \/ Has(record[Of(q)], "activate"))
    BY <1>4, <2>1 DEF Activations
  <2> HIDE DEF e
  <2>3. Grows
    BY <1>1, <2>1, <2>2, OwnMove
  <2>4. NoLaterLease
    BY <1>1, <2>1, <2>2, NoNewLease DEF NoLaterLease, CallInv
  <2> QED BY <1>1, <1>2, <2>3, <2>4, LabKept
<1>5. CASE Asks(q)
  BY <1>3, <1>4, <1>5 DEF Asks
<1>6. CASE BeginsRecovery(q)
  <2>1. run[Of(q)].abort \/ Has(record[Of(q)], "activate")
    BY <1>1, <1>6 DEF BeginsRecovery, InHand
  <2>2. CASE asks[q].op = "abort"
    BY <1>3, <1>4, <1>6, <2>1, <2>2 DEF BeginsRecovery
  <2>3. CASE asks[q].op # "abort"
    BY <1>3, <1>4, <1>6, <2>1, <2>3 DEF BeginsRecovery
  <2> QED BY <2>2, <2>3
<1>7. CASE Records(q)
  <2>1. CASE call[q].clean
    BY <1>3, <1>4, <1>7, <2>1 DEF Records
  <2>2. CASE ~call[q].clean
    BY <1>3, <1>4, <1>7, <2>2 DEF Records
  <2> QED BY <2>1, <2>2
<1> QED BY <1>5, <1>6, <1>7

LEMMA EndArrivesHolds ==
    ASSUME CallInv, HoldsLab, NEW q \in Request, EndArrives(q)
    PROVE  HoldsLab'
<1>1. PICK stage : Arrives(q, stage) /\ stage \notin {"intent", "giveback"}
  BY DEF EndArrives, AbortStage, RecoverStage
<1> QED BY <1>1, ArrivesHolds

LEMMA StartArrivesHolds ==
    ASSUME CallInv, HoldsLab, NEW q \in Request, StartArrives(q)
    PROVE  HoldsLab'
<1>1. PICK stage : Arrives(q, stage) /\ stage \notin {"intent", "giveback"}
  BY DEF StartArrives
<1> QED BY <1>1, ArrivesHolds

LEMMA LabNext ==
    ASSUME CallInv, WorkGood, HoldsLab, OneStart, ~LoadsFail, [ControlNext]_vars
    PROVE  HoldsLab'
<1>0. now \in Nat
  BY ControlAssumption DEF CallInv, CallTypes
<1>1. ASSUME NEW q \in Request, StartSteps(q)
      PROVE  HoldsLab'
  <2>1. CASE Acquires(q)
    <3>1. CASE MayAcquire(lock, now, Of(q), asks[q].by)
      BY <2>1, <3>1, AcquiresHolds
    <3>2. CASE ~MayAcquire(lock, now, Of(q), asks[q].by)
      <4>1. Fails(q) /\ UNCHANGED <<now, lock, run, record>>
        BY <2>1, <3>2 DEF Acquires, stateVars
      <4> QED BY <1>0, <4>1, NoNewIntent, StillGrows, LabKept DEF NoLaterLease, stateVars
    <3> QED BY <3>1, <3>2
  <2>2. CASE Applies(q) \/ AwaitsApply(q) \/ Enqueues(q)
    <3>1. UNCHANGED <<now, lock, run, record>>
      BY <2>2 DEF Applies, AwaitsApply, Enqueues, stateVars
    <3>2. \/ Fails(q)
          \/ \E stage \in {"await", "enqueue", "activate"} : Goto(q, stage)
      BY <2>2 DEF Applies, AwaitsApply, Enqueues
    <3>3. {"await", "enqueue", "activate"} \subseteq CallStages \ {"intent", "giveback"}
      BY DEF CallStages
    <3>4. \A p \in Request : Intending(p)' => Intending(p)
      BY <3>2, <3>3, NoNewIntent
    <3> QED BY <1>0, <3>1, <3>4, StillGrows, LabKept DEF NoLaterLease, stateVars
  <2> QED BY <1>1, <2>1, <2>2, StartArrivesHolds, IntendsHolds, GivesBackHolds,
             ActivatesHolds DEF StartSteps
<1>2. ASSUME NEW q \in Request, EndArrives(q) \/ EndSteps(q)
      PROVE  HoldsLab'
  <2>1. CASE Cancels(q) \/ Probes(q)
    <3>1. UNCHANGED <<now, lock, run, record>>
      BY <2>1 DEF Cancels, Probes, stateVars
    <3>2. \A p \in Request : Intending(p)' => Intending(p)
      <4>1. call'[q].at \notin {"intent", "giveback"}
            /\ \A p \in Request \ {q} : call'[p] = call[p]
        BY <2>1 DEF Cancels, Probes, Goto, CallInv, CallTypes
      <4> QED BY <4>1 DEF Intending
    <3> QED BY <1>0, <3>1, <3>2, StillGrows, LabKept DEF NoLaterLease, stateVars
  <2> QED BY <1>2, <2>1, EndArrivesHolds, EndsHold, ReleasesHolds DEF EndSteps
<1>3. ASSUME NEW r \in Run, ForceReleases(r) \/ Sweeps(r) \/ Observes(r)
      PROVE  HoldsLab'
  <2>1. CASE Sweeps(r) \/ Observes(r)
    <3>1. Grows /\ NoLaterLease /\ UNCHANGED <<now, lock, call>>
      BY <2>1, SweepsMove, ObservesMove DEF Sweeps, Observes, callVars, NoLaterLease
    <3> QED BY <1>0, <3>1, LabKept DEF Intending
  <2> QED BY <1>3, <2>1, ForceReleasesHolds
<1>4. CASE PlannedEnds
  BY <1>2, <1>4, PlannedRequest DEF PlannedEnds, WorkGood
<1>5. CASE \/ Ticks \/ Claims \/ Looks \/ PlannedEnded \/ HandsOver \/ AwaitsAction
           \/ Settles \/ UNCHANGED vars
  <2>1. UNCHANGED <<now, run, record, lock, call>>
    BY <1>5 DEF Ticks, Claims, Looks, PlannedEnded, HandsOver, AwaitsAction, Settles,
                vars, stateVars, callVars
  <2> QED BY <1>0, <2>1, StillGrows, LabKept DEF NoLaterLease, stateVars, Intending
<1>6. CASE Crashes
  <2>1. /\ UNCHANGED <<now, run, record, lock>> /\ call' = [q \in Request |-> NoCall]
        /\ NoCall.at = "idle"
    BY <1>6 DEF Crashes, stateVars, NoCall
  <2> HIDE DEF NoCall
  <2> QED BY <1>0, <2>1, StillGrows, LabKept DEF NoLaterLease, stateVars, Intending
<1>7. CASE TimePasses
  <2>1. UNCHANGED <<run, record, lock, call>> /\ now' = now + 1
    BY <1>7 DEF TimePasses, stateVars, callVars
  <2> QED BY <1>0, <2>1, StillGrows, LabKept DEF NoLaterLease, stateVars, Intending
<1> QED BY <1>1, <1>2, <1>3, <1>4, <1>5, <1>6, <1>7
        DEF ControlNext, OperatorAsks, Dispatches

-----------------------------------------------------------------------------
(***************************************************************************)
(* The theorems.                                                           *)
(***************************************************************************)

ControlInv ==
    CallInv /\ WorkGood /\ QueueGood /\ submitted \subseteq Faults /\ EveryFaultIsAnnounced

LEMMA ControlInvInit ==
    ASSUME ControlInit
    PROVE  ControlInv
<1>1. WorkGood
  <2> DEFINE w == [at |-> "idle", action |-> None, verdict |-> "none"]
  <2>1. w.at = "idle" /\ w \in [at : WorkerStages, action : Action \cup {None},
                                verdict : Settled \cup {"none"}]
    BY DEF WorkerStages
  <2>2. worker = w
    BY DEF ControlInit, NoWork
  <2> HIDE DEF w
  <2> QED BY <2>1, <2>2 DEF WorkGood
<1>2. QueueGood
  <2> DEFINE row == [status |-> "none", due |-> 0, until |-> 0, attempts |-> 0]
  <2>1. row \in Rows /\ row.attempts = 0
    BY ControlAssumption DEF Rows
  <2>2. queue = [a \in Action |-> row]
    BY DEF ControlInit, NoRow
  <2> HIDE DEF row
  <2> QED BY <2>1, <2>2, ControlAssumption DEF QueueGood
<1>3. submitted \subseteq Faults /\ EveryFaultIsAnnounced
  BY DEF ControlInit, EveryFaultIsAnnounced
<1> QED BY <1>1, <1>2, <1>3, CallFromInit DEF ControlInv

LEMMA ControlInvNext ==
    ASSUME ControlInv, [ControlNext]_vars
    PROVE  ControlInv'
BY CallNext, WorkNext, QueueNext, SubmittedNext
   DEF ControlInv, QueueGood, QueueStep, RowStep

LEMMA ControlInvHolds == ControlSpec => []ControlInv
BY ControlInvInit, ControlInvNext, PTL DEF ControlSpec

\* The types, and that no action is tried more often than its ceiling.
THEOREM ControlTypeCorrect == ControlSpec => []ControlTypeOK
<1>1. ControlInv => ControlTypeOK
  BY DEF ControlInv, CallInv, CallTypes, WorkGood, QueueGood, Rows, ControlTypeOK
<1> QED BY <1>1, ControlInvHolds, PTL

\* A run with a fault lease on its record holds the lab, whatever the number of
\* runs, operators and keys, as long as no operator starts a run under two keys
\* at once and a load that fails is not taken for a run that is over.
THEOREM LabHeld ==
    ASSUME OneStart, ~LoadsFail
    PROVE  ControlSpec => []LeaseHoldsLab
<1>1. ControlInit => HoldsLab
  <2> SUFFICES ASSUME ControlInit PROVE HoldsLab
    OBVIOUS
  <2>1. CallInv
    BY CallFromInit
  <2>2. \A q \in Request : ~Intending(q)
    BY DEF ControlInit, Intending, NoCall
  <2>3. \A r \in Run : ~Exposed(r)
    BY <2>1, ArmedStatus DEF ControlInit, CallInv, RunsGood, Good, Exposed
  <2> QED BY <2>2, <2>3 DEF HoldsLab
<1>2. ControlInv /\ HoldsLab /\ [ControlNext]_vars => HoldsLab'
  BY LabNext DEF ControlInv
<1>3. HoldsLab => LeaseHoldsLab
  BY DEF HoldsLab, LeaseHoldsLab, Keeps, Held
<1> QED BY <1>1, <1>2, <1>3, ControlInvHolds, PTL DEF ControlSpec

\* So no two runs are exposed at once: the lab is never shared.
THEOREM LabNeverShared ==
    ASSUME OneStart, ~LoadsFail
    PROVE  ControlSpec => []OneLiveRun
<1>1. LeaseHoldsLab => OneLiveRun
  BY DEF LeaseHoldsLab, OneLiveRun
<1> QED BY <1>1, LabHeld, PTL

\* No fault reaches the wrapper before the record says that it may.
THEOREM FaultsAnnounced == ControlSpec => []EveryFaultIsAnnounced
<1>1. ControlInv => EveryFaultIsAnnounced
  BY DEF ControlInv
<1> QED BY <1>1, ControlInvHolds, PTL

\* A run that completes ran its fault.
THEOREM CompletedRan == ControlSpec => []CompletedRanItsFault
<1>1. ControlInv => CompletedRanItsFault
  BY DEF ControlInv, CallInv, RunsGood, Good, Has, CompletedRanItsFault
<1> QED BY <1>1, ControlInvHolds, PTL

\* An abort that was answered is not forgotten.
THEOREM AbortsKept == ControlSpec => []AbortIsKept
<1>1. ControlInv => AbortIsKept
  <2> SUFFICES ASSUME ControlInv, NEW q \in told, asks[q].op = "abort"
               PROVE  run[Of(q)].abort /\ run[Of(q)].status \notin {"cooldown", "completed"}
    BY DEF AbortIsKept
  <2>1. Of(q) \in Run
    BY ControlAssumption DEF ControlInv, CallInv, CallTypes, Of
  <2>2. run[Of(q)].abort
    BY DEF ControlInv, CallInv, ToldGood
  <2> QED BY <2>1, <2>2 DEF ControlInv, CallInv, RunsGood, Good
<1> QED BY <1>1, ControlInvHolds, PTL

\* A settled action keeps its verdict.
THEOREM SettledStays == ControlSpec => SettledIsFinal
<1>1. ControlInv /\ [ControlNext]_vars =>
        [\A a \in Action : queue[a].status \in Settled
                             => queue'[a].status = queue[a].status]_vars
  BY QueueNext DEF ControlInv, QueueStep, RowStep
<1> QED BY <1>1, ControlInvHolds, PTL DEF ControlSpec, SettledIsFinal
=============================================================================
