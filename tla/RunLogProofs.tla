--------------------------- MODULE RunLogProofs -----------------------------
(***************************************************************************)
(* Proofs about the log of a run: for every set of requests, every expiry, *)
(* every cooldown and every clock.                                         *)
(***************************************************************************)
EXTENDS RunLog, TLAPS

-----------------------------------------------------------------------------
(***************************************************************************)
(* One snapshot.                                                           *)
(***************************************************************************)

\* The statuses in which the lab is as it was before the run: reached before
\* any activation, or after a recovery that was proven clean.
Quiet == {"draft", "preflight", "scheduled", "baseline", "armed"}
            \cup Terminal \cup {"cooldown"}

AfterAbort == {"aborting", "recovery", "failed", "aborted"}

\* What a snapshot says about itself that its successors need.
Sound(s) ==
    /\ s.status \in Quiet => ~s.faultOn /\ s.lease = 0
    /\ s.abort => s.status \in AfterAbort

\* A snapshot stays one under a typed update.
LEMMA StateUpdated ==
    ASSUME NEW s \in States, NEW to \in Statuses, NEW n \in Nat, NEW at \in 0..Horizon,
           NEW until \in Nat, NEW record \in Transitions
    PROVE  [s EXCEPT !.status = to, !.revision = n, !.updatedAt = at,
                     !.cooldownUntil = until, !.last = record] \in States
BY DEF States

\* What applyTransition leaves of a snapshot, whatever moved it.
LEMMA MovedState ==
    ASSUME NEW s \in States, NEW id \in Requests \cup (SystemNames \X Nat),
           NEW type \in EventTypes \cup SystemTypes, NEW at \in 0..Horizon,
           NEW to \in Statuses
    PROVE  LET moved == Moved(s, id, type, at, to)
           IN /\ moved \in States
              /\ moved.status = to /\ moved.revision = s.revision + 1
              /\ moved.last = [id |-> id, type |-> type, at |-> at]
              /\ moved.abort = s.abort /\ moved.lease = s.lease
              /\ moved.faultOn = s.faultOn
<1> DEFINE until == IF to = "cooldown" /\ s.status # "cooldown"
                    THEN at + CooldownBudget ELSE s.cooldownUntil
           record == [id |-> id, type |-> type, at |-> at]
           moved == Moved(s, id, type, at, to)
<1>1. until \in Nat
  BY RunAssumption DEF States
<1>2. record \in Transitions
  BY DEF Transitions
<1>3. s.revision + 1 \in Nat
  BY DEF States
<1>4. moved = [s EXCEPT !.status = to, !.revision = @ + 1, !.updatedAt = at,
                        !.cooldownUntil = until, !.last = record]
  BY DEF Moved
<1> HIDE DEF until, record, moved
<1>5. moved \in States
  BY <1>1, <1>2, <1>3, <1>4, StateUpdated
<1> QED BY <1>4, <1>5 DEF States, record, moved

\* What a step keeps: the count goes up by one, an abort stays, and a completed
\* run takes no step.
Follows(s, after) ==
    /\ after.revision = s.revision + 1
    /\ s.abort => after.abort
    /\ s.status # "completed"

LEMMA OrdinaryTarget ==
    ASSUME NEW from, NEW type, Leads(from, type) # {}
    PROVE  \E t \in Ordinary :
             /\ t[1] = from /\ t[2] = type
             /\ t[3] = (CHOOSE to \in Leads(from, type) : TRUE)
BY Zenon DEF Leads

LEMMA OrdinaryShape ==
    ASSUME NEW t \in Ordinary
    PROVE  /\ t[3] \in Statuses
           /\ t[1] \notin Terminal
           /\ t[3] # "aborting" /\ t[3] # "aborted"
           /\ t[3] = "cooldown" => t[2] = "recovery_succeeded"
           /\ t[2] = "recovery_succeeded" => t[3] = "cooldown"
           /\ t[3] \in Quiet => t[1] \in Quiet \/ t[2] = "recovery_succeeded"
           /\ t[2] \in Activations => t[3] \notin Quiet
           /\ t[2] = "recovery_failed" => t[3] = "failed"
           /\ t[1] \in AfterAbort /\ t[2] # "recovery_succeeded" => t[3] \in AfterAbort
BY SMTT(60) DEF Ordinary, Statuses, Terminal, Quiet, AfterAbort, Activations

\* What an accepted event makes of a snapshot.
LEMMA EventStep ==
    ASSUME NEW s \in States, NEW e \in Events, Accepts(s, e), Sound(s)
    PROVE  LET after == After(s, e)
           IN /\ after \in States
              /\ Sound(after)
              /\ Follows(s, after)
              /\ after.last = [id |-> e.id, type |-> e.type, at |-> e.at]
              /\ e.type \in Activations => after.lease = e.lease
<1> DEFINE to == Target(s, e)
           after == After(s, e)
<1>1. /\ e.id \in Requests /\ e.type \in EventTypes /\ e.at \in 0..Horizon
      /\ e.type \in Activations => e.lease \in 1..RunExpires
  BY DEF Events, EventTypes, Activations
<1>2. /\ to \in Statuses
      /\ s.status # "completed"
      /\ to \in Quiet => e.type = "recovery_succeeded" \/ s.status \in Quiet
      /\ to \in Quiet => e.type \notin Activations \cup {"recovery_failed"}
      /\ s.abort => to \in AfterAbort
      /\ e.type = "abort_requested" => to \in AfterAbort
  <2>1. CASE e.type = "abort_requested"
    BY <2>1, <1>1, RunAssumption
       DEF Target, Accepts, Abortable, TimeoutRecovery, Statuses, Quiet, AfterAbort,
           Terminal, Activations
  <2>2. CASE e.type # "abort_requested"
    <3>1. PICK t \in Ordinary :
            /\ t[1] = s.status /\ t[2] = e.type
            /\ t[3] = (CHOOSE x \in Leads(s.status, e.type) : TRUE)
      BY <2>2, OrdinaryTarget DEF Accepts
    <3>2. to = IF e.type = "recovery_succeeded" /\ s.abort THEN "aborted" ELSE t[3]
      BY <2>2, <3>1 DEF Target
    <3> QED
      BY <2>2, <3>1, <3>2, OrdinaryShape
         DEF Sound, Statuses, Quiet, AfterAbort, Terminal, Activations, States
  <2> QED BY <2>1, <2>2
<1> DEFINE moved == Moved(s, e.id, e.type, e.at, to)
           abort == s.abort \/ e.type = "abort_requested"
           lease == IF e.type \in Activations THEN e.lease
                    ELSE IF e.type = "recovery_succeeded" THEN 0 ELSE s.lease
           faultOn == /\ s.faultOn \/ e.type \in Activations \cup {"recovery_failed"}
                      /\ e.type # "recovery_succeeded"
<1>3. /\ moved \in States
      /\ moved.status = to /\ moved.revision = s.revision + 1
      /\ moved.last = [id |-> e.id, type |-> e.type, at |-> e.at]
      /\ moved.abort = s.abort /\ moved.lease = s.lease /\ moved.faultOn = s.faultOn
  BY <1>1, <1>2, MovedState
<1>4. after = [moved EXCEPT !.abort = abort, !.lease = lease, !.faultOn = faultOn]
  BY <1>3 DEF After
<1>5. abort \in BOOLEAN /\ lease \in 0..RunExpires /\ faultOn \in BOOLEAN
  BY <1>1, RunAssumption DEF States
<1> HIDE DEF moved, to, abort, lease, faultOn, after
<1>6. /\ after \in States
      /\ after.status = to
      /\ after.revision = s.revision + 1
      /\ after.last = [id |-> e.id, type |-> e.type, at |-> e.at]
      /\ after.abort = abort /\ after.lease = lease /\ after.faultOn = faultOn
  BY <1>3, <1>4, <1>5 DEF States
<1>7. Sound(after)
  BY <1>1, <1>2, <1>6 DEF Sound, States, Activations, abort, lease, faultOn
<1>8. Follows(s, after)
  BY <1>2, <1>6 DEF Follows, abort
<1> QED BY <1>6, <1>7, <1>8 DEF after, lease

\* What a passed deadline makes of a snapshot, and the id it carries.
LEMMA DeadlineStep ==
    ASSUME NEW s \in States, NEW now \in 0..Horizon, Due(s, now), Sound(s)
    PROVE  LET moved == Reconciled(s, now)
           IN /\ moved \in States
              /\ Sound(moved)
              /\ Follows(s, moved)
              /\ moved.last.at = now /\ moved.last.type \in SystemTypes
              /\ \/ moved.last.id = <<"resume", s.revision>>
                 \/ /\ moved.last.id \in {"cooldown"} \X Nat
                    /\ moved.status = "completed"
                 \/ /\ moved.last.id \in {"lease-over", "run-over"} \X Nat
                    /\ ~s.abort /\ moved.abort
<1> DEFINE moved == Reconciled(s, now)
<1>0. /\ s.revision \in Nat /\ s.cooldownUntil \in Nat /\ s.lease \in Nat
      /\ RunExpires \in Nat /\ s.abort \in BOOLEAN
  BY RunAssumption DEF States
<1>1. CASE s.status = "aborting"
  <2> DEFINE plain == Moved(s, <<"resume", s.revision>>, "system_resume_recovery",
                            now, "recovery")
  <2>1. <<"resume", s.revision>> \in SystemNames \X Nat
    BY <1>0 DEF SystemNames
  <2>2. /\ plain \in States
        /\ plain.status = "recovery" /\ plain.revision = s.revision + 1
        /\ plain.last = [id |-> <<"resume", s.revision>>,
                         type |-> "system_resume_recovery", at |-> now]
        /\ plain.abort = s.abort /\ plain.lease = s.lease /\ plain.faultOn = s.faultOn
    BY <2>1, MovedState DEF Statuses, SystemTypes
  <2>3. moved = [plain EXCEPT !.abort = TRUE]
    BY <1>1 DEF Reconciled
  <2> HIDE DEF plain, moved
  <2>4. /\ moved \in States
        /\ moved.status = "recovery" /\ moved.revision = s.revision + 1
        /\ moved.last = plain.last /\ moved.abort
    BY <2>2, <2>3 DEF States
  <2>5. Sound(moved)
    BY <2>4 DEF Sound, Quiet, AfterAbort, Terminal
  <2> QED BY <1>1, <2>2, <2>4, <2>5 DEF SystemTypes, Follows, moved
<1>2. CASE s.status = "cooldown"
  <2>1. <<"cooldown", s.cooldownUntil>> \in {"cooldown"} \X Nat
    BY <1>0
  <2>2. moved = Moved(s, <<"cooldown", s.cooldownUntil>>, "system_cooldown_complete",
                      now, "completed")
    BY <1>2 DEF Reconciled
  <2>3. <<"cooldown", s.cooldownUntil>> \in SystemNames \X Nat
    BY <1>0 DEF SystemNames
  <2>4. /\ moved \in States
        /\ moved.status = "completed" /\ moved.revision = s.revision + 1
        /\ moved.last = [id |-> <<"cooldown", s.cooldownUntil>>,
                         type |-> "system_cooldown_complete", at |-> now]
        /\ moved.abort = s.abort /\ moved.lease = s.lease /\ moved.faultOn = s.faultOn
    BY <2>2, <2>3, MovedState DEF Statuses, SystemTypes
  <2> HIDE DEF moved
  <2> QED
    BY <1>2, <2>1, <2>4 DEF Sound, Quiet, AfterAbort, Terminal, SystemTypes, Follows, moved
<1>3. CASE s.status \notin {"aborting", "cooldown"}
  <2> DEFINE id == IF LeaseOver(s, now) THEN <<"lease-over", s.lease>>
                                        ELSE <<"run-over", RunExpires>>
             plain == Moved(s, id, "system_timeout", now, "recovery")
  <2>1. /\ id \in {"lease-over", "run-over"} \X Nat
        /\ id \in SystemNames \X Nat
    BY <1>0 DEF SystemNames
  <2>2. s.status \in TimeoutRecovery
    BY <1>3 DEF Due, CooldownOver, TimedOut
  <2> HIDE DEF id
  <2>3. /\ plain \in States
        /\ plain.status = "recovery" /\ plain.revision = s.revision + 1
        /\ plain.last = [id |-> id, type |-> "system_timeout", at |-> now]
        /\ plain.abort = s.abort /\ plain.lease = s.lease /\ plain.faultOn = s.faultOn
    BY <2>1, MovedState DEF Statuses, SystemTypes
  <2>4. moved = [plain EXCEPT !.abort = TRUE]
    BY <1>3 DEF Reconciled, id
  <2> HIDE DEF plain, moved
  <2>5. ~s.abort /\ s.status # "completed"
    BY <1>0, <2>2 DEF Sound, AfterAbort, TimeoutRecovery
  <2>6. /\ moved \in States
        /\ moved.status = "recovery" /\ moved.revision = s.revision + 1
        /\ moved.last = plain.last /\ moved.abort
    BY <2>3, <2>4 DEF States
  <2>7. Sound(moved)
    BY <2>6 DEF Sound, Quiet, AfterAbort, Terminal
  <2> QED BY <2>1, <2>3, <2>5, <2>6, <2>7 DEF SystemTypes, Follows, moved
<1> QED BY <1>1, <1>2, <1>3

\* The event rebuilt from the snapshot it made is the event.
LEMMA RebuiltEvent ==
    ASSUME NEW s \in States, NEW e \in Events, Accepts(s, e), Sound(s)
    PROVE  Reproduces(s, After(s, e))
<1> DEFINE after == After(s, e)
<1>1. /\ after.last = [id |-> e.id, type |-> e.type, at |-> e.at]
      /\ e.type \in Activations => after.lease = e.lease
  BY EventStep
<1>2. /\ e = [id |-> e.id, type |-> e.type, at |-> e.at, lease |-> e.lease]
      /\ e.type \notin Activations => e.lease = 0
      /\ e.type \notin SystemTypes
  <2>1. CASE e \in [id : Requests, type : EventTypes \ Activations, at : 0..Horizon, lease : {0}]
    BY <2>1 DEF EventTypes, SystemTypes
  <2>2. CASE e \in [id : Requests, type : Activations, at : 0..Horizon, lease : 1..RunExpires]
    BY <2>2 DEF Activations, SystemTypes
  <2> QED BY <2>1, <2>2 DEF Events
<1> HIDE DEF after
<1>3. /\ after.last.id = e.id /\ after.last.type = e.type /\ after.last.at = e.at
      /\ (IF after.last.type \in Activations THEN after.lease ELSE 0) = e.lease
  BY <1>1, <1>2
<1>4. Rebuilt(after) = [id |-> e.id, type |-> e.type, at |-> e.at, lease |-> e.lease]
  BY <1>3 DEF Rebuilt
<1>5. Rebuilt(after) = e
  BY <1>2, <1>4
<1> QED BY <1>2, <1>3, <1>5 DEF Reproduces, after

\* A deadline is taken again at the time on its record.
LEMMA RebuiltDeadline ==
    ASSUME NEW s \in States, NEW now \in 0..Horizon, now >= s.updatedAt,
           Due(s, now), Sound(s)
    PROVE  Reproduces(s, Reconciled(s, now))
<1> DEFINE moved == Reconciled(s, now)
<1>1. moved.last.at = now /\ moved.last.type \in SystemTypes
  BY DeadlineStep
<1>2. Reconciled(s, now) = moved
  OBVIOUS
<1> HIDE DEF moved
<1>3. Reproduces(s, moved)
  BY <1>1, <1>2 DEF Reproduces
<1> QED BY <1>3 DEF moved

-----------------------------------------------------------------------------
(***************************************************************************)
(* The log.                                                                *)
(***************************************************************************)

\* An id made from a deadline tells where on the log it may be: the resumed
\* abort behind the revision it names, the end of a cooldown only on a run that
\* has completed, and a timeout only on a run that is to be aborted.
NamesPlace(id, i, newest) ==
    /\ \A n \in Nat : id = <<"resume", n>> => i = n + 2
    /\ id \in {"cooldown"} \X Nat => newest.status = "completed"
    /\ id \in {"lease-over", "run-over"} \X Nat => newest.abort

LogInv ==
    /\ audit \in Seq(States)
    /\ audit # <<>> => audit[1] = Created
    /\ \A i \in DOMAIN audit :
         Sound(audit[i]) /\ audit[i].revision = i - 1 /\ NamesPlace(audit[i].last.id, i, Newest)
    /\ \A i \in DOMAIN audit \ {1} : Reproduces(audit[i - 1], audit[i])
    /\ \A i, j \in DOMAIN audit : audit[i].last.id = audit[j].last.id => i = j

\* One more snapshot that follows from the newest and brings an id of its own.
LEMMA LogGrows ==
    ASSUME LogInv, audit # <<>>, NEW s \in States, audit' = Append(audit, s),
           Sound(s), Follows(Newest, s), Reproduces(Newest, s),
           ~OnLog(s.last.id), NamesPlace(s.last.id, s.revision + 1, s)
    PROVE  LogInv'
<1> DEFINE n == Len(audit)
<1>1. /\ n \in Nat \ {0} /\ DOMAIN audit = 1..n /\ Newest = audit[n] /\ audit[n] \in States
      /\ audit \in Seq(States)
  BY DEF LogInv, Newest
<1>2. /\ audit' \in Seq(States) /\ DOMAIN audit' = 1..(n + 1)
      /\ audit'[n + 1] = s /\ \A i \in 1..n : audit'[i] = audit[i]
      /\ Newest' = s
  BY <1>1 DEF Newest
<1>3. audit' # <<>> => audit'[1] = Created
  BY <1>1, <1>2 DEF LogInv
<1>4. ASSUME NEW i \in DOMAIN audit'
      PROVE  Sound(audit'[i]) /\ audit'[i].revision = i - 1
               /\ NamesPlace(audit'[i].last.id, i, Newest')
  <2>1. CASE i = n + 1
    <3>1. audit'[i] = s /\ s.revision = n /\ i = s.revision + 1
      BY <2>1, <1>1, <1>2 DEF LogInv, Follows
    <3> QED BY <3>1, <1>1, <1>2
  <2>2. CASE i \in 1..n
    <3>1. Sound(audit[i]) /\ audit[i].revision = i - 1 /\ NamesPlace(audit[i].last.id, i, Newest)
      BY <1>1, <2>2 DEF LogInv
    <3>2. NamesPlace(audit[i].last.id, i, s)
      BY <3>1 DEF NamesPlace, Follows
    <3> QED BY <3>1, <3>2, <2>2, <1>1, <1>2
  <2> QED BY <1>2, <2>1, <2>2
<1>5. ASSUME NEW i \in DOMAIN audit' \ {1}
      PROVE  Reproduces(audit'[i - 1], audit'[i])
  BY <1>1, <1>2 DEF LogInv
<1>6. ASSUME NEW i \in DOMAIN audit', NEW j \in DOMAIN audit', audit'[i].last.id = audit'[j].last.id
      PROVE  i = j
  BY <1>1, <1>2, <1>6 DEF LogInv, OnLog
<1> QED BY <1>2, <1>3, <1>4, <1>5, <1>6 DEF LogInv

LEMMA LogStarts == LogInit => LogInv
BY DEF LogInit, LogInv

LEMMA CreatedIsAState == Created \in States /\ Sound(Created)
<1>1. <<"create", 0>> \in SystemNames \X Nat
  BY DEF SystemNames
<1>2. [id |-> <<"create", 0>>, type |-> "run_created", at |-> 0] \in Transitions
  BY <1>1, RunAssumption DEF Transitions
<1> QED BY <1>2, RunAssumption DEF Created, States, Statuses, Sound, Quiet

LEMMA LogKept == LogInv /\ [LogNext]_audit => LogInv'
<1> SUFFICES ASSUME LogInv, [LogNext]_audit PROVE LogInv'
  OBVIOUS
<1>1. CASE LogCreate
  <2>1. audit' = <<Created>> /\ audit' \in Seq(States) /\ DOMAIN audit' = {1} /\ audit'[1] = Created
    BY <1>1, CreatedIsAState DEF LogCreate
  <2>2. NamesPlace(Created.last.id, 1, Created)
    BY DEF NamesPlace, Created
  <2>3. Sound(Created) /\ Created.revision = 0 /\ Newest' = Created
    BY <2>1, CreatedIsAState DEF Created, Newest
  <2> QED BY <2>1, <2>2, <2>3 DEF LogInv
<1>2. CASE LogEvent
  <2>1. PICK e \in Events :
          ~OnLog(e.id) /\ Accepts(Newest, e) /\ audit' = Append(audit, After(Newest, e))
    BY <1>2 DEF LogEvent
  <2>2. audit # <<>> /\ Newest \in States /\ Sound(Newest)
    BY <1>2 DEF LogEvent, LogInv, Newest
  <2>3. PICK before \in States : before = Newest
    BY <2>2
  <2> DEFINE after == After(before, e)
  <2>4. e.id \in Requests /\ e.id \notin SystemNames \X Nat
    BY RunAssumption DEF Events
  <2>5. /\ \A m \in Nat : e.id # <<"resume", m>>
        /\ e.id \notin {"cooldown"} \X Nat
        /\ e.id \notin {"lease-over", "run-over"} \X Nat
    BY <2>4 DEF SystemNames
  <2>6. Accepts(before, e) /\ Sound(before)
    BY <2>1, <2>2, <2>3
  <2>7. /\ after \in States /\ Sound(after) /\ Follows(before, after)
        /\ after.last = [id |-> e.id, type |-> e.type, at |-> e.at]
    BY <2>6, EventStep
  <2>8. after.last.id = e.id
    BY <2>7
  <2>9. NamesPlace(after.last.id, after.revision + 1, after)
    BY <2>5, <2>8 DEF NamesPlace
  <2>10. Reproduces(before, after)
    BY <2>6, RebuiltEvent
  <2>11. audit' = Append(audit, after)
    BY <2>1, <2>3
  <2> HIDE DEF after
  <2> QED BY <2>1, <2>2, <2>3, <2>7, <2>8, <2>9, <2>10, <2>11, LogGrows
<1>3. CASE LogDeadline
  <2>1. PICK now \in 0..Horizon :
          /\ now >= Newest.updatedAt /\ Due(Newest, now)
          /\ audit' = Append(audit, Reconciled(Newest, now))
    BY <1>3 DEF LogDeadline
  <2>2. audit # <<>> /\ Newest \in States /\ Sound(Newest) /\ Newest = audit[Len(audit)]
    BY <1>3 DEF LogDeadline, LogInv, Newest
  <2> DEFINE s == Reconciled(Newest, now)
  <2>3. /\ s \in States /\ Sound(s) /\ Follows(Newest, s)
        /\ \/ s.last.id = <<"resume", Newest.revision>>
           \/ s.last.id \in {"cooldown"} \X Nat /\ s.status = "completed"
           \/ /\ s.last.id \in {"lease-over", "run-over"} \X Nat
              /\ ~Newest.abort /\ s.abort
    BY <2>1, <2>2, DeadlineStep
  <2>4. Reproduces(Newest, s)
    BY <2>1, <2>2, RebuiltDeadline
  <2> HIDE DEF s
  <2>5. ~OnLog(s.last.id)
    <3>1. ASSUME NEW i \in DOMAIN audit, audit[i].last.id = s.last.id PROVE FALSE
      <4>1. NamesPlace(audit[i].last.id, i, Newest) /\ i <= Len(audit) /\ Newest.revision = Len(audit) - 1
        BY <2>2 DEF LogInv
      <4> QED BY <2>2, <2>3, <3>1, <4>1 DEF NamesPlace, Follows, States
    <3> QED BY <3>1 DEF OnLog
  <2>6. NamesPlace(s.last.id, s.revision + 1, s)
    BY <2>2, <2>3 DEF NamesPlace, Follows, States
  <2> QED BY <2>1, <2>2, <2>3, <2>4, <2>5, <2>6, LogGrows DEF s
<1>4. CASE UNCHANGED audit
  BY <1>4 DEF LogInv, Newest
<1> QED BY <1>1, <1>2, <1>3, <1>4 DEF LogNext

\* The log of a run keeps what it is: a sequence of snapshots, numbered by
\* revision, each made from the one before it, each by an id of its own.
THEOREM LogInvariant == LogSpec => []LogInv
BY LogStarts, LogKept, PTL DEF LogSpec

\* However the events of a run and its deadlines follow on one another, a run
\* that is over or rests says of itself that no fault is on.
THEOREM LogLeavesNoFault == LogSpec => []NoFaultLeftBehind
<1>1. LogInv => NoFaultLeftBehind
  BY DEF LogInv, NoFaultLeftBehind, Sound, Quiet
<1> QED BY <1>1, LogInvariant, PTL

\* However many events follow, an abort once asked for is carried out.
THEOREM LogKeepsAborts == LogSpec => []AbortSticks
<1>1. LogInv => AbortSticks
  BY DEF LogInv, AbortSticks, Sound, AfterAbort
<1> QED BY <1>1, LogInvariant, PTL

\* However long the log, its replay reproduces every record of it.
THEOREM LogReplays == LogSpec => []CanBeReplayed
<1>1. LogInv => CanBeReplayed
  BY DEF LogInv, CanBeReplayed
<1> QED BY <1>1, LogInvariant, PTL
=============================================================================
