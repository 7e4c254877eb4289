---------------------------- MODULE LiveControl -----------------------------
(***************************************************************************)
(* Live runs on one lab: the operations of simulationControl.service.ts    *)
(* that start, abort and recover a run, the lock of the lab they take, the *)
(* queue of scheduled actions, the dispatcher that performs them and the   *)
(* executor that submits commands to the fault wrapper.  Of the wrapper it *)
(* is only assumed that it answers a command, or does not, and that probes *)
(* find the lab clean, or do not: FaultWrapper says when.                  *)
(*                                                                         *)
(* Each await that another call can come between is a step.  The store of  *)
(* a run is one step here: RunStore has its awaits, and shows that an      *)
(* event which was answered is on record.  A run is armed when it appears; *)
(* its times are counted from its creation.                                *)
(***************************************************************************)
EXTENDS Naturals, FiniteSets

CONSTANTS
    None,
    Run, born,        \* [Run -> Nat]: when each run is created
    Operator,         \* actors that make requests
    Request,          \* idempotency keys
    asks,             \* [Request -> what it is for]
    Action, actionOf, \* scheduled actions; [Action -> the row enqueued for it]
    ActivateBy,       \* activationDeadlineMs
    FaultEnd,         \* maxHostFaultEndOffsetMs
    RunExpires, CooldownBudget,
    ActionLease,      \* LEASE_MS of the dispatcher
    Callings,         \* bound: how many calls are made with each key, [Request -> Nat]
    LoadsFail,        \* fault: a store that fails a load is taken for no run
    MaxCrashes,       \* bound: deaths of the process
    Horizon           \* bound of the clock

Suffixes == {"begin-activation", "activate", "abort", "recovery", "begin",
             "recovered", "recovery-failed", "observe"}

EventIds == (Request \cup Run) \X Suffixes

INSTANCE RunState WITH Live <- TRUE, Requests <- EventIds
INSTANCE LiveRunLock WITH LockLease <- RunExpires

\* A planned end is an action whose work is a request of its own.
Planned(a) == actionOf[a].op = "end"

ASSUME ControlAssumption ==
    /\ born \in [Run -> Nat]
    /\ asks \in [Request -> [op : {"start", "abort", "recover"}, run : Run,
                             by : Operator]]
    /\ actionOf \in [Action -> [run : Run, op : {"apply", "clear", "end"},
                                offset : 1..(FaultEnd - 1), maxAttempts : Nat \ {0},
                                request : Request \cup {None}]]
    /\ Horizon \in Nat /\ CooldownBudget \in Nat \ {0} /\ RunExpires \in Nat \ {0}
    /\ ActivateBy \in Nat /\ FaultEnd \in Nat \ {0}
    /\ ActionLease \in Nat \ {0}
    /\ ActivateBy + FaultEnd <= RunExpires
    /\ Callings \subseteq [Request -> Nat] /\ MaxCrashes \in Nat
    /\ LoadsFail \in BOOLEAN
    /\ None \notin Request \cup Action
    /\ Run \cap Action = {}
    /\ \A a \in Action : Planned(a) <=> actionOf[a].request # None

\* What puts a fault into the lab: the immediate fault of a run, an action.
Faults == Run \cup {a \in Action : actionOf[a].op = "apply"}
RunOf(f) == IF f \in Run THEN f ELSE actionOf[f].run

VARIABLES
    now,
    run,       \* [Run -> the projection]
    record,    \* [Run -> ids of the events on its audit]
    lock,      \* the row of the lab's lock
    queue,     \* [Action -> its row, status "none" while it is not enqueued]
    accepted,  \* [Request -> acceptedAtMs once claimed; a live start ignores it]
    call,      \* [Request -> the call being served for it]
    left,      \* [Request -> calls that will still be made]
    told,      \* requests answered without an error
    worker,    \* the dispatcher
    crashes,
    submitted  \* faults handed to the wrapper

stateVars == <<run, record>>
callVars == <<accepted, call, left, told>>
vars == <<now, stateVars, lock, queue, callVars, worker, crashes, submitted>>

Of(q) == asks[q].run
Clock(r) == now - born[r]

\* Idle, or the await the call is at: `from` is activationAtMs, `mine` tells
\* whether this call wrote the lock, `clean` is what its probes saw.
NoCall == [at |-> "idle", from |-> 0, mine |-> FALSE, clean |-> FALSE]

CallStages == {"idle", "lock", "relock", "intent", "giveback", "apply", "await",
               "enqueue", "activate", "ask", "begin", "cancel", "probe",
               "record", "release"}

WorkerStages == {"idle", "claim", "look", "plan", "end", "hand", "await", "settle"}

Settled == {"succeeded", "failed", "compensated", "expired"}

NoWork == [at |-> "idle", action |-> None, verdict |-> "none"]
NoRow == [status |-> "none", due |-> 0, until |-> 0, attempts |-> 0]

\* The revision and the last transition are RunStore's business.
Plain(s) == [s EXCEPT !.revision = 0, !.last = Created.last]

Armed == [Plain(Created) EXCEPT !.status = "armed"]

ControlInit ==
    /\ now = 0
    /\ run = [r \in Run |-> Armed]
    /\ record = [r \in Run |-> {}]
    /\ lock = Free
    /\ queue = [a \in Action |-> NoRow]
    /\ accepted = [q \in Request |-> None]
    /\ call = [q \in Request |-> NoCall]
    /\ left \in Callings
    /\ told = {}
    /\ worker = NoWork
    /\ crashes = 0
    /\ submitted = {}

-----------------------------------------------------------------------------
\* transitionRun: an event on record is answered again, with the run as it is
\* now.  An id is used for one event: one call at a time is served for a key.
Takes(r, e) == e.id \in record[r] \/ Accepts(run[r], e)

Moves(r, e) ==
    /\ Takes(r, e)
    /\ run' = IF e.id \in record[r] THEN run ELSE [run EXCEPT ![r] = Plain(After(run[r], e))]
    /\ record' = [record EXCEPT ![r] = @ \cup {e.id}]

Event(key, suffix, type, at) ==
    [id |-> <<key, suffix>>, type |-> type, at |-> at, lease |-> 0]

\* eventFor: the time of an event is that of the request, however late it runs.
EventFor(q, suffix, type) == Event(q, suffix, type, accepted[q])

BeginActivation(q) ==
    [Event(q, "begin-activation", "begin_activation", call[q].from)
        EXCEPT !.lease = call[q].from + FaultEnd]

ActivateFault(q) ==
    [Event(q, "activate", "activate_fault", Clock(Of(q)))
        EXCEPT !.lease = call[q].from + FaultEnd]

Goto(q, stage) ==
    /\ call' = [call EXCEPT ![q].at = stage]
    /\ UNCHANGED <<accepted, left, told>>

Answers(q) ==
    /\ call' = [call EXCEPT ![q] = NoCall]
    /\ told' = told \cup {q}
    /\ UNCHANGED <<accepted, left>>

Fails(q) ==
    /\ call' = [call EXCEPT ![q] = NoCall]
    /\ UNCHANGED <<accepted, left, told>>

\* claim, then loadRun: what follows is decided from the run as it is now.
Arrives(q, stage) ==
    /\ call[q].at = "idle" /\ left[q] > 0 /\ born[Of(q)] <= now
    /\ left' = [left EXCEPT ![q] = @ - 1]
    /\ accepted' = IF accepted[q] # None \/ asks[q].op = "start" THEN accepted
                   ELSE [accepted EXCEPT ![q] = Clock(Of(q))]
    /\ call' = [call EXCEPT ![q] =
                  IF stage \in {"told", "refused"} THEN NoCall
                  ELSE [NoCall EXCEPT !.at = stage,
                          !.from = IF stage = "lock" THEN Clock(Of(q))
                                   ELSE IF stage = "relock" THEN run[Of(q)].updatedAt
                                   ELSE 0]]
    /\ told' = IF stage = "told" THEN told \cup {q} ELSE told
    /\ UNCHANGED <<now, stateVars, lock, queue, crashes, submitted>>

-----------------------------------------------------------------------------
\* start, as far as it only reads.  What refuses an armed run besides its
\* deadline, a target that moved or a DKG window, refuses it before any write.
StartArrives(q) ==
    LET r == Of(q)
        s == run[r]
        own == <<q, "begin-activation">> \in record[r]
        stage == IF s.status = "armed"
                 THEN IF Clock(r) <= ActivateBy THEN "lock" ELSE "refused"
                 ELSE IF s.status = "activation_pending"
                 THEN IF own /\ Clock(r) < s.lease THEN "relock" ELSE "refused"
                 ELSE IF <<q, "activate">> \in record[r] THEN "told" ELSE "refused"
    IN /\ asks[q].op = "start"
       /\ Arrives(q, stage)
       /\ UNCHANGED worker

\* acquireLiveRunLock, for a first attempt and for one that is resumed.
Acquires(q) ==
    LET r == Of(q)
        o == asks[q].by
    IN /\ call[q].at \in {"lock", "relock"}
       /\ IF MayAcquire(lock, now, r, o)
          THEN /\ lock' = Acquired(lock, now, r, o)
               /\ call' = [call EXCEPT ![q].at = IF @ = "lock" THEN "intent" ELSE "apply",
                                       ![q].mine = CreatedHere(lock, now)]
               /\ UNCHANGED <<accepted, left, told>>
          ELSE Fails(q) /\ UNCHANGED lock
       /\ UNCHANGED <<now, stateVars, queue, worker, crashes, submitted>>

\* mutant: a refused intent does not stop the start
Intends_GoesOn(q) ==
    LET r == Of(q)
        e == BeginActivation(q)
    IN /\ call[q].at = "intent"
       /\ \/ Moves(r, e)
          \/ ~Takes(r, e) /\ UNCHANGED stateVars
       /\ Goto(q, "apply")
       /\ UNCHANGED <<now, lock, queue, worker, crashes, submitted>>

\* The durable intent.  Only the attempt that wrote the lock gives it back.
Intends(q) ==
    LET r == Of(q)
        e == BeginActivation(q)
    IN /\ call[q].at = "intent"
       /\ \/ Moves(r, e) /\ Goto(q, "apply")
          \/ /\ ~Takes(r, e) /\ UNCHANGED stateVars
             /\ IF call[q].mine THEN Goto(q, "giveback") ELSE Fails(q)
       /\ UNCHANGED <<now, lock, queue, worker, crashes, submitted>>

\* releaseLiveRunLock, best effort: the write may fail unnoticed.
GivesBack(q) ==
    /\ call[q].at = "giveback"
    /\ lock' \in {ReleasedForRun(lock, Of(q)), lock}
    /\ Fails(q)
    /\ UNCHANGED <<now, stateVars, queue, worker, crashes, submitted>>

\* activateFault: every container is checked before the command is queued.
Applies(q) ==
    /\ call[q].at = "apply"
    /\ \/ submitted' = submitted \cup {Of(q)} /\ Goto(q, "await")
       \/ Fails(q) /\ UNCHANGED submitted
    /\ UNCHANGED <<now, stateVars, lock, queue, worker, crashes>>

\* awaitOutcomes: refused, or silent for outcomeTimeoutMs, is not applied.
AwaitsApply(q) ==
    /\ call[q].at = "await"
    /\ Goto(q, "enqueue") \/ Fails(q)
    /\ UNCHANGED <<now, stateVars, lock, queue, worker, crashes, submitted>>

\* Absolute instants of a row: when it is due, when its run's lease ends.
DueAt(a) == born[actionOf[a].run] + queue[a].due
ExpiresAt(a) == DueAt(a) - actionOf[a].offset + FaultEnd

\* mutant: a schedule that is written again starts over
Enqueues_Resets(q) ==
    /\ call[q].at = "enqueue"
    /\ queue' = [a \in Action |->
                   IF actionOf[a].run = Of(q)
                   THEN [NoRow EXCEPT !.status = "pending",
                                      !.due = call[q].from + actionOf[a].offset]
                   ELSE queue[a]]
    /\ Goto(q, "activate")
    /\ UNCHANGED <<now, stateVars, lock, worker, crashes, submitted>>

\* enqueue of scheduledActionRowsFor: $setOnInsert, a row is written once.
Enqueues(q) ==
    /\ call[q].at = "enqueue"
    /\ queue' = [a \in Action |->
                   IF actionOf[a].run = Of(q) /\ queue[a].status = "none"
                   THEN [NoRow EXCEPT !.status = "pending",
                                      !.due = call[q].from + actionOf[a].offset]
                   ELSE queue[a]]
    /\ Goto(q, "activate")
    /\ UNCHANGED <<now, stateVars, lock, worker, crashes, submitted>>

\* The fault is on: the run says so, unless it has moved on meanwhile.
Activates(q) ==
    LET r == Of(q)
        e == ActivateFault(q)
    IN /\ call[q].at = "activate"
       /\ \/ Moves(r, e) /\ Answers(q)
          \/ ~Takes(r, e) /\ Fails(q) /\ UNCHANGED stateVars
       /\ UNCHANGED <<now, lock, queue, worker, crashes, submitted>>

-----------------------------------------------------------------------------
\* mutant: an abort that finds the run in recovery joins it without a word
AbortStage_Joins(s) ==
    IF s.status = "aborted" THEN "told"
    ELSE IF s.status \in {"rejected", "completed", "failed"} THEN "refused"
    ELSE IF s.status = "recovery" THEN "cancel"
    ELSE IF ~s.abort THEN "ask"
    ELSE IF s.status = "aborting" THEN "begin" ELSE "cancel"

\* abort and recover, as far as they only read.
AbortStage(s) ==
    IF s.status = "aborted" THEN "told"
    ELSE IF s.status \in {"rejected", "completed", "failed"} THEN "refused"
    ELSE IF ~s.abort THEN "ask"
    ELSE IF s.status = "aborting" THEN "begin" ELSE "cancel"

\* mutant: a run that was never started is recovered like one that was
RecoverStage_NoIntent(q, s) ==
    IF s.status = "recovery" THEN "cancel"
    ELSE IF {<<q, "recovered">>, <<q, "recovery-failed">>} \cap record[Of(q)] # {} THEN "told"
    ELSE IF s.status \in {"armed", "activation_pending", "fault_active", "observing",
                          "aborting", "failed"} THEN "begin"
    ELSE "refused"

\* Recovering a run that never executed is an abort, not a completion.
RecoverStage(q, s) ==
    IF s.status = "recovery" THEN "cancel"
    ELSE IF {<<q, "recovered">>, <<q, "recovery-failed">>} \cap record[Of(q)] # {} THEN "told"
    ELSE IF s.status \in {"armed", "activation_pending"} /\ ~s.abort THEN "ask"
    ELSE IF s.status \in {"armed", "activation_pending", "fault_active", "observing",
                          "aborting", "failed"} THEN "begin"
    ELSE "refused"

EndArrives(q) ==
    \/ asks[q].op = "abort" /\ Arrives(q, AbortStage(run[Of(q)]))
    \/ asks[q].op = "recover" /\ Arrives(q, RecoverStage(q, run[Of(q)]))

\* Requests of operators; those of planned ends are the dispatcher's.
OperatorAsks(q) ==
    /\ \A a \in Action : actionOf[a].request # q
    /\ EndArrives(q)
    /\ UNCHANGED worker

\* The intent to abort; an abort goes on from the run it gets back.
Asks(q) ==
    LET r == Of(q)
        e == EventFor(q, "abort", "abort_requested")
    IN /\ call[q].at = "ask"
       /\ \/ /\ Moves(r, e)
             /\ Goto(q, IF asks[q].op = "recover" \/ run'[r].status = "aborting"
                        THEN "begin" ELSE "cancel")
          \/ ~Takes(r, e) /\ Fails(q) /\ UNCHANGED stateVars
       /\ UNCHANGED <<now, lock, queue, worker, crashes, submitted>>

BeginsRecovery(q) ==
    LET r == Of(q)
        e == EventFor(q, IF asks[q].op = "abort" THEN "recovery" ELSE "begin",
                      "begin_recovery")
    IN /\ call[q].at = "begin"
       /\ \/ Moves(r, e) /\ Goto(q, "cancel")
          \/ ~Takes(r, e) /\ Fails(q) /\ UNCHANGED stateVars
       /\ UNCHANGED <<now, lock, queue, worker, crashes, submitted>>

\* cancelPending, and the clears that proveRecovery submits.
Cancels(q) ==
    /\ call[q].at = "cancel"
    /\ queue' = [a \in Action |->
                   IF actionOf[a].run = Of(q) /\ queue[a].status = "pending"
                   THEN [queue[a] EXCEPT !.status = "compensated"] ELSE queue[a]]
    /\ Goto(q, "probe")
    /\ UNCHANGED <<now, stateVars, lock, worker, crashes, submitted>>

\* waitForRecovered and probeTarget: the lab is clean, or it is not, or cannot
\* be seen.
Probes(q) ==
    /\ call[q].at = "probe"
    /\ \E clean \in BOOLEAN :
          call' = [call EXCEPT ![q].at = "record", ![q].clean = clean]
    /\ UNCHANGED <<now, stateVars, lock, queue, accepted, left, told, worker, crashes, submitted>>

\* recordRecoveryResult with recoveryOutcomeEventFor.
Records(q) ==
    LET r == Of(q)
        e == IF call[q].clean
             THEN EventFor(q, "recovered", "recovery_succeeded")
             ELSE EventFor(q, "recovery-failed", "recovery_failed")
    IN /\ call[q].at = "record"
       /\ \/ /\ Moves(r, e)
             /\ IF call[q].clean THEN Goto(q, "release") ELSE Answers(q)
          \/ ~Takes(r, e) /\ Fails(q) /\ UNCHANGED stateVars
       /\ UNCHANGED <<now, lock, queue, worker, crashes, submitted>>

Releases(q) ==
    /\ call[q].at = "release"
    /\ lock' \in {ReleasedForRun(lock, Of(q)), lock}
    /\ Answers(q)
    /\ UNCHANGED <<now, stateVars, queue, worker, crashes, submitted>>

\* mutant: the lab is given back whatever the run is doing
ForceReleases_Anytime(r) ==
    /\ lock.held /\ lock.run = r
    /\ lock' = Free
    /\ UNCHANGED <<now, stateVars, queue, callVars, worker, crashes, submitted>>

\* forceReleaseLiveLock: refused while the run is live; "loadRun(...).catch(() =>
\* null)" lets a run pass that could not be loaded.
ForceReleases(r) ==
    /\ lock.held /\ lock.run = r
    /\ run[r].status \in (IF LoadsFail THEN Statuses ELSE Terminal)
    /\ lock' = Free
    /\ UNCHANGED <<now, stateVars, queue, callVars, worker, crashes, submitted>>

-----------------------------------------------------------------------------
\* reconcilePersistedSimulationRun, for a run that the sweep's filter finds.
Sweeps(r) ==
    /\ born[r] <= now
    /\ Reconcilable(run[r], Clock(r)) /\ Due(run[r], Clock(r))
    /\ run' = [run EXCEPT ![r] = Plain(Reconciled(@, Clock(r)))]
    /\ UNCHANGED <<now, record, lock, queue, callVars, worker, crashes, submitted>>

\* openObservationWindows, once the chain has grown past the warm-up.
Observes(r) ==
    /\ run[r].status = "fault_active"
    /\ Moves(r, Event(r, "observe", "begin_observation", Clock(r)))
    /\ UNCHANGED <<now, lock, queue, callVars, worker, crashes, submitted>>

-----------------------------------------------------------------------------
Work(stage, a, verdict) == worker' = [at |-> stage, action |-> a, verdict |-> verdict]

\* mutant: a worker that died is waited for, for ever
Overdue_OnlyPending(a) == queue[a].status = "pending" /\ ExpiresAt(a) <= now

\* expireOverdueFilter: the window has closed, or the last attempt has lapsed.
Overdue(a) ==
    LET row == queue[a]
    IN \/ row.status \in {"pending", "claimed"} /\ ExpiresAt(a) <= now
       \/ row.status = "claimed" /\ row.until <= now /\ row.attempts >= actionOf[a].maxAttempts

\* mutant: an action may be tried for as long as its window is open
Claimable_NoCeiling(a) ==
    LET row == queue[a]
    IN /\ now < ExpiresAt(a) /\ DueAt(a) <= now
       /\ row.status = "pending" \/ (row.status = "claimed" /\ row.until <= now)

\* claimableActionFilter.
Claimable(a) ==
    LET row == queue[a]
    IN /\ now < ExpiresAt(a) /\ DueAt(a) <= now
       /\ row.status = "pending" \/ (row.status = "claimed" /\ row.until <= now)
       /\ row.attempts < actionOf[a].maxAttempts

\* tick, one at a time: first what can no longer make progress is retired.  A
\* tick that finds no action waiting changes nothing.
Ticks ==
    /\ worker.at = "idle"
    /\ \E a \in Action : queue[a].status \in {"pending", "claimed"}
    /\ queue' = [a \in Action |->
                   IF Overdue(a) THEN [queue[a] EXCEPT !.status = "expired", !.until = 0]
                   ELSE queue[a]]
    /\ Work("claim", None, "none")
    /\ UNCHANGED <<now, stateVars, lock, callVars, crashes, submitted>>

\* claimDue: the earliest due, taken for ActionLease.
Claims ==
    /\ worker.at = "claim"
    /\ IF \E a \in Action : Claimable(a)
       THEN \E a \in Action :
              /\ Claimable(a)
              /\ \A b \in Action : Claimable(b) => DueAt(a) <= DueAt(b)
              /\ queue' = [queue EXCEPT ![a].status = "claimed",
                                        ![a].until = now + ActionLease,
                                        ![a].attempts = @ + 1]
              /\ Work("look", a, "none")
       ELSE worker' = NoWork /\ UNCHANGED queue
    /\ UNCHANGED <<now, stateVars, lock, callVars, crashes, submitted>>

\* perform: the run is read, and the rest goes by what was read.
Looks ==
    LET a == worker.action
        s == run[actionOf[a].run]
    IN /\ worker.at = "look"
       /\ IF \/ s.status \notin {"fault_active", "observing"}
             \/ s.lease <= Clock(actionOf[a].run)
          THEN Work("settle", a, "compensated")
          ELSE Work(IF Planned(a) THEN "plan" ELSE "hand", a, "none")
       /\ UNCHANGED <<now, stateVars, lock, queue, callVars, crashes, submitted>>

\* plannedEnd: the dispatcher recovers the run, as the system.
PlannedEnds ==
    /\ worker.at = "plan"
    /\ EndArrives(actionOf[worker.action].request)
    /\ Work("end", worker.action, "none")

\* The recovery has returned or thrown.
PlannedEnded ==
    LET q == actionOf[worker.action].request
    IN /\ worker.at = "end"
       /\ call[q].at = "idle"
       /\ Work("settle", worker.action, IF q \in told THEN "succeeded" ELSE "failed")
       /\ UNCHANGED <<now, stateVars, lock, queue, callVars, crashes, submitted>>

\* dispatchScheduledAction: the plan is read and the container checked.
HandsOver ==
    LET a == worker.action
    IN /\ worker.at = "hand"
       /\ \/ submitted' = submitted \cup ({a} \cap Faults) /\ Work("await", a, "none")
          \/ Work("settle", a, "failed") /\ UNCHANGED submitted
       /\ UNCHANGED <<now, stateVars, lock, queue, callVars, crashes>>

AwaitsAction ==
    LET a == worker.action
    IN /\ worker.at = "await"
       /\ \E verdict \in {"succeeded", "failed"} : Work("settle", a, verdict)
       /\ UNCHANGED <<now, stateVars, lock, queue, callVars, crashes, submitted>>

\* settle: by the worker that holds it, and then the next one is claimed.
Settles ==
    LET a == worker.action
    IN /\ worker.at = "settle"
       /\ queue' = IF queue[a].status = "claimed"
                   THEN [queue EXCEPT ![a].status = worker.verdict, ![a].until = 0]
                   ELSE queue
       /\ Work("claim", None, "none")
       /\ UNCHANGED <<now, stateVars, lock, callVars, crashes, submitted>>

-----------------------------------------------------------------------------
\* The process dies: what it had in hand is gone, every store is kept.
Crashes ==
    /\ crashes < MaxCrashes
    /\ crashes' = crashes + 1
    /\ call' = [q \in Request |-> NoCall]
    /\ worker' = NoWork
    /\ UNCHANGED <<now, stateVars, lock, queue, accepted, left, told, submitted>>

TimePasses ==
    /\ now < Horizon
    /\ now' = now + 1
    /\ UNCHANGED <<stateVars, lock, queue, callVars, worker, crashes, submitted>>

StartSteps(q) ==
    \/ StartArrives(q) \/ Acquires(q) \/ Intends(q) \/ GivesBack(q) \/ Applies(q)
    \/ AwaitsApply(q) \/ Enqueues(q) \/ Activates(q)

EndSteps(q) ==
    \/ Asks(q) \/ BeginsRecovery(q) \/ Cancels(q) \/ Probes(q) \/ Records(q)
    \/ Releases(q)

Dispatches ==
    \/ Ticks \/ Claims \/ Looks \/ PlannedEnds \/ PlannedEnded \/ HandsOver
    \/ AwaitsAction \/ Settles

ControlNext ==
    \/ \E q \in Request : StartSteps(q) \/ OperatorAsks(q) \/ EndSteps(q)
    \/ \E r \in Run : ForceReleases(r) \/ Sweeps(r) \/ Observes(r)
    \/ Dispatches
    \/ Crashes \/ TimePasses

ControlSpec == ControlInit /\ [][ControlNext]_vars

\* The dispatcher ticks on an interval, and the recovery it calls goes on to its
\* end: each of its awaits answers or times out.
ControlFairness ==
    /\ WF_vars(Dispatches) /\ WF_vars(TimePasses)
    /\ WF_vars(\E a \in Action : Planned(a) /\ EndSteps(actionOf[a].request))

FairControl == ControlSpec /\ ControlFairness

-----------------------------------------------------------------------------
ControlTypeOK ==
    /\ now \in 0..Horizon
    /\ run \in [Run -> States]
    /\ record \in [Run -> SUBSET EventIds]
    /\ lock \in Locks
    /\ queue \in [Action -> [status : Settled \cup {"none", "pending", "claimed"},
                             due : 0..RunExpires, until : 0..(Horizon + ActionLease),
                             attempts : Nat]]
    /\ \A a \in Action : queue[a].attempts <= actionOf[a].maxAttempts
    /\ accepted \in [Request -> (0..Horizon) \cup {None}]
    /\ call \in [Request -> [at : CallStages, from : 0..Horizon,
                             mine : BOOLEAN, clean : BOOLEAN]]
    /\ left \in [Request -> Nat]
    /\ told \subseteq Request
    /\ worker \in [at : WorkerStages, action : Action \cup {None},
                   verdict : Settled \cup {"none"}]
    /\ crashes \in 0..MaxCrashes
    /\ submitted \subseteq Faults

\* By its own record the run may have a fault in the lab, and it is not over.
Exposed(r) == run[r].lease # 0 /\ Clock(r) < RunExpires

\* A run whose fault lease is on its record holds the lab until it is cleared
\* or expires, whatever starts, aborts, recoveries, crashes and failed writes
\* come between the lock, the intent and the release.
LeaseHoldsLab ==
    \A r \in Run : Exposed(r) => lock.held /\ lock.run = r

\* "One live run at a time, decided atomically rather than by a query that two
\* callers can both pass" (acquireLiveRunLock).
OneLiveRun == \A r, s \in Run : Exposed(r) /\ Exposed(s) => r = s

\* What could be in the lab is on the record: whatever dies or fails, a fault is
\* handed to the wrapper only after the durable intent of its run, and an action
\* only after the run was recorded active ("the run says recovery is required
\* rather than leaving an unaccounted-for command in the wrapper queue").
EveryFaultIsAnnounced ==
    \A f \in submitted :
        \E id \in record[RunOf(f)] :
            id[2] = IF f \in Run THEN "begin-activation" ELSE "activate"

\* A run that completes is one whose fault was recorded active: recovering a
\* run that never got there ends it as aborted, however the recovery races the
\* start, another recovery and the planned end.
CompletedRanItsFault ==
    \A r \in Run :
        run[r].status \in {"cooldown", "completed"} =>
            \E id \in record[r] : id[2] = "activate"

\* An abort that was answered without an error is not forgotten: the run ends
\* aborted or stays where recovery left it, whatever the planned end does.
AbortIsKept ==
    \A q \in told : asks[q].op = "abort" =>
        run[Of(q)].abort /\ run[Of(q)].status \notin {"cooldown", "completed"}

\* A settled action keeps its verdict: no second enqueue by a resumed start, no
\* cancellation and no second worker reopens or rewrites it.
SettledIsFinal ==
    [][\A a \in Action : queue[a].status \in Settled => queue'[a].status = queue[a].status]_vars

\* Every action that was enqueued is settled, also when the process dies with
\* the action claimed, or recovery cancels the rest of the schedule around it.
ActionsSettle ==
    []<>(\A a \in Action : queue[a].status \in Settled \cup {"none"})
=============================================================================
