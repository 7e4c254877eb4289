----------------------------- MODULE RunStore -------------------------------
(***************************************************************************)
(* The event-sourced store of one run: services/simulationPersistence      *)
(* .service.ts over the two collections of simulationMongo.repository.ts.  *)
(* A transition is appended to the audit stream and then written to the    *)
(* projection; there is no transaction around the two.                     *)
(*                                                                         *)
(* Writers are the requests and the sweep of one process.  Each await is a *)
(* step, and between any two steps other writers run or the process dies.  *)
(***************************************************************************)
EXTENDS RunLog, FiniteSets

CONSTANTS
    None,
    Writers,      \* requests being served
    Sweeper,      \* the reconcile sweep, which has one pass at a time
    Asked,        \* the events the requests may ask for
    MaxAttempts   \* MAX_CAS_ATTEMPTS

ASSUME StoreAssumption ==
    /\ MaxAttempts \in Nat \ {0}
    /\ Sweeper \notin Writers
    /\ Asked \subseteq Events
    /\ None \notin Requests
    /\ None \notin States

Actors == Writers \cup {Sweeper}

VARIABLES
    now,         \* the clock
    projection,  \* SimulationRun.state, None while there is no row
    findings,    \* SimulationRun.recovery: the event it belongs to, or None
    accepted,    \* what each event id was claimed for: its event, or None
    answered,    \* ids of the events whose request was told that it succeeded
    pc,          \* the await each actor is at
    job          \* what it holds in hand

vars == <<now, audit, projection, findings, accepted, answered, pc, job>>
store == <<audit, projection, findings>>

\* `op` is the operation, `listed` how many records loadRun has replayed, `seen`
\* the revision of the projection it found, `run` what it returned, `tries` and
\* `rounds` the two retry counters.
NoJob == [op |-> "none", event |-> None, listed |-> 0, seen |-> 0,
          run |-> None, tries |-> 0, rounds |-> 0]

\* What the replay of the records that were listed yields.
Replayed(a) == audit[job[a].listed]

Stages == {"idle", "create", "insert", "list", "find", "reinsert", "repair",
           "applied", "prove", "lookup", "append", "swap", "ensure", "confirm"}

Operations == {"none", "create", "load", "transition", "recover", "record",
               "repeat", "sweep", "reload"}

Entry(id) == CHOOSE i \in DOMAIN audit : audit[i].last.id = id

-----------------------------------------------------------------------------
\* A process that starts on a database with this audit.
StartFrom(history) ==
    /\ now = 0
    /\ audit = history
    /\ projection = IF history = <<>> THEN None ELSE history[Len(history)]
    /\ findings = None
    /\ accepted = [r \in Requests |-> None]
    /\ answered = {}
    /\ pc = [a \in Actors |-> "idle"]
    /\ job = [a \in Actors |-> NoJob]

StoreInit == StartFrom(<<>>)

Finish(a) ==
    /\ pc' = [pc EXCEPT ![a] = "idle"]
    /\ job' = [job EXCEPT ![a] = NoJob]

\* The operation returns without an error: its caller is told so.
Answer(a) ==
    /\ Finish(a)
    /\ answered' = IF job[a].event = None THEN answered
                   ELSE answered \cup ({job[a].event.id} \cap Requests)

Fail(a) == Finish(a) /\ UNCHANGED answered

Begin(a, op, event, stage) ==
    /\ pc[a] = "idle"
    /\ pc' = [pc EXCEPT ![a] = stage]
    /\ job' = [job EXCEPT ![a] = [NoJob EXCEPT !.op = op, !.event = event]]
    /\ UNCHANGED <<now, store, answered>>

Goto(a, stage, held) ==
    /\ pc' = [pc EXCEPT ![a] = stage]
    /\ job' = [job EXCEPT ![a] = held]
    /\ UNCHANGED answered

\* loadRun is called again and its result is what the caller gets.
Reload(a) == Goto(a, "list", [job[a] EXCEPT !.op = "reload", !.run = None, !.rounds = 0])

\* mutant: one attempt more than the limit
Again_OneMore(a) ==
    IF job[a].rounds < MaxAttempts
    THEN Goto(a, "list", [job[a] EXCEPT !.rounds = @ + 1, !.run = None])
    ELSE Fail(a)

\* Another attempt of the outer loop, or CONCURRENT_TRANSITION.
Again(a) ==
    IF job[a].rounds + 1 < MaxAttempts
    THEN Goto(a, "list", [job[a] EXCEPT !.rounds = @ + 1, !.run = None])
    ELSE Fail(a)

-----------------------------------------------------------------------------
\* createRun.  Repeated on a run that has its row it is a load, BeginLoad.
BeginCreate(a) ==
    /\ projection = None
    /\ Begin(a, "create", None, "create")
    /\ UNCHANGED accepted

\* GET /runs/:key, and every other caller that only loads the run.
BeginLoad(a) == Begin(a, "load", None, "list") /\ UNCHANGED accepted

\* The claim of a control request freezes its acceptedAtMs, so a retry brings
\* the same event again; an activation is built from the clock instead.
Claims(id, e) ==
    /\ e.id = id
    /\ IF accepted[id] = None
       THEN e.at = now
       ELSE /\ e.type = accepted[id].type
            /\ IF e.type \in Activations THEN e.at = now ELSE e = accepted[id]

\* A request that transitions the run, or the retry of one.
BeginTransition(a, e) ==
    /\ Claims(e.id, e)
    /\ e.type \notin Outcomes
    /\ accepted' = [accepted EXCEPT ![e.id] = IF @ = None THEN e ELSE @]
    /\ Begin(a, "transition", e, "list")

\* recover(), whose outcome the executor decides once the run is in recovery.
BeginRecover(a, e) ==
    /\ Claims(e.id, e)
    /\ e.type \in Outcomes
    /\ accepted' = [accepted EXCEPT ![e.id] = IF @ = None THEN e ELSE @]
    /\ Begin(a, "recover", e, "list")

\* One run of the sweep: the filter selects by the projection.
BeginSweep ==
    /\ projection # None
    /\ Reconcilable(projection, now)
    /\ Begin(Sweeper, "sweep",
             [id |-> None, type |-> "sweep", at |-> now, lease |-> 0], "list")
    /\ UNCHANGED accepted

-----------------------------------------------------------------------------
\* appendRunAudit of the creation: a second attempt finds it there.
AppendCreation(a) ==
    /\ pc[a] = "create"
    /\ audit' = IF audit = <<>> THEN <<Created>> ELSE audit
    /\ Goto(a, "insert", job[a])
    /\ UNCHANGED <<now, projection, findings, accepted>>

\* insertRun sets its fields on insert only.
InsertCreated(a) ==
    /\ pc[a] = "insert"
    /\ projection' = IF projection = None THEN Created ELSE projection
    /\ Goto(a, "list", job[a])
    /\ UNCHANGED <<now, audit, findings, accepted>>

-----------------------------------------------------------------------------
\* loadRun, first read: the audit, replayed.
ListAudit(a) ==
    /\ pc[a] = "list"
    /\ IF audit = <<>>
       THEN Fail(a)
       ELSE Goto(a, "find", [job[a] EXCEPT !.listed = Len(audit)])
    /\ UNCHANGED <<now, store, accepted>>

\* What the caller of loadRun does with the run.
Loaded(a, run) ==
    LET held == [job[a] EXCEPT !.run = run, !.tries = 0, !.listed = 0, !.seen = 0]
    IN \/ /\ job[a].op \in {"create", "load", "reload"}
          /\ Answer(a)
       \/ /\ job[a].op \in {"transition", "record"}
          /\ Goto(a, "lookup", held)
       \/ /\ job[a].op = "recover"
          /\ Goto(a, IF run.status = "recovery" THEN "prove" ELSE "applied", held)
       \/ /\ job[a].op = "sweep"
          /\ IF job[a].event.at >= run.updatedAt /\ Due(run, job[a].event.at)
             THEN Goto(a, "lookup", held)
             ELSE Fail(a)

\* loadRun, second read: the projection may have passed the audit it listed,
\* which is reported as PROJECTION_AHEAD_OF_AUDIT.
FindRun(a) ==
    /\ pc[a] = "find"
    /\ IF projection = None
       THEN Goto(a, "reinsert", job[a])
       ELSE IF projection.revision > Replayed(a).revision
       THEN Fail(a)
       ELSE IF projection.revision = Replayed(a).revision
       THEN Loaded(a, projection)
       ELSE Goto(a, "repair", [job[a] EXCEPT !.seen = projection.revision])
    /\ UNCHANGED <<now, store, accepted>>

\* A run whose row was never written gets one from its audit.
InsertReplayed(a) ==
    /\ pc[a] = "reinsert"
    /\ projection' = IF projection = None THEN Replayed(a) ELSE projection
    /\ Goto(a, "find", job[a])
    /\ UNCHANGED <<now, audit, findings, accepted>>

\* mutant: the write does not look at the revision it replaces
Swapped_Unguarded(expected, next) == next

\* compareAndSwapRun.
Swapped(expected, next) ==
    IF projection.revision = expected THEN next ELSE projection

\* The projection is repaired from the audit, or somebody else was faster.
RepairProjection(a) ==
    /\ pc[a] = "repair"
    /\ projection' = Swapped(job[a].seen, Replayed(a))
    /\ IF projection.revision = job[a].seen
       THEN Loaded(a, Replayed(a))
       ELSE IF job[a].tries + 1 < MaxAttempts
       THEN Goto(a, "list", [job[a] EXCEPT !.tries = @ + 1])
       ELSE Fail(a)
    /\ UNCHANGED <<now, audit, findings, accepted>>

-----------------------------------------------------------------------------
\* recover(), on a run that is not in recovery: if this request is the one that
\* ended it, the caller is told so, and otherwise it is refused.
AlreadyApplied(a) ==
    /\ pc[a] = "applied"
    /\ IF OnLog(job[a].event.id) THEN Answer(a) ELSE Fail(a)
    /\ UNCHANGED <<now, store, accepted>>

\* The executor clears the lab; then recordRecoveryResult.
Prove(a) ==
    /\ pc[a] = "prove"
    /\ Goto(a, "list", [job[a] EXCEPT !.op = "record", !.run = None])
    /\ UNCHANGED <<now, store, accepted>>

\* The state the event in hand leads to.
Next(a) ==
    IF job[a].op = "sweep"
    THEN Reconciled(job[a].run, job[a].event.at)
    ELSE After(job[a].run, job[a].event)

\* The event that made a snapshot is the one in hand: sameAuditRequest.  Of a
\* system transition the time is not compared.
SameRequest(a, s) ==
    \/ job[a].op = "sweep"
    \/ /\ s.last.type = job[a].event.type
       /\ s.last.at = job[a].event.at
       /\ s.last.type \in Activations => s.lease = job[a].event.lease

\* The event is on record already: the answer is the run as loaded.
Repeated(a, id) ==
    IF ~SameRequest(a, audit[Entry(id)]) THEN Fail(a)
    ELSE IF job[a].op = "record" THEN Goto(a, "ensure", [job[a] EXCEPT !.op = "repeat"])
    ELSE IF job[a].op = "sweep" THEN Reload(a)
    ELSE Answer(a)

\* findRunAuditByEventId; an event that is not on record is tried on the run
\* that was loaded before it was asked for.
LookUp(a) ==
    /\ pc[a] = "lookup"
    /\ LET id == IF job[a].op = "sweep" THEN Next(a).last.id ELSE job[a].event.id
       IN IF OnLog(id) THEN Repeated(a, id)
          ELSE IF job[a].op = "sweep" \/ Accepts(job[a].run, job[a].event)
          THEN Goto(a, "append", job[a])
          ELSE Fail(a)
    /\ UNCHANGED <<now, store, accepted>>

\* mutant: the sequence of a record is not unique
Taken_Never(revision) == FALSE

\* The unique index over (stream, subjectId, sequence) refuses the record.
Taken(revision) == Len(audit) > revision

\* The unique index over (runKey, eventId) refuses the record.
Duplicate(id) == OnLog(id)

\* mutant: a record is written by its sequence, whatever is there
AppendRecord_Overwrites(a) ==
    /\ pc[a] = "append"
    /\ LET next == Next(a)
       IN audit' = SubSeq(audit, 1, next.revision) \o <<next>>
    /\ Goto(a, "swap", job[a])
    /\ UNCHANGED <<now, projection, findings, accepted>>

\* mutant: losing the sequence to another writer counts as a repetition
AppendRecord_ConflictIsDone(a) ==
    /\ pc[a] = "append"
    /\ LET next == Next(a)
           conflict == Duplicate(next.last.id) \/ Taken(next.revision)
       IN /\ audit' = IF conflict THEN audit ELSE Append(audit, next)
          /\ IF ~conflict THEN Goto(a, "swap", job[a])
             ELSE IF ~Duplicate(next.last.id) THEN Reload(a)
             ELSE IF ~SameRequest(a, audit[Entry(next.last.id)]) THEN Fail(a)
             ELSE IF job[a].op = "record" THEN Goto(a, "ensure", job[a])
             ELSE Reload(a)
    /\ UNCHANGED <<now, projection, findings, accepted>>

\* mutant: the projection is written although the sequence was lost
AppendRecord_ConflictGoesOn(a) ==
    /\ pc[a] = "append"
    /\ LET next == Next(a)
           conflict == Duplicate(next.last.id) \/ Taken(next.revision)
       IN /\ audit' = IF conflict THEN audit ELSE Append(audit, next)
          /\ IF ~conflict THEN Goto(a, "swap", job[a])
             ELSE IF ~Duplicate(next.last.id) THEN Goto(a, "swap", job[a])
             ELSE IF ~SameRequest(a, audit[Entry(next.last.id)]) THEN Fail(a)
             ELSE IF job[a].op = "record" THEN Goto(a, "ensure", job[a])
             ELSE Reload(a)
    /\ UNCHANGED <<now, projection, findings, accepted>>

\* appendRunAudit: inserted, duplicate-event or sequence-conflict.
AppendRecord(a) ==
    /\ pc[a] = "append"
    /\ LET next == Next(a)
           conflict == Duplicate(next.last.id) \/ Taken(next.revision)
       IN /\ audit' = IF conflict THEN audit ELSE Append(audit, next)
          /\ IF ~conflict THEN Goto(a, "swap", job[a])
             ELSE IF ~Duplicate(next.last.id) THEN Again(a)
             ELSE IF ~SameRequest(a, audit[Entry(next.last.id)]) THEN Fail(a)
             ELSE IF job[a].op = "record" THEN Goto(a, "ensure", job[a])
             ELSE Reload(a)
    /\ UNCHANGED <<now, projection, findings, accepted>>

\* compareAndSwapRun of the transition; a recovery outcome takes its findings
\* along.  Whoever loses leaves the projection to the next load.
SwapProjection(a) ==
    /\ pc[a] = "swap"
    /\ projection' = Swapped(job[a].run.revision, Next(a))
    /\ LET won == projection.revision = job[a].run.revision
       IN /\ findings' = IF won /\ job[a].op = "record" THEN job[a].event.id ELSE findings
          /\ IF won THEN Answer(a)
             ELSE IF job[a].op = "record" THEN Goto(a, "ensure", job[a])
             ELSE Reload(a)
    /\ UNCHANGED <<now, audit, accepted>>

\* The findings are on record; a repetition returns the run it has loaded.
Ensured(a) == IF job[a].op = "repeat" THEN Answer(a) ELSE Reload(a)

\* writeRecoveryForEvent, as long as the event is the run's latest.
EnsureFindings(a) ==
    /\ pc[a] = "ensure"
    /\ IF projection.last.id = job[a].event.id
       THEN findings' = job[a].event.id /\ Ensured(a)
       ELSE UNCHANGED findings /\ Goto(a, "confirm", job[a])
    /\ UNCHANGED <<now, audit, projection, accepted>>

\* findRecovery: what is stored must be this result.
ConfirmFindings(a) ==
    /\ pc[a] = "confirm"
    /\ IF findings = job[a].event.id THEN Ensured(a) ELSE Fail(a)
    /\ UNCHANGED <<now, store, accepted>>

-----------------------------------------------------------------------------
Tick ==
    /\ now < Horizon
    /\ now' = now + 1
    /\ UNCHANGED <<store, accepted, answered, pc, job>>

\* The process dies: every request and the sweep stop where they are.
Crash ==
    /\ \E a \in Actors : pc[a] # "idle"
    /\ pc' = [a \in Actors |-> "idle"]
    /\ job' = [a \in Actors |-> NoJob]
    /\ UNCHANGED <<now, store, accepted, answered>>

Requested(a) ==
    \/ BeginCreate(a)
    \/ BeginLoad(a)
    \/ \E e \in Asked : BeginTransition(a, e) \/ BeginRecover(a, e)

Step(a) ==
    \/ AppendCreation(a) \/ InsertCreated(a)
    \/ ListAudit(a) \/ FindRun(a) \/ InsertReplayed(a) \/ RepairProjection(a)
    \/ AlreadyApplied(a) \/ Prove(a)
    \/ LookUp(a) \/ AppendRecord(a) \/ SwapProjection(a)
    \/ EnsureFindings(a) \/ ConfirmFindings(a)

StoreNext ==
    \/ Tick \/ Crash \/ BeginSweep
    \/ \E a \in Writers : Requested(a)
    \/ \E a \in Actors : Step(a)
StoreSpec == StoreInit /\ [][StoreNext]_vars

\* Time passes, and the sweep runs every 15 seconds whatever requests do.
SweepFairness ==
    /\ WF_vars(Tick)
    /\ WF_vars(BeginSweep)
    /\ WF_vars(Step(Sweeper))

-----------------------------------------------------------------------------
\* What a pass of the sweep brings instead of an event: its time.
SweepPasses == [id : {None}, type : {"sweep"}, at : 0..Horizon, lease : {0}]

Jobs == [op : Operations, event : {None} \cup Events \cup SweepPasses,
         listed : Nat, seen : Nat,
         run : States \cup {None}, tries : 0..(MaxAttempts - 1), rounds : 0..(MaxAttempts - 1)]

\* Types, and what an actor must hold at each await.
StoreTypeOK ==
    /\ now \in 0..Horizon
    /\ audit \in Seq(States)
    /\ projection \in States \cup {None}
    /\ findings \in Requests \cup {None}
    /\ accepted \in [Requests -> Events \cup {None}]
    /\ answered \subseteq Requests
    /\ pc \in [Actors -> Stages]
    /\ job \in [Actors -> Jobs]

\* The projection is always one of the states on record: the two writes of
\* a transition, in this order, never leave a row that its audit does not
\* explain, which loadRun reports as PROJECTION_DIVERGED.
ProjectionOnRecord ==
    projection # None => \E i \in DOMAIN audit : audit[i] = projection

\* The audit is the atomic append-only log: every append, by whichever writer
\* and from however old a copy of the run, is one legal step from the newest
\* record, and nothing is ever rewritten.
AuditIsALog == [][LogNext]_audit

\* The projection never goes back to an older state, whoever repairs it and
\* however late.
ProjectionNeverGoesBack ==
    [][projection # None =>
         projection' # None /\ projection'.revision >= projection.revision]_projection

\* What an operator was told has happened is on the audit.
AnsweredIsOnRecord == \A id \in answered : OnLog(id)

\* The findings of the latest recovery outcome, once its request was told that
\* it succeeded and nobody is at work on the run, are the ones stored.
FindingsOnRecord ==
    \A i \in DOMAIN audit :
        LET s == audit[i]
        IN (/\ s.last.type \in Outcomes
            /\ \A j \in DOMAIN audit : j > i => audit[j].last.type \notin Outcomes
            /\ s.last.id \in answered
            /\ \A a \in Actors : pc[a] = "idle")
           => findings = s.last.id

\* The projection shows a run that only the sweep will move; a cooldown counts
\* as far as the clock reaches.
Unattended ==
    /\ projection # None
    /\ \/ projection.status \in TimeoutRecovery \cup {"aborting"}
       \/ projection.status = "cooldown" /\ projection.cooldownUntil <= Horizon

\* A run whose deadline has passed, whose cooldown is over or whose abort nobody
\* carries on does not stay where its row shows it: whoever died in the middle
\* of whatever, the sweep finds it, repairs the row and moves the run on.
ExpiredRunsMoveOn == <>[][~Crash]_vars => (Unattended ~> ~Unattended)
=============================================================================
