-------------------------- MODULE RunStoreProofs ----------------------------
(***************************************************************************)
(* The store of a run implements the log: proofs for every set of writers  *)
(* and requests, every number of attempts and every clock.                 *)
(***************************************************************************)
EXTENDS RunStore, RunLogProofs

-----------------------------------------------------------------------------
(***************************************************************************)
(* The inductive invariant.                                                *)
(***************************************************************************)

Recorded(log, s) == \E i \in DOMAIN log : log[i] = s

\* The state that the operation in hand makes: Next of its actor.
Made(held) == IF held.op = "sweep" THEN Reconciled(held.run, held.event.at)
              ELSE After(held.run, held.event)

Overdue(held) == held.event.at >= held.run.updatedAt /\ Due(held.run, held.event.at)

\* If an operator asked for it, it is on the log.
Told(log, held) ==
    held.event # None /\ held.event.id \in Requests
        => \E i \in DOMAIN log : log[i].last.id = held.event.id

Asking == {"transition", "recover", "record", "repeat"}

\* What an operation may rely on at the await it is at, however much has been
\* appended since it last looked.
HoldsAt(log, stage, held) ==
    /\ stage = "insert" => log # <<>>
    /\ stage \in {"find", "reinsert", "repair"} => held.listed \in DOMAIN log
    /\ stage = "repair" => held.seen < held.listed - 1
    /\ stage \in {"lookup", "append", "swap"} =>
         /\ held.op \in {"transition", "record", "sweep"}
         /\ held.run \in States /\ Recorded(log, held.run)
    /\ stage \in {"lookup", "append"} /\ held.op = "sweep" => Overdue(held)
    /\ stage = "append" /\ held.op # "sweep" => Accepts(held.run, held.event)
    /\ stage = "swap" => Recorded(log, Made(held)) /\ Follows(held.run, Made(held))
    /\ stage \in {"prove", "applied"} => held.op = "recover"
    /\ stage \in {"ensure", "confirm"} => held.op \in {"record", "repeat"}
    /\ held.op \in Asking => held.event \in Events
    /\ held.op = "sweep" => held.event \in SweepPasses
    /\ held.op \in {"none", "create", "load"} => held.event = None
    /\ stage \in {"swap", "ensure", "confirm"} \/ held.op = "reload" => Told(log, held)

StoreInv ==
    /\ StoreTypeOK
    /\ LogInv
    /\ ProjectionOnRecord
    /\ AnsweredIsOnRecord
    /\ \A a \in Actors : HoldsAt(audit, pc[a], job[a])

\* The log only grows.
Grows(before, log) ==
    \A i \in DOMAIN before : i \in DOMAIN log /\ log[i] = before[i]

-----------------------------------------------------------------------------
(***************************************************************************)
(* What one actor's step leaves to the others.                             *)
(***************************************************************************)

LEMMA RecordedStays ==
    ASSUME NEW before, NEW log, Grows(before, log), NEW s, Recorded(before, s)
    PROVE  Recorded(log, s)
BY DEF Grows, Recorded

LEMMA ToldStays ==
    ASSUME NEW before, NEW log, Grows(before, log), NEW held, Told(before, held)
    PROVE  Told(log, held)
BY DEF Grows, Told

LEMMA HoldsStays ==
    ASSUME NEW before \in Seq(States), NEW log \in Seq(States), Grows(before, log),
           NEW stage, NEW held, HoldsAt(before, stage, held)
    PROVE  HoldsAt(log, stage, held)
<1>1. before # <<>> => log # <<>>
  <2>1. before # <<>> => 1 \in DOMAIN before
    OBVIOUS
  <2>2. 1 \in DOMAIN log => log # <<>>
    OBVIOUS
  <2> QED BY <2>1, <2>2 DEF Grows
<1>2. held.listed \in DOMAIN before => held.listed \in DOMAIN log
  BY DEF Grows
<1> QED BY <1>1, <1>2, RecordedStays, ToldStays DEF HoldsAt

\* The log, the projection and everybody's hold on them, when one actor moves on
\* to another await and the log may have grown.
LEMMA ActorMoves ==
    ASSUME StoreInv, LogInv', Grows(audit, audit'),
           NEW a \in Actors, NEW stage \in Stages, NEW held \in Jobs,
           pc' = [pc EXCEPT ![a] = stage], job' = [job EXCEPT ![a] = held],
           HoldsAt(audit', stage, held)
    PROVE  /\ pc' \in [Actors -> Stages] /\ job' \in [Actors -> Jobs]
           /\ \A b \in Actors : HoldsAt(audit', pc'[b], job'[b])
<1>1. /\ pc \in [Actors -> Stages] /\ job \in [Actors -> Jobs]
      /\ audit \in Seq(States) /\ audit' \in Seq(States)
  BY DEF StoreInv, StoreTypeOK, LogInv
<1>2. pc' \in [Actors -> Stages] /\ job' \in [Actors -> Jobs]
  BY <1>1
<1>3. ASSUME NEW b \in Actors PROVE HoldsAt(audit', pc'[b], job'[b])
  <2>1. CASE b = a
    BY <1>1, <2>1
  <2>2. CASE b # a
    <3>1. HoldsAt(audit, pc[b], job[b])
      BY DEF StoreInv
    <3>2. HoldsAt(audit', pc[b], job[b])
      BY <1>1, <3>1, HoldsStays
    <3> QED BY <1>1, <2>2, <3>2
  <2> QED BY <2>1, <2>2
<1> QED BY <1>2, <1>3

-----------------------------------------------------------------------------
(***************************************************************************)
(* The ways in which a step may end.                                       *)
(***************************************************************************)

\* The actor is at another await and may rely on what it needs there, and
\* everything an operator has been told is on the log.
Moves(a) ==
    /\ \E stage \in Stages, held \in Jobs :
         /\ pc' = [pc EXCEPT ![a] = stage]
         /\ job' = [job EXCEPT ![a] = held]
         /\ HoldsAt(audit', stage, held)
    /\ \A id \in answered' :
         id \in Requests /\ \E i \in DOMAIN audit' : audit'[i].last.id = id

LEMMA StoreTyped ==
    ASSUME StoreInv, NEW a \in Actors
    PROVE  /\ now \in 0..Horizon /\ audit \in Seq(States) /\ answered \subseteq Requests
           /\ accepted \in [Requests -> Events \cup {None}]
           /\ findings \in Requests \cup {None}
           /\ pc \in [Actors -> Stages] /\ job \in [Actors -> Jobs]
           /\ pc[a] \in Stages /\ job[a] \in Jobs
           /\ HoldsAt(audit, pc[a], job[a])
BY DEF StoreInv, StoreTypeOK

\* Whatever else a step does: the actor moves, and only what is on the log is
\* written to the projection.
LEMMA StepKept ==
    ASSUME StoreInv, LogInv', Grows(audit, audit'), NEW a \in Actors, Moves(a),
           now' \in 0..Horizon, accepted' \in [Requests -> Events \cup {None}],
           findings' \in Requests \cup {None},
           projection' = projection \/ Recorded(audit', projection')
    PROVE  StoreInv'
<1>1. /\ audit \in Seq(States) /\ audit' \in Seq(States)
  BY StoreTyped DEF LogInv
<1>2. /\ pc' \in [Actors -> Stages] /\ job' \in [Actors -> Jobs]
      /\ \A b \in Actors : HoldsAt(audit', pc'[b], job'[b])
  BY ActorMoves DEF Moves
<1>3. AnsweredIsOnRecord' /\ answered' \subseteq Requests
  BY DEF Moves, AnsweredIsOnRecord, OnLog
<1>4. ProjectionOnRecord' /\ projection' \in States \cup {None}
  <2>1. CASE projection' = projection
    <3>1. projection # None => Recorded(audit, projection)
      BY DEF StoreInv, ProjectionOnRecord, Recorded
    <3>2. projection' # None => Recorded(audit', projection')
      BY <2>1, <3>1, RecordedStays
    <3> QED BY <2>1, <3>2 DEF StoreInv, StoreTypeOK, ProjectionOnRecord, Recorded
  <2>2. CASE Recorded(audit', projection')
    BY <1>1, <2>2 DEF ProjectionOnRecord, Recorded
  <2> QED BY <2>1, <2>2
<1> QED BY <1>1, <1>2, <1>3, <1>4 DEF StoreInv, StoreTypeOK

LEMMA NoJobHolds ==
    ASSUME NEW log
    PROVE  NoJob \in Jobs /\ HoldsAt(log, "idle", NoJob)
BY StoreAssumption DEF NoJob, Jobs, HoldsAt, Operations, Asking

LEMMA AnsweredStays ==
    ASSUME StoreInv, Grows(audit, audit'), NEW id \in answered
    PROVE  id \in Requests /\ \E i \in DOMAIN audit' : audit'[i].last.id = id
BY DEF StoreInv, StoreTypeOK, AnsweredIsOnRecord, OnLog, Grows

LEMMA GotoMoves ==
    ASSUME StoreInv, Grows(audit, audit'), NEW a \in Actors, NEW stage \in Stages,
           NEW held \in Jobs, Goto(a, stage, held), HoldsAt(audit', stage, held)
    PROVE  Moves(a)
BY AnsweredStays DEF Goto, Moves

LEMMA FailMoves ==
    ASSUME StoreInv, Grows(audit, audit'), NEW a \in Actors, Fail(a)
    PROVE  Moves(a)
BY AnsweredStays, NoJobHolds DEF Fail, Finish, Moves, Stages

LEMMA AnswerMoves ==
    ASSUME StoreInv, Grows(audit, audit'), NEW a \in Actors, Answer(a),
           Told(audit', job[a])
    PROVE  Moves(a)
<1>1. ASSUME NEW id \in answered'
      PROVE  id \in Requests /\ \E i \in DOMAIN audit' : audit'[i].last.id = id
  <2>1. CASE id \in answered
    BY <2>1, AnsweredStays
  <2>2. CASE id \notin answered
    <3>1. job[a].event # None /\ id = job[a].event.id /\ id \in Requests
      BY <1>1, <2>2 DEF Answer
    <3> QED BY <3>1 DEF Told
  <2> QED BY <2>1, <2>2
<1> QED BY <1>1, NoJobHolds DEF Answer, Finish, Moves, Stages

\* Only the operation, the run and the retry counter of a job change.
LEMMA JobUpdated ==
    ASSUME NEW held \in Jobs, NEW op \in Operations, NEW run \in States \cup {None},
           NEW rounds \in 0..(MaxAttempts - 1)
    PROVE  [held EXCEPT !.op = op, !.run = run, !.rounds = rounds] \in Jobs
BY DEF Jobs

LEMMA ReloadMoves ==
    ASSUME StoreInv, Grows(audit, audit'), NEW a \in Actors, Reload(a),
           Told(audit', job[a])
    PROVE  Moves(a)
<1> DEFINE held == [job[a] EXCEPT !.op = "reload", !.run = None, !.rounds = 0]
<1>1. job[a] \in Jobs
  BY StoreTyped
<1>2. held \in Jobs
  <2>1. "reload" \in Operations /\ 0 \in 0..(MaxAttempts - 1)
    BY StoreAssumption DEF Operations
  <2> QED BY <1>1, <2>1, JobUpdated
<1>3. held.op = "reload" /\ held.event = job[a].event
  BY <1>1 DEF Jobs
<1>4. Goto(a, "list", held)
  BY DEF Reload
<1> HIDE DEF held
<1>5. HoldsAt(audit', "list", held)
  BY <1>3 DEF HoldsAt, Told, Asking
<1> QED BY <1>2, <1>4, <1>5, GotoMoves DEF Stages

LEMMA AgainMoves ==
    ASSUME StoreInv, Grows(audit, audit'), NEW a \in Actors, Again(a),
           job[a].op # "reload"
    PROVE  Moves(a)
<1>1. CASE job[a].rounds + 1 < MaxAttempts
  <2> DEFINE held == [job[a] EXCEPT !.rounds = @ + 1, !.run = None]
  <2>1. job[a] \in Jobs /\ HoldsAt(audit, pc[a], job[a])
    BY StoreTyped
  <2>2. job[a].rounds + 1 \in 0..(MaxAttempts - 1)
    BY <1>1, <2>1, StoreAssumption DEF Jobs
  <2>3. held \in Jobs
    BY <2>1, <2>2 DEF Jobs
  <2>4. held.op = job[a].op /\ held.event = job[a].event
    BY <2>1 DEF Jobs
  <2>5. Goto(a, "list", held)
    BY <1>1 DEF Again
  <2> HIDE DEF held
  <2>6. HoldsAt(audit', "list", held)
    BY <2>1, <2>4 DEF HoldsAt
  <2> QED BY <2>3, <2>5, <2>6, GotoMoves DEF Stages
<1>2. CASE ~(job[a].rounds + 1 < MaxAttempts)
  BY <1>2, FailMoves DEF Again
<1> QED BY <1>1, <1>2

\* loadRun returned a run that is on the log, and its caller goes on with it.
LEMMA LoadedMoves ==
    ASSUME StoreInv, Grows(audit, audit'), NEW a \in Actors, NEW run \in States,
           Recorded(audit, run), Loaded(a, run)
    PROVE  Moves(a)
<1> DEFINE held == [job[a] EXCEPT !.run = run, !.tries = 0, !.listed = 0, !.seen = 0]
<1>1. job[a] \in Jobs /\ HoldsAt(audit, pc[a], job[a])
  BY StoreTyped
<1>2. held \in Jobs /\ held.op = job[a].op /\ held.event = job[a].event /\ held.run = run
  <2>1. 0 \in 0..(MaxAttempts - 1)
    BY StoreAssumption
  <2> QED BY <1>1, <2>1 DEF Jobs
<1>3. Recorded(audit', run)
  BY RecordedStays
<1>4. CASE job[a].op \in {"create", "load", "reload"} /\ Answer(a)
  <2>1. job[a].event = None \/ Told(audit, job[a])
    BY <1>1, <1>4 DEF HoldsAt
  <2>2. Told(audit', job[a])
    BY <2>1, ToldStays DEF Told
  <2> QED BY <1>4, <2>2, AnswerMoves
<1>5. CASE job[a].op \in {"transition", "record"} /\ Goto(a, "lookup", held)
  <2> HIDE DEF held
  <2>1. HoldsAt(audit', "lookup", held)
    BY <1>1, <1>2, <1>3, <1>5 DEF HoldsAt, Asking
  <2> QED BY <1>2, <1>5, <2>1, GotoMoves DEF Stages
<1>6. CASE /\ job[a].op = "recover"
           /\ Goto(a, IF run.status = "recovery" THEN "prove" ELSE "applied", held)
  <2> HIDE DEF held
  <2> DEFINE stage == IF run.status = "recovery" THEN "prove" ELSE "applied"
  <2>1. stage \in {"prove", "applied"}
    OBVIOUS
  <2>2. Goto(a, stage, held)
    BY <1>6
  <2> HIDE DEF stage
  <2>3. HoldsAt(audit', stage, held)
    BY <1>1, <1>2, <1>6, <2>1 DEF HoldsAt, Asking
  <2> QED BY <1>2, <2>1, <2>2, <2>3, GotoMoves DEF Stages
<1>7. CASE /\ job[a].op = "sweep"
           /\ job[a].event.at >= run.updatedAt /\ Due(run, job[a].event.at)
           /\ Goto(a, "lookup", held)
  <2> HIDE DEF held
  <2>1. HoldsAt(audit', "lookup", held)
    BY <1>1, <1>2, <1>3, <1>7 DEF HoldsAt, Asking, Overdue
  <2> QED BY <1>2, <1>7, <2>1, GotoMoves DEF Stages
<1>8. CASE job[a].op = "sweep" /\ Fail(a)
  BY <1>8, FailMoves
<1> QED BY <1>4, <1>5, <1>6, <1>7, <1>8 DEF Loaded

-----------------------------------------------------------------------------
(***************************************************************************)
(* The awaits, one by one.                                                 *)
(***************************************************************************)

LEMMA AppendCreationKeeps ==
    ASSUME StoreInv, LogInv', Grows(audit, audit'), NEW a \in Actors, AppendCreation(a)
    PROVE  StoreInv'
<1>1. job[a] \in Jobs /\ HoldsAt(audit', "create", job[a]) /\ audit' \in Seq(States)
  <2>1. pc[a] = "create" /\ job[a] \in Jobs /\ HoldsAt(audit, "create", job[a])
    BY StoreTyped DEF AppendCreation
  <2>2. audit \in Seq(States) /\ audit' \in Seq(States)
    BY DEF StoreInv, LogInv
  <2> QED BY <2>1, <2>2, HoldsStays
<1>2. audit' # <<>>
  BY DEF AppendCreation
<1>3. HoldsAt(audit', "insert", job[a])
  BY <1>1, <1>2 DEF HoldsAt
<1>4. Moves(a)
  BY <1>1, <1>3, GotoMoves DEF AppendCreation, Stages
<1> QED BY <1>4, StepKept, StoreTyped DEF AppendCreation

LEMMA InsertCreatedKeeps ==
    ASSUME StoreInv, LogInv', Grows(audit, audit'), NEW a \in Actors, InsertCreated(a)
    PROVE  StoreInv'
<1>1. pc[a] = "insert" /\ job[a] \in Jobs /\ HoldsAt(audit, "insert", job[a])
      /\ audit' = audit /\ audit \in Seq(States)
  BY StoreTyped DEF InsertCreated
<1>2. audit # <<>> /\ 1 \in DOMAIN audit /\ audit[1] = Created
  BY <1>1 DEF HoldsAt, StoreInv, LogInv
<1>3. projection' = projection \/ Recorded(audit', projection')
  BY <1>1, <1>2 DEF InsertCreated, Recorded
<1>4. HoldsAt(audit', "list", job[a])
  BY <1>1 DEF HoldsAt
<1>5. Moves(a)
  BY <1>1, <1>4, GotoMoves DEF InsertCreated, Stages
<1> QED BY <1>3, <1>5, StepKept, StoreTyped DEF InsertCreated

LEMMA ListAuditKeeps ==
    ASSUME StoreInv, LogInv', Grows(audit, audit'), NEW a \in Actors, ListAudit(a)
    PROVE  StoreInv'
<1> DEFINE held == [job[a] EXCEPT !.listed = Len(audit)]
<1>1. job[a] \in Jobs /\ HoldsAt(audit, pc[a], job[a]) /\ audit' = audit
      /\ audit \in Seq(States)
  BY StoreTyped DEF ListAudit, store
<1>2. CASE audit # <<>>
  <2>1. Len(audit) \in DOMAIN audit /\ Len(audit) \in Nat
    BY <1>1, <1>2
  <2>2. held \in Jobs /\ held.op = job[a].op /\ held.event = job[a].event
        /\ held.listed = Len(audit)
    BY <1>1, <2>1 DEF Jobs
  <2>3. Goto(a, "find", held)
    BY <1>2 DEF ListAudit
  <2> HIDE DEF held
  <2>4. HoldsAt(audit', "find", held)
    BY <1>1, <2>1, <2>2 DEF HoldsAt, Told
  <2> QED BY <2>2, <2>3, <2>4, GotoMoves, StepKept, StoreTyped DEF ListAudit, store, Stages
<1>3. CASE audit = <<>>
  BY <1>3, FailMoves, StepKept, StoreTyped DEF ListAudit, store
<1> QED BY <1>2, <1>3

LEMMA FindRunKeeps ==
    ASSUME StoreInv, LogInv', Grows(audit, audit'), NEW a \in Actors, FindRun(a)
    PROVE  StoreInv'
<1>1. job[a] \in Jobs /\ HoldsAt(audit, "find", job[a]) /\ audit' = audit
  BY StoreTyped DEF FindRun, store
<1>2. job[a].listed \in DOMAIN audit /\ audit \in Seq(States)
  BY <1>1, StoreTyped DEF HoldsAt
<1>3. Replayed(a) \in States /\ Replayed(a).revision = job[a].listed - 1
  BY <1>2 DEF Replayed, StoreInv, LogInv
<1>4. CASE projection = None /\ Goto(a, "reinsert", job[a])
  <2>1. HoldsAt(audit', "reinsert", job[a])
    BY <1>1 DEF HoldsAt
  <2> QED BY <1>1, <1>4, <2>1, GotoMoves, StepKept, StoreTyped DEF FindRun, store, Stages
<1>5. CASE Fail(a)
  BY <1>5, FailMoves, StepKept, StoreTyped DEF FindRun, store
<1>6. CASE projection # None /\ Loaded(a, projection)
  <2>1. projection \in States /\ Recorded(audit, projection)
    BY <1>6 DEF StoreInv, StoreTypeOK, ProjectionOnRecord, Recorded
  <2>2. Moves(a)
    BY <1>6, <2>1, LoadedMoves
  <2> QED BY <2>2, StepKept, StoreTyped DEF FindRun, store
<1>7. CASE /\ projection # None
           /\ ~(projection.revision > Replayed(a).revision)
           /\ projection.revision # Replayed(a).revision
           /\ Goto(a, "repair", [job[a] EXCEPT !.seen = projection.revision])
  <2> DEFINE held == [job[a] EXCEPT !.seen = projection.revision]
  <2>1. projection.revision \in Nat
    BY <1>7 DEF StoreInv, StoreTypeOK, States
  <2>2. projection.revision < job[a].listed - 1
    BY <1>2, <1>3, <1>7, <2>1
  <2>3. held \in Jobs /\ held.op = job[a].op /\ held.event = job[a].event
        /\ held.listed = job[a].listed /\ held.seen = projection.revision
    BY <1>1, <2>1 DEF Jobs
  <2>4. Goto(a, "repair", held)
    BY <1>7
  <2> HIDE DEF held
  <2>5. HoldsAt(audit', "repair", held)
    BY <1>1, <1>2, <2>2, <2>3 DEF HoldsAt, Told
  <2> QED BY <2>3, <2>4, <2>5, GotoMoves, StepKept, StoreTyped DEF FindRun, store, Stages
<1> QED BY <1>4, <1>5, <1>6, <1>7 DEF FindRun

LEMMA InsertReplayedKeeps ==
    ASSUME StoreInv, LogInv', Grows(audit, audit'), NEW a \in Actors, InsertReplayed(a)
    PROVE  StoreInv'
<1>1. job[a] \in Jobs /\ HoldsAt(audit, "reinsert", job[a]) /\ audit' = audit
  BY StoreTyped DEF InsertReplayed
<1>2. projection' = projection \/ Recorded(audit', projection')
  BY <1>1 DEF InsertReplayed, Replayed, Recorded, HoldsAt
<1>3. HoldsAt(audit', "find", job[a])
  BY <1>1 DEF HoldsAt
<1> QED BY <1>1, <1>2, <1>3, GotoMoves, StepKept, StoreTyped DEF InsertReplayed, Stages

LEMMA RepairProjectionKeeps ==
    ASSUME StoreInv, LogInv', Grows(audit, audit'), NEW a \in Actors, RepairProjection(a)
    PROVE  StoreInv'
<1>1. job[a] \in Jobs /\ HoldsAt(audit, "repair", job[a]) /\ audit' = audit
  BY StoreTyped DEF RepairProjection
<1>2. Replayed(a) \in States /\ Recorded(audit, Replayed(a))
  BY <1>1, StoreTyped DEF Replayed, Recorded, HoldsAt
<1>3. projection' = projection \/ Recorded(audit', projection')
  BY <1>1, <1>2 DEF RepairProjection, Swapped
<1>4. CASE Loaded(a, Replayed(a))
  BY <1>2, <1>3, <1>4, LoadedMoves, StepKept, StoreTyped DEF RepairProjection
<1>5. CASE /\ job[a].tries + 1 < MaxAttempts
           /\ Goto(a, "list", [job[a] EXCEPT !.tries = @ + 1])
  <2> DEFINE held == [job[a] EXCEPT !.tries = @ + 1]
  <2>1. job[a].tries + 1 \in 0..(MaxAttempts - 1)
    BY <1>1, <1>5, StoreAssumption DEF Jobs
  <2>2. held \in Jobs /\ held.op = job[a].op /\ held.event = job[a].event
    BY <1>1, <2>1 DEF Jobs
  <2>3. Goto(a, "list", held)
    BY <1>5
  <2> HIDE DEF held
  <2>4. HoldsAt(audit', "list", held)
    BY <1>1, <2>2 DEF HoldsAt, Told
  <2> QED BY <1>3, <2>2, <2>3, <2>4, GotoMoves, StepKept, StoreTyped
             DEF RepairProjection, Stages
<1>6. CASE Fail(a)
  BY <1>3, <1>6, FailMoves, StepKept, StoreTyped DEF RepairProjection
<1> QED BY <1>4, <1>5, <1>6 DEF RepairProjection

LEMMA AlreadyAppliedKeeps ==
    ASSUME StoreInv, LogInv', Grows(audit, audit'), NEW a \in Actors, AlreadyApplied(a)
    PROVE  StoreInv'
<1>1. CASE OnLog(job[a].event.id) /\ Answer(a)
  <2>1. Told(audit', job[a])
    BY <1>1 DEF AlreadyApplied, store, OnLog, Told
  <2> QED BY <1>1, <2>1, AnswerMoves, StepKept, StoreTyped DEF AlreadyApplied, store
<1>2. CASE Fail(a)
  BY <1>2, FailMoves, StepKept, StoreTyped DEF AlreadyApplied, store
<1> QED BY <1>1, <1>2 DEF AlreadyApplied

LEMMA ProveKeeps ==
    ASSUME StoreInv, LogInv', Grows(audit, audit'), NEW a \in Actors, Prove(a)
    PROVE  StoreInv'
<1> DEFINE held == [job[a] EXCEPT !.op = "record", !.run = None]
<1>1. job[a] \in Jobs /\ HoldsAt(audit, "prove", job[a]) /\ audit' = audit
  BY StoreTyped DEF Prove, store
<1>2. held \in Jobs /\ held.op = "record" /\ held.event = job[a].event
  BY <1>1 DEF Jobs, Operations
<1>3. Goto(a, "list", held)
  BY DEF Prove
<1> HIDE DEF held
<1>4. HoldsAt(audit', "list", held)
  BY <1>1, <1>2 DEF HoldsAt, Asking
<1> QED BY <1>2, <1>3, <1>4, GotoMoves, StepKept, StoreTyped DEF Prove, store, Stages

LEMMA NextIsMade ==
    ASSUME NEW a \in Actors
    PROVE  Next(a) = Made(job[a])
BY DEF Next, Made

\* An operation that no operator asked for has told nobody anything.
LEMMA SweepTellsNobody ==
    ASSUME NEW log, NEW held, held.op = "sweep", held.op = "sweep" => held.event \in SweepPasses
    PROVE  Told(log, held)
BY StoreAssumption DEF Told, SweepPasses

LEMMA RepeatedMoves ==
    ASSUME StoreInv, audit' = audit, Grows(audit, audit'), NEW a \in Actors,
           pc[a] = "lookup", NEW id, OnLog(id), Repeated(a, id),
           job[a].op # "sweep" => id = job[a].event.id
    PROVE  Moves(a)
<1>1. job[a] \in Jobs /\ HoldsAt(audit, "lookup", job[a])
  BY StoreTyped
<1>2. Told(audit', job[a])
  <2>1. CASE job[a].op = "sweep"
    BY <1>1, <2>1, SweepTellsNobody DEF HoldsAt
  <2>2. CASE job[a].op # "sweep"
    BY <2>2 DEF OnLog, Told
  <2> QED BY <2>1, <2>2
<1>3. CASE Fail(a)
  BY <1>3, FailMoves
<1>4. CASE job[a].op = "record" /\ Goto(a, "ensure", [job[a] EXCEPT !.op = "repeat"])
  <2> DEFINE held == [job[a] EXCEPT !.op = "repeat"]
  <2>1. held \in Jobs /\ held.op = "repeat" /\ held.event = job[a].event
    BY <1>1 DEF Jobs, Operations
  <2>2. Goto(a, "ensure", held)
    BY <1>4
  <2> HIDE DEF held
  <2>3. HoldsAt(audit', "ensure", held)
    BY <1>1, <1>2, <1>4, <2>1 DEF HoldsAt, Asking, Told
  <2> QED BY <2>1, <2>2, <2>3, GotoMoves DEF Stages
<1>5. CASE Reload(a)
  BY <1>2, <1>5, ReloadMoves
<1>6. CASE Answer(a)
  BY <1>2, <1>6, AnswerMoves
<1> QED BY <1>3, <1>4, <1>5, <1>6 DEF Repeated

LEMMA LookUpKeeps ==
    ASSUME StoreInv, LogInv', Grows(audit, audit'), NEW a \in Actors, LookUp(a)
    PROVE  StoreInv'
<1> DEFINE id == IF job[a].op = "sweep" THEN Next(a).last.id ELSE job[a].event.id
<1>1. job[a] \in Jobs /\ HoldsAt(audit, "lookup", job[a]) /\ audit' = audit /\ pc[a] = "lookup"
  BY StoreTyped DEF LookUp, store
<1>2. CASE OnLog(id) /\ Repeated(a, id)
  <2>1. Moves(a)
    BY <1>1, <1>2, RepeatedMoves
  <2> QED BY <2>1, StepKept, StoreTyped DEF LookUp, store
<1>3. CASE /\ job[a].op = "sweep" \/ Accepts(job[a].run, job[a].event)
           /\ Goto(a, "append", job[a])
  <2>1. HoldsAt(audit', "append", job[a])
    BY <1>1, <1>3 DEF HoldsAt
  <2> QED BY <1>1, <1>3, <2>1, GotoMoves, StepKept, StoreTyped DEF LookUp, store, Stages
<1>4. CASE Fail(a)
  BY <1>4, FailMoves, StepKept, StoreTyped DEF LookUp, store
<1> QED BY <1>2, <1>3, <1>4 DEF LookUp

\* What an operation is about to append.
LEMMA AboutToAppend ==
    ASSUME StoreInv, NEW a \in Actors, pc[a] = "append"
    PROVE  /\ job[a] \in Jobs /\ HoldsAt(audit, "append", job[a])
           /\ job[a].run \in States /\ Sound(job[a].run)
           /\ job[a].run.revision + 1 \in DOMAIN audit
           /\ audit[job[a].run.revision + 1] = job[a].run
           /\ Made(job[a]) \in States /\ Follows(job[a].run, Made(job[a]))
           /\ job[a].op # "sweep" => Made(job[a]).last.id = job[a].event.id
<1>1. job[a] \in Jobs /\ HoldsAt(audit, "append", job[a])
  BY StoreTyped
<1>2. job[a].run \in States /\ Recorded(audit, job[a].run)
      /\ job[a].op \in {"transition", "record", "sweep"}
  BY <1>1 DEF HoldsAt
<1>3. PICK i \in DOMAIN audit : audit[i] = job[a].run
  BY <1>2 DEF Recorded
<1>4. /\ Sound(job[a].run)
      /\ job[a].run.revision = i - 1
      /\ audit \in Seq(States)
  BY <1>3 DEF StoreInv, LogInv
<1>5. job[a].run.revision + 1 = i
  BY <1>4
<1>6. CASE job[a].op = "sweep"
  <2>1. job[a].event \in SweepPasses /\ Overdue(job[a])
    BY <1>1, <1>6 DEF HoldsAt
  <2>2. job[a].event.at \in 0..Horizon /\ Due(job[a].run, job[a].event.at)
    BY <2>1 DEF SweepPasses, Overdue
  <2>3. Made(job[a]) = Reconciled(job[a].run, job[a].event.at)
    BY <1>6 DEF Made
  <2>4. Made(job[a]) \in States /\ Follows(job[a].run, Made(job[a]))
    BY <1>2, <1>4, <2>2, <2>3, DeadlineStep
  <2> QED BY <1>1, <1>2, <1>3, <1>4, <1>5, <1>6, <2>4
<1>7. CASE job[a].op # "sweep"
  <2>1. job[a].event \in Events /\ Accepts(job[a].run, job[a].event)
    BY <1>1, <1>2, <1>7 DEF HoldsAt, Asking
  <2>2. Made(job[a]) = After(job[a].run, job[a].event)
    BY <1>7 DEF Made
  <2>3. /\ Made(job[a]) \in States /\ Follows(job[a].run, Made(job[a]))
        /\ Made(job[a]).last = [id |-> job[a].event.id, type |-> job[a].event.type,
                                at |-> job[a].event.at]
    BY <1>2, <1>4, <2>1, <2>2, EventStep
  <2>4. Made(job[a]).last.id = job[a].event.id
    BY <2>3
  <2> QED BY <1>1, <1>2, <1>3, <1>4, <1>5, <2>3, <2>4
<1> QED BY <1>6, <1>7

\* Of all who append from the same copy of the run, or from an older one, the
\* sequence elects one, and what it appends follows from the newest record.
LEMMA AppendRecordLogs ==
    ASSUME StoreInv, NEW a \in Actors, AppendRecord(a), audit' # audit
    PROVE  LogNext /\ audit' = Append(audit, Made(job[a]))
<1> DEFINE run == job[a].run
           next == Made(job[a])
<1>1. /\ pc[a] = "append" /\ audit' = Append(audit, next)
      /\ ~OnLog(next.last.id) /\ ~(Len(audit) > next.revision)
  BY NextIsMade DEF AppendRecord, Duplicate, Taken
<1>2. /\ job[a] \in Jobs /\ HoldsAt(audit, "append", job[a])
      /\ run \in States
      /\ run.revision + 1 \in DOMAIN audit /\ audit[run.revision + 1] = run
      /\ next \in States /\ Follows(run, next)
      /\ job[a].op # "sweep" => next.last.id = job[a].event.id
  BY <1>1, AboutToAppend
<1>3. audit \in Seq(States)
  BY DEF StoreInv, LogInv
<1>4. run = Newest /\ audit # <<>>
  <2>1. next.revision = run.revision + 1 /\ run.revision \in Nat
    BY <1>2 DEF Follows, States
  <2>2. Len(audit) = run.revision + 1
    BY <1>1, <1>2, <1>3, <2>1
  <2> QED BY <1>2, <1>3, <2>2 DEF Newest
<1>5. Len(audit') = Len(audit) + 1
  BY <1>1, <1>2, <1>3
<1>6. CASE job[a].op = "sweep"
  <2> DEFINE time == job[a].event.at
  <2>1. job[a].event \in SweepPasses /\ Overdue(job[a])
    BY <1>2, <1>6 DEF HoldsAt
  <2>2. time \in 0..Horizon /\ time >= Newest.updatedAt /\ Due(Newest, time)
    BY <1>4, <2>1 DEF SweepPasses, Overdue
  <2>3. audit' = Append(audit, Reconciled(Newest, time))
    BY <1>1, <1>4, <1>6 DEF Made
  <2>4. LogDeadline
    BY <1>4, <2>2, <2>3 DEF LogDeadline
  <2> QED BY <1>1, <1>5, <2>4 DEF LogNext
<1>7. CASE job[a].op # "sweep"
  <2>1. job[a].event \in Events /\ Accepts(Newest, job[a].event)
    BY <1>2, <1>4, <1>7 DEF HoldsAt, Asking
  <2>2. audit' = Append(audit, After(Newest, job[a].event))
    BY <1>1, <1>4, <1>7 DEF Made
  <2>3. ~OnLog(job[a].event.id)
    BY <1>1, <1>2, <1>7
  <2>4. LogEvent
    BY <1>4, <2>1, <2>2, <2>3 DEF LogEvent
  <2> QED BY <1>1, <1>5, <2>4 DEF LogNext
<1> QED BY <1>6, <1>7

LEMMA AppendRecordKeeps ==
    ASSUME StoreInv, LogInv', Grows(audit, audit'), NEW a \in Actors, AppendRecord(a)
    PROVE  StoreInv'
<1> DEFINE next == Made(job[a])
           conflict == Duplicate(next.last.id) \/ Taken(next.revision)
<1>1. /\ pc[a] = "append" /\ job[a] \in Jobs /\ HoldsAt(audit, "append", job[a])
      /\ Follows(job[a].run, next)
      /\ job[a].op # "sweep" => next.last.id = job[a].event.id
      /\ job[a].op \in {"transition", "record", "sweep"}
      /\ audit \in Seq(States) /\ audit' \in Seq(States) /\ next \in States
  BY AboutToAppend DEF AppendRecord, HoldsAt, StoreInv, LogInv
<1>2. CASE ~conflict /\ audit' = Append(audit, next) /\ Goto(a, "swap", job[a])
  <2>1. audit'[Len(audit) + 1] = next /\ Len(audit) + 1 \in DOMAIN audit'
    BY <1>1, <1>2
  <2>2. Recorded(audit', next)
    BY <2>1 DEF Recorded
  <2>3. Told(audit', job[a])
    <3>1. CASE job[a].op = "sweep"
      BY <1>1, <3>1, SweepTellsNobody DEF HoldsAt
    <3>2. CASE job[a].op # "sweep"
      BY <1>1, <2>1, <3>2 DEF Told
    <3> QED BY <3>1, <3>2
  <2>4. Recorded(audit', job[a].run)
    BY <1>1, RecordedStays DEF HoldsAt
  <2>5. HoldsAt(audit', "swap", job[a])
    BY <1>1, <2>2, <2>3, <2>4 DEF HoldsAt
  <2> QED BY <1>1, <1>2, <2>5, GotoMoves, StepKept, StoreTyped DEF AppendRecord, Stages
<1>3. CASE Again(a)
  BY <1>1, <1>3, AgainMoves, StepKept, StoreTyped DEF AppendRecord
<1>4. CASE Fail(a)
  BY <1>4, FailMoves, StepKept, StoreTyped DEF AppendRecord
<1>5. CASE /\ Duplicate(next.last.id) /\ audit' = audit
           /\ \/ job[a].op = "record" /\ Goto(a, "ensure", job[a])
              \/ Reload(a)
  <2>1. Told(audit', job[a])
    <3>1. CASE job[a].op = "sweep"
      BY <1>1, <3>1, SweepTellsNobody DEF HoldsAt
    <3>2. CASE job[a].op # "sweep"
      BY <1>1, <1>5, <3>2 DEF Told, Duplicate, OnLog
    <3> QED BY <3>1, <3>2
  <2>2. CASE job[a].op = "record" /\ Goto(a, "ensure", job[a])
    <3>1. HoldsAt(audit', "ensure", job[a])
      BY <1>1, <2>1, <2>2 DEF HoldsAt
    <3> QED BY <1>1, <2>2, <3>1, GotoMoves, StepKept, StoreTyped DEF AppendRecord, Stages
  <2>3. CASE Reload(a)
    BY <2>1, <2>3, ReloadMoves, StepKept, StoreTyped DEF AppendRecord
  <2> QED BY <1>5, <2>2, <2>3
<1>6. \/ ~conflict /\ audit' = Append(audit, next) /\ Goto(a, "swap", job[a])
      \/ Again(a) \/ Fail(a)
      \/ /\ Duplicate(next.last.id) /\ audit' = audit
         /\ \/ job[a].op = "record" /\ Goto(a, "ensure", job[a])
            \/ Reload(a)
  BY NextIsMade DEF AppendRecord
<1> QED BY <1>2, <1>3, <1>4, <1>5, <1>6

LEMMA SwapProjectionKeeps ==
    ASSUME StoreInv, LogInv', Grows(audit, audit'), NEW a \in Actors, SwapProjection(a)
    PROVE  StoreInv'
<1>1. job[a] \in Jobs /\ HoldsAt(audit, "swap", job[a]) /\ audit' = audit
  BY StoreTyped DEF SwapProjection
<1>2. /\ Recorded(audit', Made(job[a])) /\ Told(audit', job[a])
      /\ job[a].op \in {"transition", "record", "sweep"}
      /\ job[a].op = "record" => job[a].event \in Events
  BY <1>1 DEF HoldsAt, Asking
<1>3. projection' = projection \/ Recorded(audit', projection')
  BY <1>2, NextIsMade DEF SwapProjection, Swapped
<1>4. findings' \in Requests \cup {None}
  BY <1>2, StoreTyped DEF SwapProjection, Events
<1>5. CASE Answer(a)
  BY <1>2, <1>3, <1>4, <1>5, AnswerMoves, StepKept, StoreTyped DEF SwapProjection
<1>6. CASE job[a].op = "record" /\ Goto(a, "ensure", job[a])
  <2>1. HoldsAt(audit', "ensure", job[a])
    BY <1>1, <1>2, <1>6 DEF HoldsAt
  <2> QED BY <1>1, <1>3, <1>4, <1>6, <2>1, GotoMoves, StepKept, StoreTyped
             DEF SwapProjection, Stages
<1>7. CASE Reload(a)
  BY <1>2, <1>3, <1>4, <1>7, ReloadMoves, StepKept, StoreTyped DEF SwapProjection
<1> QED BY <1>5, <1>6, <1>7 DEF SwapProjection

LEMMA EnsuredMoves ==
    ASSUME StoreInv, Grows(audit, audit'), NEW a \in Actors, Ensured(a),
           Told(audit', job[a])
    PROVE  Moves(a)
BY AnswerMoves, ReloadMoves DEF Ensured

LEMMA EnsureFindingsKeeps ==
    ASSUME StoreInv, LogInv', Grows(audit, audit'), NEW a \in Actors, EnsureFindings(a)
    PROVE  StoreInv'
<1>1. job[a] \in Jobs /\ HoldsAt(audit, "ensure", job[a]) /\ audit' = audit
  BY StoreTyped DEF EnsureFindings
<1>2. Told(audit', job[a]) /\ job[a].event \in Events
  BY <1>1 DEF HoldsAt, Asking
<1>3. CASE findings' = job[a].event.id /\ Ensured(a)
  <2>1. findings' \in Requests \cup {None}
    BY <1>2, <1>3 DEF Events
  <2> QED BY <1>2, <1>3, <2>1, EnsuredMoves, StepKept, StoreTyped DEF EnsureFindings
<1>4. CASE UNCHANGED findings /\ Goto(a, "confirm", job[a])
  <2>1. HoldsAt(audit', "confirm", job[a])
    BY <1>1, <1>2 DEF HoldsAt
  <2> QED BY <1>1, <1>4, <2>1, GotoMoves, StepKept, StoreTyped DEF EnsureFindings, Stages
<1> QED BY <1>3, <1>4 DEF EnsureFindings

LEMMA ConfirmFindingsKeeps ==
    ASSUME StoreInv, LogInv', Grows(audit, audit'), NEW a \in Actors, ConfirmFindings(a)
    PROVE  StoreInv'
<1>1. Told(audit', job[a])
  BY StoreTyped DEF ConfirmFindings, HoldsAt, store
<1>2. CASE Ensured(a)
  BY <1>1, <1>2, EnsuredMoves, StepKept, StoreTyped DEF ConfirmFindings, store
<1>3. CASE Fail(a)
  BY <1>3, FailMoves, StepKept, StoreTyped DEF ConfirmFindings, store
<1> QED BY <1>2, <1>3 DEF ConfirmFindings

\* Beginning an operation.
LEMMA BeginMoves ==
    ASSUME StoreInv, Grows(audit, audit'), NEW a \in Actors,
           NEW op \in Operations \ {"reload"},
           NEW event \in {None} \cup Events \cup SweepPasses,
           NEW stage \in {"create", "list"}, Begin(a, op, event, stage),
           op \in Asking => event \in Events,
           op = "sweep" => event \in SweepPasses,
           op \in {"none", "create", "load"} => event = None
    PROVE  Moves(a)
<1> DEFINE held == [NoJob EXCEPT !.op = op, !.event = event]
<1>1. held \in Jobs /\ held.op = op /\ held.event = event
  BY NoJobHolds DEF Jobs
<1>2. Goto(a, stage, held)
  BY DEF Begin, Goto
<1> HIDE DEF held
<1>3. HoldsAt(audit', stage, held)
  BY <1>1 DEF HoldsAt
<1> QED BY <1>1, <1>2, <1>3, GotoMoves DEF Stages

LEMMA RequestedKeeps ==
    ASSUME StoreInv, LogInv', Grows(audit, audit'), NEW a \in Writers, Requested(a)
    PROVE  StoreInv'
<1>1. a \in Actors
  BY DEF Actors
<1>2. CASE BeginCreate(a)
  <2>1. Moves(a)
    BY <1>1, <1>2, BeginMoves DEF BeginCreate, Operations, Asking
  <2> QED BY <1>1, <1>2, <2>1, StepKept, StoreTyped DEF BeginCreate, Begin, store
<1>3. CASE BeginLoad(a)
  <2>1. Moves(a)
    BY <1>1, <1>3, BeginMoves DEF BeginLoad, Operations, Asking
  <2> QED BY <1>1, <1>3, <2>1, StepKept, StoreTyped DEF BeginLoad, Begin, store
<1>4. ASSUME NEW e \in Asked, BeginTransition(a, e) \/ BeginRecover(a, e)
      PROVE  StoreInv'
  <2>1. e \in Events
    BY StoreAssumption
  <2>2. Moves(a)
    BY <1>1, <1>4, <2>1, BeginMoves DEF BeginTransition, BeginRecover, Operations, Asking
  <2>3. accepted' \in [Requests -> Events \cup {None}]
    BY <1>1, <1>4, <2>1, StoreTyped DEF BeginTransition, BeginRecover
  <2> QED BY <1>1, <1>4, <2>2, <2>3, StepKept, StoreTyped
             DEF BeginTransition, BeginRecover, Begin, store
<1> QED BY <1>2, <1>3, <1>4 DEF Requested

LEMMA BeginSweepKeeps ==
    ASSUME StoreInv, LogInv', Grows(audit, audit'), BeginSweep
    PROVE  StoreInv'
<1> DEFINE pass == [id |-> None, type |-> "sweep", at |-> now, lease |-> 0]
<1>1. Sweeper \in Actors
  BY DEF Actors
<1>2. pass \in SweepPasses
  BY <1>1, StoreTyped DEF SweepPasses
<1>3. Begin(Sweeper, "sweep", pass, "list")
  BY DEF BeginSweep
<1> HIDE DEF pass
<1>4. Moves(Sweeper)
  BY <1>1, <1>2, <1>3, BeginMoves DEF Operations, Asking
<1> QED BY <1>1, <1>3, <1>4, StepKept, StoreTyped DEF BeginSweep, Begin, store

LEMMA TickKeeps ==
    ASSUME StoreInv, Tick
    PROVE  StoreInv'
BY RunAssumption
   DEF Tick, store, StoreInv, StoreTypeOK, LogInv, Newest, ProjectionOnRecord,
       AnsweredIsOnRecord, OnLog

LEMMA CrashKeeps ==
    ASSUME StoreInv, Crash
    PROVE  StoreInv'
<1>1. /\ pc' \in [Actors -> Stages] /\ job' \in [Actors -> Jobs]
      /\ \A a \in Actors : HoldsAt(audit', pc'[a], job'[a])
  BY NoJobHolds DEF Crash, Stages
<1> QED
  BY <1>1
     DEF Crash, store, StoreInv, StoreTypeOK, LogInv, Newest, ProjectionOnRecord,
         AnsweredIsOnRecord, OnLog

-----------------------------------------------------------------------------
(***************************************************************************)
(* The log, the store and the projection.                                  *)
(***************************************************************************)

LEMMA AppendCreationLogs ==
    ASSUME StoreInv, NEW a \in Actors, AppendCreation(a), audit' # audit
    PROVE  LogNext
<1>1. audit = <<>> /\ audit' = <<Created>>
  BY DEF AppendCreation
<1>2. Len(audit') = Len(audit) + 1
  BY <1>1
<1> QED BY <1>1, <1>2 DEF LogNext, LogCreate

\* No other await writes to the log.
LEMMA StoreLogs ==
    ASSUME StoreInv, [StoreNext]_vars
    PROVE  [LogNext]_audit
<1>1. ASSUME NEW a \in Actors, Step(a)
      PROVE  [LogNext]_audit
  <2>1. CASE AppendCreation(a)
    BY <2>1, AppendCreationLogs
  <2>2. CASE AppendRecord(a)
    BY <2>2, AppendRecordLogs
  <2>3. CASE ~AppendCreation(a) /\ ~AppendRecord(a)
    BY <1>1, <2>3
       DEF Step, InsertCreated, ListAudit, FindRun, InsertReplayed, RepairProjection,
           AlreadyApplied, Prove, LookUp, SwapProjection, EnsureFindings,
           ConfirmFindings, store
  <2> QED BY <2>1, <2>2, <2>3
<1>2. ASSUME NEW a \in Writers, Requested(a)
      PROVE  UNCHANGED audit
  BY <1>2 DEF Requested, BeginCreate, BeginLoad, BeginTransition, BeginRecover, Begin, store
<1>3. CASE Tick \/ Crash \/ BeginSweep
  BY <1>3 DEF Tick, Crash, BeginSweep, Begin, store
<1>4. CASE UNCHANGED vars
  BY <1>4 DEF vars
<1> QED BY <1>1, <1>2, <1>3, <1>4 DEF StoreNext

LEMMA LogOnlyGrows ==
    ASSUME LogInv, [LogNext]_audit
    PROVE  Grows(audit, audit')
<1>1. audit \in Seq(States)
  BY DEF LogInv
<1>2. ASSUME NEW s, audit' = Append(audit, s)
      PROVE  Grows(audit, audit')
  BY <1>1, <1>2 DEF Grows
<1>3. CASE LogCreate
  BY <1>3 DEF LogCreate, Grows
<1>4. CASE LogEvent
  BY <1>2, <1>4 DEF LogEvent
<1>5. CASE LogDeadline
  BY <1>2, <1>5 DEF LogDeadline
<1>6. CASE UNCHANGED audit
  BY <1>6 DEF Grows
<1> QED BY <1>3, <1>4, <1>5, <1>6 DEF LogNext

LEMMA StoreStarts == StoreInit => StoreInv
<1> SUFFICES ASSUME StoreInit PROVE StoreInv
  OBVIOUS
<1>1. audit = <<>> /\ projection = None /\ answered = {}
  BY DEF StoreInit, StartFrom
<1>2. LogInv
  BY <1>1, LogStarts DEF LogInit
<1>3. /\ pc = [a \in Actors |-> "idle"] /\ job = [a \in Actors |-> NoJob]
      /\ accepted = [r \in Requests |-> None] /\ findings = None /\ now = 0
  BY DEF StoreInit, StartFrom
<1>4. \A a \in Actors : HoldsAt(audit, pc[a], job[a])
  BY <1>3, NoJobHolds
<1>5. StoreTypeOK
  BY <1>1, <1>3, NoJobHolds, RunAssumption DEF StoreTypeOK, Stages
<1>6. ProjectionOnRecord /\ AnsweredIsOnRecord
  BY <1>1 DEF ProjectionOnRecord, AnsweredIsOnRecord
<1> QED BY <1>2, <1>4, <1>5, <1>6 DEF StoreInv

LEMMA UnchangedKeeps ==
    ASSUME StoreInv, UNCHANGED vars
    PROVE  StoreInv'
BY DEF vars, StoreInv, StoreTypeOK, LogInv, Newest, ProjectionOnRecord,
       AnsweredIsOnRecord, OnLog

LEMMA StoreKept == StoreInv /\ [StoreNext]_vars => StoreInv'
<1> SUFFICES ASSUME StoreInv, [StoreNext]_vars PROVE StoreInv'
  OBVIOUS
<1>1. LogInv
  BY DEF StoreInv
<1>2. LogInv' /\ Grows(audit, audit')
  BY <1>1, StoreLogs, LogKept, LogOnlyGrows
<1>3. CASE Tick
  BY <1>3, TickKeeps
<1>4. CASE Crash
  BY <1>4, CrashKeeps
<1>5. CASE BeginSweep
  BY <1>2, <1>5, BeginSweepKeeps
<1>6. ASSUME NEW a \in Writers, Requested(a)
      PROVE  StoreInv'
  BY <1>2, <1>6, RequestedKeeps
<1>7. ASSUME NEW a \in Actors, Step(a)
      PROVE  StoreInv'
  BY <1>2, <1>7, AppendCreationKeeps, InsertCreatedKeeps, ListAuditKeeps, FindRunKeeps,
     InsertReplayedKeeps, RepairProjectionKeeps, AlreadyAppliedKeeps, ProveKeeps,
     LookUpKeeps, AppendRecordKeeps, SwapProjectionKeeps, EnsureFindingsKeeps,
     ConfirmFindingsKeeps
     DEF Step
<1>8. CASE UNCHANGED vars
  BY <1>8, UnchangedKeeps
<1> QED BY <1>3, <1>4, <1>5, <1>6, <1>7, <1>8 DEF StoreNext

\* What is written over a row: the state that follows from the one it replaces,
\* or a later one of the log.
LEMMA NeverBack ==
    ASSUME StoreInv, [StoreNext]_vars, projection' # projection, projection # None
    PROVE  projection' # None /\ projection'.revision >= projection.revision
<1>1. projection \in States /\ projection.revision \in Nat
  BY DEF StoreInv, StoreTypeOK, States
<1>2. ASSUME NEW a \in Actors, RepairProjection(a)
      PROVE  projection' # None /\ projection'.revision >= projection.revision
  <2>1. /\ HoldsAt(audit, "repair", job[a])
        /\ job[a].listed \in DOMAIN audit /\ job[a].seen < job[a].listed - 1
        /\ audit \in Seq(States)
    BY <1>2, StoreTyped DEF RepairProjection, HoldsAt
  <2>2. /\ Replayed(a) \in States /\ Replayed(a).revision = job[a].listed - 1
        /\ Replayed(a) # None
    BY <2>1, StoreAssumption DEF Replayed, StoreInv, LogInv
  <2>3. projection' = Replayed(a) /\ projection.revision = job[a].seen
    BY <1>2 DEF RepairProjection, Swapped
  <2> QED BY <1>1, <2>1, <2>2, <2>3
<1>3. ASSUME NEW a \in Actors, SwapProjection(a)
      PROVE  projection' # None /\ projection'.revision >= projection.revision
  <2>1. /\ HoldsAt(audit, "swap", job[a]) /\ audit \in Seq(States)
    BY <1>3, StoreTyped DEF SwapProjection
  <2>2. Recorded(audit, Made(job[a])) /\ Follows(job[a].run, Made(job[a]))
    BY <2>1 DEF HoldsAt
  <2>3. Made(job[a]) # None /\ Made(job[a]).revision = job[a].run.revision + 1
    BY <2>1, <2>2, StoreAssumption DEF Recorded, Follows
  <2>4. projection' = Made(job[a]) /\ projection.revision = job[a].run.revision
    BY <1>3, NextIsMade DEF SwapProjection, Swapped
  <2> QED BY <1>1, <2>3, <2>4
<1>4. ASSUME NEW a \in Actors, Step(a)
      PROVE  RepairProjection(a) \/ SwapProjection(a)
  BY <1>4
     DEF Step, AppendCreation, InsertCreated, ListAudit, FindRun, InsertReplayed,
         AlreadyApplied, Prove, LookUp, AppendRecord, EnsureFindings, ConfirmFindings, store
<1>5. ASSUME NEW a \in Writers, Requested(a)
      PROVE  UNCHANGED projection
  BY <1>5 DEF Requested, BeginCreate, BeginLoad, BeginTransition, BeginRecover, Begin, store
<1>6. ~Tick /\ ~Crash /\ ~BeginSweep /\ ~UNCHANGED vars
  BY DEF Tick, Crash, BeginSweep, Begin, store, vars
<1> QED BY <1>2, <1>3, <1>4, <1>5, <1>6 DEF StoreNext

-----------------------------------------------------------------------------
\* Whoever writes, retries, loses or dies in whatever order: what each operation
\* relies on at its awaits is so when it gets there.
THEOREM StoreInvariant == StoreSpec => []StoreInv
BY StoreStarts, StoreKept, PTL DEF StoreSpec

\* The store's variables and what every operation has in hand are of their types.
THEOREM StoreTypeCorrect == StoreSpec => []StoreTypeOK
<1>1. StoreInv => StoreTypeOK
  BY DEF StoreInv
<1> QED BY <1>1, StoreInvariant, PTL

\* The store, with all its writers, is the log: it starts as the empty log, and
\* every step of it appends one legal record to the log or leaves it alone.
THEOREM StoreImplementsLog == StoreSpec => LogSpec
<1>1. StoreInit => LogInit
  BY DEF StoreInit, StartFrom, LogInit
<1>2. StoreInv /\ [StoreNext]_vars => [LogNext]_audit
  BY StoreLogs
<1> QED BY <1>1, <1>2, StoreInvariant, PTL DEF StoreSpec, LogSpec

\* Every append to the audit, by whichever writer, is a step of the log.
THEOREM StoreAppendsOnly == StoreSpec => AuditIsALog
<1>1. StoreInv /\ [StoreNext]_vars => [LogNext]_audit
  BY StoreLogs
<1> QED BY <1>1, StoreInvariant, PTL DEF StoreSpec, AuditIsALog

\* The row of a run is always a state on its audit.
THEOREM StoreProjectionOnRecord == StoreSpec => []ProjectionOnRecord
<1>1. StoreInv => ProjectionOnRecord
  BY DEF StoreInv
<1> QED BY <1>1, StoreInvariant, PTL

\* The row of a run never goes back to an older state.
THEOREM StoreNeverGoesBack == StoreSpec => ProjectionNeverGoesBack
<1>1. StoreInv /\ [StoreNext]_vars
        => [projection # None =>
              projection' # None /\ projection'.revision >= projection.revision]_projection
  BY NeverBack
<1> QED BY <1>1, StoreInvariant, PTL DEF StoreSpec, ProjectionNeverGoesBack

\* A request that was answered with success is on the audit.
THEOREM StoreAnswers == StoreSpec => []AnsweredIsOnRecord
<1>1. StoreInv => AnsweredIsOnRecord
  BY DEF StoreInv
<1> QED BY <1>1, StoreInvariant, PTL

\* What is proved of the log holds of the audit the store keeps: no run that is
\* over or rests says that a fault is on,
THEOREM StoreLeavesNoFault == StoreSpec => []NoFaultLeftBehind
BY StoreImplementsLog, LogLeavesNoFault, PTL

\* an abort once asked for is carried out,
THEOREM StoreKeepsAborts == StoreSpec => []AbortSticks
BY StoreImplementsLog, LogKeepsAborts, PTL

\* and loadRun can replay the audit at any moment.
THEOREM StoreReplays == StoreSpec => []CanBeReplayed
BY StoreImplementsLog, LogReplays, PTL
=============================================================================
