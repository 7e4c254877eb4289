# A TLA+ model of the DevNet explorer

The repository is a blockchain explorer for a Dash-like devnet (`src/server`),
its web client (`src/client`) and, on top of the same server, a lab in which
operators run controlled fault experiments. The server is one Node.js process
with a MongoDB behind it. There is no transaction anywhere: every service is a
sequence of awaits on a node's RPC interface and on single-document or bulk
writes, several services share collections, and the process may be killed
between any two awaits and started again. That is what is modelled here.

Paths below are relative to `src/server/src/` unless they begin with `src/`.

## 1. Inventory

### Chain side

| component | state it keeps | operations | what is hard about it | what makes it correct |
|---|---|---|---|---|
| **Block indexer** `services/sync.service.ts`, `domain/reorg.ts` | the cursor (`SyncState "blocks"`), `Block`, `Transaction`, `ServiceEpoch`, `QuorumCommitment`, `SyncState.error` | `tick`, `syncOnce`, `rollbackIfReorged`, `rewindTo`, `indexBlock`, `confirmRewind`, `inspectRewind` | the node moves, falls back or falls silent between two awaits; a rewind is ten writes; a crash leaves any prefix of them | no hole below the cursor; one linked chain; derived rows describe exactly it; no deletion without a fork; shallow automatic rewinds, deep ones only by an operator; it reaches the tip or says why not |
| **List-diff walker** `services/mnListDiff.service.ts`, `domain/mnListDiff.ts` | its cursor (`SyncState "mndiff"`), `MasternodeEvent` rows, in memory a penalty map, `seeded`, `generation` | `tick`, `walk`, `seed`, `reset` | runs on its own timer while a rewind resets it; memory runs ahead of its persisted cursor | never past the indexer; events are exactly the penalty increases of the chain |
| **Quorum round collector** `services/quorumRound.service.ts`, `domain/dkgSchedule.ts`, `domain/collectorPolicy.ts` | `QuorumRound` | `collect` and its plan, listing, lookup, upserts, `resolvedAt`, streaks | ahead of the indexer; listing, description, block row and write are four moments; a listing that no longer reaches old rounds | no invented verdict; no complete round names an abandoned block; every closed window gets its verdict |
| **Masternode poller** `services/masternodePoller.service.ts` | `Masternode`, `MasternodeEvent`, snapshots, `lastCollectedHeight` | one poll: states, then events | a crash between the two bulk writes | no change of state without its event |
| **ChainLock watcher** `services/chainLock.service.ts` | the lock fields of `Block`, `Transaction.hasChainLock`, in memory a wake-up flag | derive from the pending observations, in batches; reconcile with the node; be told of an indexed block | three writers of one row, none waits for another; notifications come before the row they are about | a lock, once recorded, stands; whatever came first, lock and latency get on record; no notification waits for ever |
| **ZMQ listener** `services/zmq.service.ts` | `NodeObservation`, keyed by hash | store, then signal | a feed that drops silently | each message once |
| **Node access, gauges** `services/rpc.service.ts`, `services/metrics.service.ts` | short caches | read | answers of different moments | none of their own |
| **Chain statistics** `domain/roundStats.ts` and others | none | pure functions of rows | none | arithmetic |

The indexer is the owner of the chain: its rewind lowers the walker's cursor,
deletes its events, calls its `reset()` and puts rounds back to pending. Walker
and collector only read the indexer's cursor and rows.

### Simulation side

| component | state it keeps | operations | what is hard about it | what makes it correct |
|---|---|---|---|---|
| **Run state machine** `domain/simulationRunState.ts` | one `SimulationRunState` | `transitionSimulationRun`, `reconcilePersistedSimulationRun` | long sequences of legal events; three deadlines | no run rests with a fault that may be on; an abort is never undone |
| **Event-sourced run store** `services/simulationPersistence.service.ts`, `services/simulationMongo.repository.ts`, `domain/simulationAudit.ts` | audit events (append only), the run row (a projection), recovery findings | `createRun`, `loadRun`, `transitionRun`, `reconcileRun`, `recordRecoveryResult` | two collections and no transaction; concurrent writers; retried requests; crashes | the audit is an atomic log that replays; the row is a state of it, never an older one; what was answered is on record |
| **Reconcile sweep** `services/simulationReconcile.service.ts`, `domain/reconcileSweep.ts` | none | every 15 s, `reconcileRun` for the rows its filter selects | it alone moves an abandoned run | whatever has expired moves on |
| **Control plane** `services/simulationControl.service.ts` | control requests (frozen `acceptedAtMs`), artifacts | `create`, `arm`, `start`, `abort`, `recover`, `forceReleaseLiveLock` | each is a sequence over store, lock, queue and executor; two of them overlap | a run whose fault may be on holds the lab; every fault was announced; what never ran does not complete; an abort is kept |
| **Live-run lock** `domain/liveRunLock.ts` and its service | one lock document | acquire, release, by compare-and-swap | it is taken by one call and given back by another | one live run at a time |
| **Scheduled actions and dispatcher** `services/simulationDispatcher.service.ts`, `domain/actionLease.ts` | `SimulationAction` rows | enqueue, cancel, claim, settle, expire | a claim that outlives its lease or its worker; a status read awaits before the action | each action is settled, once |
| **Fault wrapper** `simulator/netemLease.ts`, `simulator/netemRunner.ts`, `simulator/netemWrapperHost.ts`, `simulator/netemWrapperMain.ts` | the job record (a state file), command files in their directories, outcome files; the lab itself | take a command, apply or stop, clear, sweep, boot recovery | another process beside containers it does not control; docker calls and saves that fail half-way, retries, crashes, a first cycle that starts beside boot recovery | what is in force is on record; every fault ends with its lease; a refused command is not acted on; each command leaves the queue |
| **Live executor** `simulator/dockerLiveExecutor.ts`, `simulator/liveExecutorPlan.ts` | none of its own | submit a command and wait for its outcome, probe the lab | answers that come too late | a timeout is not taken for a refusal |
| **Observation, evidence, experiments** | reports, artifacts | computed and inserted once | none that interleaves | arithmetic |
| **HTTP API, sessions, client, scripts** | sessions | reads and formatting | none modelled | none modelled |

`PROJECT.json` lists all of them with a status and the reason of what is left
out, and under `hazards` each place where one of these behaviours bites, with
the property that watches it or the module of the plan that will.

## 2. The plan

Modules are written so that they can be proved about: constants with named
assumptions, one action per await, no recursive operator outside the modules
that only give TLC its constants.

Done, in this order:

1. `ChainStore` (shared state, the node) and `BlockIndexer`, the core; its proofs
   in `BlockIndexerProofs`.
2. `ListDiffWalker` and `RoundCollector`, composed with the indexer in
   `ChainServices`, in turns and overlapping; their proofs in
   `ChainServicesProofs` and `InTurnsProofs`.
3. `RunState` (the pure functions), `RunLog` (the abstract specification of a
   store) and `RunStore` (the detailed one, which implements it); their proofs
   in `RunLogProofs` and `RunStoreProofs`.
4. `FaultWrapper`, the wrapper process with its lab and command directory, and
   `LabLedger`, the abstract specification of what its callers may rely on; its
   proofs in `FaultWrapperProofs`.
5. `LiveControl`, with `LiveRunLock`: starting, aborting and recovering live runs
   over the lock, the queue, the dispatcher and the executor; its proofs in
   `LiveControlProofs`.
6. `ChainLocks`: listener, watcher and indexer on one row; its proofs in
   `ChainLocksProofs`.

What is left is listed, with the reasons, in section 6.

Things seen while reading that no run asks, each a reading of the code and not
a checked result.

*Chain.* The block is written before the link check refuses it
(`sync.service.ts:939-994`); `rewindTo` asks again for the surviving hash (648); a
commitment that is mined in two blocks of one index keeps the first
(`$setOnInsert`, 771); a walker's late bulk write after `DropEvents`
(`mnListDiff.service.ts:171`); a crash between the first and the ninth write of a
rewind leaves the walker's cursor above the index (`sync.service.ts:649`); a
collector's write after `ResetRounds` (`quorumRound.service.ts:487`); a failed
round just below the fork point that the reset does not reach
(`domain/reorg.ts:131`); a penalty that is on at heights 0 and 1 is never seen to
rise, because the walk starts at 2.

*ChainLocks.* A block that is indexed while a batch runs, after the batch has looked
it up in vain, finds the flag down in `notifyBlockIndexed`, so the row waits for the
next block or the next tick, although "this closes that short race"
(`chainLock.service.ts:137`); what is pending beyond `OBSERVATION_BATCH` leaves no
flag; a rewind deletes `firstSeenAt` with the row and the observation that gave it is
already marked applied.

*Masternode poller.* The states of a poll are written before its events
(`masternodePoller.service.ts:283`), so a pass that dies in between loses the events;
`getblockcount` and the list are two calls, so the snapshot of a height may hold the
counts of the next one.

*Measurement.* `roundsSettledForFinalize` looks at the rows there are, so a
collector that is behind lets a report through before its last rounds exist; a
process that dies between the insert of a report and the mark of its run computes a
report with another `generatedAtMs` at every later pass, which the store refuses as a
conflict (`simulationObservation.service.ts:181-183`).

*Run store.* A healthy run reported as `PROJECTION_AHEAD_OF_AUDIT`
(`simulationPersistence.service.ts:194`); a cooldown the sweep never ends because its
filter reads a row that lags behind the audit (`domain/reconcileSweep.ts:13`); an
abort whose frozen `acceptedAtMs` makes every retry of it stale
(`simulationControl.service.ts:79`).

*Live runs.* `forceReleaseLiveLock` takes a failing load for an absent run
(`simulationControl.service.ts:938`; the model has the constant `LoadsFail` for it,
with which `LeaseHoldsLab` is violated); a start between intent and submission, or an
action between its status check and its submission, may hand a fault to the wrapper
after recovery has proved the lab clean, and its lease alone ends it (687,
`simulationDispatcher.service.ts:132`); an action that failed is never tried again,
although "the action can be retried while attempts remain"
(`simulationDispatcher.service.ts:165`); a start that is resumed after an abort was
begun finds its schedule settled as `compensated`; an action that was submitted before
a crash may be settled `compensated`, "nothing was applied", by the second attempt.

*Wrapper.* An outcome `applied` that becomes `rejected` when the wrapper dies between
record and ack and the lease ends before the command is claimed again, against "never
overwritten with a different verdict" (`simulator/netemWrapperHost.ts:327`); an apply
that fails, and on its retry lands behind the clear that followed it
(`simulator/netemWrapperMain.ts:131`); a claim that dies between its rename and its
rewrite of the file, which neither counts the attempt nor leaves a readable file
(`simulator/netemWrapperHost.ts:423`); a wrapper that cannot read its record at boot
and starts clean over faults that are on (`simulator/netemRunner.ts:288`).

## 3. The modules

| module | what it is | source |
|---|---|---|
| `ChainStore` | the block tree, the node and what it answers, the collections, the reset of a round | external node; `models/*` |
| `BlockIndexer` | the indexer, one action per await | `services/sync.service.ts`, `domain/reorg.ts` |
| `BlockIndexerProofs` | proofs about it | |
| `ListDiffWalker` | the walker | `services/mnListDiff.service.ts`, `domain/mnListDiff.ts` |
| `RoundCollector` | the collector for one unrotated profile | `services/quorumRound.service.ts`, `domain/dkgSchedule.ts`, `domain/collectorPolicy.ts` |
| `ChainServices` | indexer, walker and collector in one process: in turns, racing on a line, and a walk that overlaps a rewind | all three |
| `ChainServicesProofs` | what holds whatever overlaps, and on a chain that does not fork | |
| `InTurnsProofs` | in turns, over forks: index, rounds and events follow one chain | |
| `BlockTrees`, `MCBlockIndexer`, `MCChainServices` | small block trees and the constants of the runs | |
| `RunState` | one run's state, the events it accepts and what they and the deadlines make of it | `domain/simulationRunState.ts`, `domain/reconcileSweep.ts` |
| `RunLog` | **abstract**: an append-only log of a run | `domain/simulationAudit.ts` (replay) |
| `RunLogProofs` | proofs about the log | |
| `RunStore` | **detailed**: audit collection and run row with concurrent writers, retries and crashes | `services/simulationPersistence.service.ts`, `services/simulationMongo.repository.ts` |
| `RunStoreProofs` | the store implements the log, and the rest of its safety | |
| `MCRunStore` | prepared databases and the constants of the runs | |
| `FaultWrapper` | the wrapper process, its state file and command directory, and the lab | `simulator/netemLease.ts`, `netemRunner.ts`, `netemWrapperHost.ts`, `netemWrapperMain.ts` |
| `LabLedger` | **abstract**: what a caller of the wrapper may rely on | the interface of `netemWrapperHost.ts` |
| `FaultWrapperProofs` | nothing in force is forgotten, refused is final, and the wrapper implements the ledger | |
| `MCFaultWrapper` | the constants of its runs | |
| `LiveRunLock` | the lock's decisions, as operators on its row | `domain/liveRunLock.ts` |
| `LiveControl` | live runs on one lab: start, abort, recover, the dispatcher and the executor | `services/simulationControl.service.ts`, `simulationDispatcher.service.ts`, `simulationAction.repository.ts`, `domain/actionLease.ts`, `simulator/dockerLiveExecutor.ts` |
| `LiveControlProofs` | who holds the lab, and what the records say of the faults | |
| `MCLiveControl` | labs and schedules of its runs | |
| `ChainLocks` | listener, watcher and indexer on the rows of the blocks | `services/chainLock.service.ts`, `zmq.service.ts`, `sync.service.ts` |
| `ChainLocksProofs` | latencies are derived and nothing pending is forgotten, whatever fails | |

Reading a module next to the code:

* **A step is an await.** A variable `pc` (`walkPc`, `roundPc`, one per actor in
  `RunStore`) names the await the service is at; "running" is `pc # "idle"`. An
  action is what happens when that await returns, up to and with the next write
  or question. What a service has read earlier and still uses (`tip`, `blk`,
  `expected`, `penalties`, `listed`, the run it has loaded) is a variable, so
  that a stale value can be used late, as in the code.
* **The node** is its best block. A hash commits to a history, so `ancestor[b][h]`
  gives the block at height `h` below `b`, and everything a node answers follows
  from the best block at the time of the question. It may move to any block
  (reorganise, fall back while reindexing) and may be silent. A silent node is
  an RPC error; the retries inside `rpc.service.ts` are not steps of their own.
* **A collection** is a function from its unique key to what distinguishes the
  row: `blockRows[h]` is the hash stored for height `h`, or `None`.
  `$setOnInsert` writes only where there is `None`; a unique index is a guard
  (`UpsertBlock`, `Taken`, `Duplicate`).
* **Overlap.** `ServicesRace` interleaves the indexer with one other service at
  every await, on a chain without forks. `ServicesInTurns` keeps passes apart, which
  lets one run ask what the three leave behind when a fork is rewound, and liveness.
* **A crash** puts every `pc` to idle and loses what is in memory; what has been
  written stays.
* **Names** are those of the source where they exist: `ReorgVerdict`,
  `RewindStep`, `ClassifyRound`, `AbsenceIsEvidence`, `ShouldRefreshRound`.
  `PROJECT.json` `map` gives the lines of every definition.
* Definitions whose comment begins with `mutant:` are wrong on purpose. They are
  not part of any specification; each of them is a plausible slip that the
  property named with it in `PROJECT.json` finds.

In `RunStore` an actor is a request being served or the sweep. Its `job` holds the
operation, the event, and what loadRun found; `tries` and `rounds` are the two
retry counters of the code (the repair loop and the CAS loop, both bounded by
`MAX_CAS_ATTEMPTS`). `accepted` is the control claim, which freezes the time of a
request, so a retry brings the same event again. `RunLog` shares the variable
`audit` with it: the abstract specification is `LogSpec` over that variable alone,
and `RunStore` extends it, so the refinement mapping is the identity on `audit`.

In `FaultWrapper` a slot is a container and a class, since the record holds at most
one job of a class for a container; `lab[s]` is what is in force there and `jobs[s]`
the job of the state file. `place[c]` is the directory the file of command `c` is in.
A docker call has two results: it returns, or it is reported as failed and has or has
not had its effect (a partition is several calls, a timeout says nothing). Stopping a
container takes its qdisc with it, and nothing can be applied inside a stopped one.
`serialise` is the guard `ChainFree`: the cycle awaits each of its own operations, so
the only operation that can be ahead of one of them is boot recovery. `claim` and
`recoverInflight` are one step each; no other process renames files there. The write
of an outcome never fails, because the code logs and goes on when it does.

`LabLedger` has the waiting commands, the faults in force and the outcomes, and
nothing of how the wrapper works: `Ledger` in `FaultWrapper` maps `place` to waiting
and `lab` to in force. A command comes into force only while it waits and is not yet
refused; a fault may end at any moment. `LiveControl` relies on less: a command it
submits is answered, refused, or not answered in time.

In `LiveControl` a call is a request being served; `call[q].at` is its await, `from`
the activation time it works with, `mine` whether it wrote the lock (`acquiredHere`).
The store is one step here, because `RunStore` shows that its many are: `record[r]` has
the ids of the events on the audit of `r` and `run[r]` the state they made, by the same
`RunState`. Times of a run count from its creation, and the lock of a run is blocking
until its run expires. The dispatcher is `worker`; a planned end makes it wait for a
`recover` of its own. `Takes` answers an event that is on record without a second
effect; that a repeated id with other content is refused is left out, because one call
is served for a key at a time and `acceptedAtMs` is frozen.

In `ChainLocks` `applyPc`, `tickPc` and `indexPc` are three passes of one process, and
`deferred` is the flag by which they wake each other. The row of a block keeps its
flag, whose sighting the lock time is, and whether a latency was derived; the block
has one transaction.

## 4. The runs

All with two workers, each within a few minutes.

| run | question | bounds and why they are enough |
|---|---|---|
| `ServicesInTurns` | passes that do not overlap, over forks, silence and crashes. Of the indexer: `NoHolesBelowCursor`, `AutomaticRewindIsShallow`, `LinkedIndex`, `DerivedRowsMatch`, `RewindsToForkPoint`, `CatchesUpOrSays`; of the three: `ServicesTypeOK` (with `TypeOK`), `EventsAreTheChains`, `FormedOnChain`, `FollowersCatchUp` | a tree of height 4 whose branches fork at shallow and at too deep heights, rollback depth 2, batches of 3 with a checkpoint inside: automatic and confirmed rewinds and refusals occur. Alone, the indexer sees the node go anywhere between its passes; beside the followers the node goes to the winning chain. A masternode is punished at different heights of the branches, a commitment is mined on both, one block later on the winning one, and a walk of two heights needs several batches |
| `ServicesRace` | every interleaving of the indexer and a follower, silence, crashes, lateness, no fork: `EventsAreFacts`, `VerdictsAreFacts`, `NothingLostWithoutFork` | one chain of 4; a penalty that rises and decays; two rounds of three blocks, both mined, of which the listing holds one, and a ban wave between them, so that `failed`, `impossible` and `pending` all compete with `formed` |
| `WalkLostEvents` (violation) | does the generation check protect the rewound cursor? | the overtaken tree; see finding 2 |
| `IndexerStuck` (violation) | does the index still catch up when the node moves inside a pass? | two chains of height 3; see finding 1 |
| `RunStore` | requests, their retries, the sweep, crashes at any await: `ProjectionOnRecord`, `AnsweredIsOnRecord`, `AuditIsALog`, `ProjectionNeverGoesBack`, `CanBeReplayed`, `NoFaultLeftBehind`, `AbortSticks`, `ExpiredRunsMoveOn` | two kinds of behaviour from prepared databases: two writers at once from an empty database, an armed run and a run in recovery, where activation, abort and two contradicting outcomes race; and one request at a time beside the sweep, also from a run whose fault is on, with a clock that runs past the fault lease, the cooldown and the expiry. Two attempts of each loop, so that running out of them happens |
| `RunStoreLostFindings` (violation) | are the findings of an answered recovery on record? | see finding 3 |
| `FaultWrapper` | failing docker calls and saves, crashes anywhere, boot recovery beside the first cycle, lapsing leases: `NothingForgotten`, `RefusedIsFinal`, `KeepsLedger`, `FaultsEnd`, `CommandsSettle` | one container that is delayed, stopped and started, so that the two classes meet in one network namespace; leases that end at 1 and 2 on a clock of 2, so that one lapses before, during and after its apply; two attempts, so that running out of them happens |
| `FaultWrapperFalseApplied` (violation) | is the fault on when its apply is answered with `applied`? | one container, one delay; see finding 4 |
| `LiveLab` | starts, aborts, recoveries and planned ends of three runs at every await, a crash, lapsing leases: `LeaseHoldsLab`, `EveryFaultIsAnnounced`, `CompletedRanItsFault`, `AbortIsKept`, `SettledIsFinal`, `ActionsSettle` | A's lock is in force when B is created and lapses as C is; A has a scheduled stop and a planned end that is tried twice. Four sets of calls: A ends by plan and is aborted; B asks while A runs; C starts as A's lock lapses and A's start is retried; B is started and recovered, each twice. `ActivateBy` = 0 keeps every start at the creation of its run |
| `LiveOverlap` (violation) | does the lab hold one live run when a start is sent twice? | A is started twice by one operator, B once; see finding 5 |
| `LocksOnRecord` | every interleaving of listener, derivation, reconciliation and indexer, lost notifications, two failures or crashes: `LatencyIsDerived`, `PendingIsFlagged`, `LocksArrive`, `AllApplied` | one block, whose notification and whose lock come in any order with its row and with a poll. What is done for one block touches no other; blocks share the batch and the flag, and a batch holds both notifications |
| `LocksOutOfStep` (violation) | do block and transactions agree on the lock? | one block, one failure; see finding 6 |

Heights, clocks, retry counters, deaths and calls are bounded by `MaxHeight`, `Horizon`,
`MaxAttempts`, `MaxCrashes`, `MaxMishaps` and `Callings`; no run uses a state constraint. Deadlock is checked in every run but the two of `LiveControl`, where all calls may have
been made and the clock stands at its bound: there the system may stop.

What the turns of `ServicesInTurns` leave out of the indexer, a node that moves between
two awaits of one pass and a death at any of them, is covered for `TypeOK`,
`NoHolesBelowCursor` and `AutomaticRewindIsShallow` by the theorems of section 5, which
are about `Spec`: any node, at any await. On a line `ServicesRace` covers it for the
followers.

### Fairness

Liveness is stated under what the code schedules and nothing more. A pass in
flight is weakly fair, because each of its awaits returns or throws. `setInterval`
fires again whatever the last tick did, and a tick that was dropped because
another pass was running is followed by another, so that a tick begins is
strongly fair. Nothing is assumed of operators, requests, crashes or the node:
the properties are of the form "if the node settles and answers, and the process
stays up, then". `FollowersCatchUp` assumes besides that `quorum info` describes a
listed quorum sooner or later. `ExpiredRunsMoveOn` assumes that time passes and
the sweep's timer fires.

In `LiveControl` the dispatcher's timer fires, time passes, and the recovery that a
planned end calls goes on to its end; operators owe nothing. In `ChainLocks` each of the
passes goes on and the watcher's timer fires; the node, the wire and the listener's
socket owe nothing, so `LocksArrive` holds of blocks whose notifications were all lost.

For the wrapper, while it is up its timer fires and its awaits return. An undo that
is tried again and again succeeds some time, and so does the save of a sweep: strong
fairness of exactly these two results, because a docker daemon that never starts a
container again is out of the wrapper's hands. Nothing in the repository restarts a
wrapper that has died, so that somebody does is not fairness but the premise
`KeptRunning` of `FaultsEnd` and `CommandsSettle`: it is up again and again, and from
some moment on it dies only over commands it has claimed, as often as it likes; these
deaths are counted in the command files and run out. A wrapper that is killed for ever
without a command in hand ends no fault, and nothing says it does.

### Findings

1. **A row above the cursor that no later tick can replace** (`IndexerStuck`,
   `services/sync.service.ts:939`). When the chain moves inside a batch, the rows
   the batch has written stay, the upsert filters on the hash while the height is
   unique, and every later tick fails on the duplicate key. The rewind never
   looks there: the cursor agrees with the node.
2. **A walk that overwrites a rewound cursor** (`WalkLostEvents`,
   `services/mnListDiff.service.ts:178`). The generation is compared before the
   write is sent and captured after the cursor was read; a rewind in either gap is
   undone by the walk, and the events it dropped are not walked again.
3. **Findings that get lost** (`RunStoreLostFindings`,
   `services/simulationControl.service.ts:793`). After a crash between append and
   swap, `loadRun` repairs the state of the row alone, and the retry of `recover`
   is answered with success from the audit without looking at the findings.
4. **Applied, and never on** (`FaultWrapperFalseApplied`,
   `simulator/netemLease.ts:389`). An apply records its job and then fails in docker;
   the retry finds the identical job under a live lease, has nothing to do, and the
   command is answered with `applied`. For `dsl` faults `planDslSet` looks for the
   answer of the node before it believes the record; `planApply` and
   `planServiceStop` believe it.
5. **The winner's lock, freed by the loser after all** (`LiveOverlap`,
   `services/simulationControl.service.ts:667`). The comment says that only the attempt
   that created the lock gives it back, and the code does that; but the attempt that
   created the lock need not be the one that wins the transition. When the other start
   of the same operator, which found the lock `already-held`, appends its intent first,
   the creator fails, frees the lock, and another run may start beside a live fault.
6. **A lock that never reaches the transactions** (`LocksOutOfStep`,
   `services/chainLock.service.ts:385`). The block's row and its transactions are two
   writes. Between them a failure or a death leaves the row locked, and a locked row is
   asked about by nobody: the second write is never made.

## 5. What is proved

TLAPS proves the following for every value of the constants that satisfies the
named assumptions of the modules: every block tree, schedule, batch size, checkpoint
distance and rollback depth; every set of writers and requests, every number of attempts,
every expiry, cooldown and clock. Most of the assumptions only say what a constant
is. Two say what the chain is like, because nothing in `src/` could make it
otherwise: `ConsensusAssumption` (a commitment and a transaction are mined once on a
chain, and nobody is punished at heights 0 and 1) and `CommitmentAssumption` (a round
has one commitment on a chain, mined inside its window and only with enough
masternodes; the last window of a retired profile closes before its last listing).
Every safety property the passing runs check is stated by a theorem.

**The indexer** (`BlockIndexerProofs`, for `Spec`: any node, any crash).
`NoHolesBelowCursor` is not inductive: that a batch may move the cursor up to
where it stands needs to know that there is a row at every height below it, and
that a rewind may go on after the cursor was moved needs to know that it deletes
only above the cursor. `IInv` adds this as `PassInv`: where a pass stands relative
to the cursor at each await. Every stage is one lemma; from `IInv` follow
`IndexerTypeCorrect`, `IndexerNoHoles` and the action property `IndexerShallow`.

**The services, whatever overlaps** (`ChainServicesProofs`). `ServicesInv` is `IInv`,
the types of all three services, and `WalkInv`, what a walk has in hand at each await. One
lemma per kind of step shows that it survives, so `ServicesInvariant` holds of all three
specifications, and `ServicesTypeCorrect` and `ServicesNoHoles` follow.

For `RacingSpec` three theorems have the premise `OneLine`: no two blocks compete, which is
the chain the properties are about. `NothingIsLost` and `EventsStayFacts` are not inductive:
`OnLine` adds that the indexer never reaches a stage of a rewind, because what it has
stored is the only block of its height (`LineVerdict`), and `WalkOf` says of each await
of a walk how far the record is complete (`Walked`), which height its map of penalties is
of (`MapHeight`) and of which block the answer in hand is. `WalkOf` speaks of a chain and
of a set of heights at which the walk is known to be of it. On a line this is every
height; over forks, below, only part of them; so the walker's steps are proved once
(`WalkFollows`). `VerdictsStayFacts` needs `ListedOnLine`, that what a pass of the collector
has listed is what the one chain lists at the observation height, whatever the node
has done since; its core is `AbsentIsUncommitted`: a round that is due and is
not listed, while the listing names an older one or none at all, was never
committed, since a newer commitment can only have pushed out the older ones first. It has one
more premise, `SnapshotsTell`: the newest snapshot at or below a round decides as the true
number of masternodes would whether they sufficed. The code can do no better than
its snapshots; where the poller was down across the height, a verdict may be wrong.

**The services in turns** (`InTurnsProofs`, for `ServicesSpec`: any forks, any crash of a
follower or between passes). `IndexInTurns` says of every collection that it follows the
chain its pass builds on as far as the pass has written it, and ends there unless a
cut of the rewind is outstanding; the chain is that of the cursor or, while a batch is
written, that of the block in hand; `SearchInv` says of the search for the
fork point which heights it has ruled out. From `IndexFollowsChain` follow `IndexLinked`,
`DerivedRowsExact`, `RewindStopsAtFork` and `ServicesShallow`. `RoundsInTurns` adds that a
complete formed round can be found by a rewind, being at the height of a block that is on the indexed
chain or is about to be cut (`FormedRoundsOnChain`). `EventsInTurns` is `WalkOf` at
the heights at which the indexed chain is still that of the node (`Agreed`): above them the
walk may have recorded the other chain under the indexer's numbers, and what makes
this harmless is that the rewind that follows takes all of it away. For the two events
theorems the chain that reaches `MaxHeight` is one (`OneWinner`): with two winners the node
could settle on the first, be walked, and turn to the second.

**The ChainLock watcher** (`ChainLocksProofs`, for `LockSpec`: any chain, window, batch and
mishaps; from `LockAssumption` and `NoneAssumption`). `LatencyIsDerived` is a conjunct of
`LockInv` and needs `SeenStillHolds`, that the block read before a derivation's
write still says what it said of the sight and the latency, although indexer and
reconciliation write the same row in between. `PendingIsFlagged` needs
`BatchCoversPending`: while a batch runs, every pending observation is in it, or something has
raised a flag; that a backlog no longer than a batch is taken whole is `BatchIsWhole`.
The theorems are
`LockInvariant`, `LockTypeCorrect`, `LatencyAlwaysDerived` and `PendingAlwaysFlagged`.

**The log** (`RunLogProofs`, for `LogSpec`). `LogInv` says of the log that every
record is reproduced from the one before it, that records are numbered by
revision, that each id occurs once, and of each snapshot that it is `Sound`: in
a quiet status no fault is on and no lease is held, and an abort is followed by
statuses of an abort alone. That ids are unique is the part that needs a
strengthening (`NamesPlace`): the ids the program makes up from a deadline must
be seen not to repeat, because a resumed abort names the revision it was resumed
at, a cooldown ends once and a run times out once. `LogReplays` then shows that
the event rebuilt from a snapshot is the event that made it.

**The store** (`RunStoreProofs`, for `StoreSpec`: any number of writers, retries,
crashes). `StoreInv` adds to types, log and projection what an operation may rely
on at each await (`HoldsAt`), however much has been appended since it last
looked: the run it holds is a record of the log; the event it is about to append
is accepted by *that* run. The central step is `AppendRecordLogs`: an append
succeeds only if the sequence number is free, which makes the run in hand the
newest record, so the event is legal there. `HoldsStays` shows that what others
append disturbs nothing. It follows that the store implements the log
(`StoreImplementsLog`, `StoreAppendsOnly`), that the row is a state of the log and
never goes back (`StoreProjectionOnRecord`, `StoreNeverGoesBack`), that what was
answered is on record (`StoreAnswers`), and with the log's theorems that the three
properties of `RunLog` hold of the store.

**The wrapper** (`FaultWrapperProofs`, for `WrapperSpec`: any lab, commands, leases,
attempts, failures and crashes; from `WrapperAssumption`). `NothingForgotten` is not
inductive: between an effect and the write that follows it one must know what that
write will leave. `CoveredMidway` says it of a command and of the sweep (the plan about
to be saved has all the record has; what is about to be dropped has been undone),
`CoveredAtBoot` of boot recovery, which writes the record as a whole from a copy:
the copy is still the record, and everything in force is yet to be undone or has
been kept. `Serialised` is why the copy is still the record: until boot recovery is
over no command and no sweep gets past its load. `RefusedIsFinal` follows from
`RefusedStays`: the file of a refused command is out of the queue, or its attempts
are spent, or its lease is over, and none of these is ever undone. The theorems are
`WrapperInvariant`, `WrapperTypeCorrect`, `WrapperForgetsNothing` and
`WrapperRefusesForGood`. `WrapperKeepsLedger` is the refinement: each step of the wrapper
is a step of `LabLedger` or leaves its three variables alone; that an effect belongs to
a command that still waits is the types' business.

**Live runs** (`LiveControlProofs`, for `ControlSpec`: any runs, requests, schedules,
operators, deaths and clocks; from `ControlAssumption`). None of the properties is
inductive, because at each await a call acts on what it saw some awaits ago while
others move the run. `ControlInv` has `Good`, which relates a run to its record (a fault
lease only after the intent, a cooldown only after the activation, an abort only with
the abort's status), and `InHand`, which says of each await what is still so of the run
when the call gets there, and which is shown to survive every step of every other call.
From it follow `ControlTypeCorrect`, `FaultsAnnounced`, `CompletedRan`, `AbortsKept` and
`SettledStays`. `LabHeld` needs two premises besides: `OneStart`, two start requests of
one run by one operator are the same request, and that a failed load does not pass for
an absent run. Finding 5 is what happens without the first, `forceReleaseLiveLock` without the
second, so they are what the code would have to ensure. Under them `HoldsLab` is
inductive: the run of a lease, and the call that is between the lock and the intent,
hold the lock. `LabNeverShared` follows.

**Only model-checked**: liveness (`CatchesUpOrSays`, `FollowersCatchUp`,
`ExpiredRunsMoveOn`, `FaultsEnd`, `CommandsSettle`, `ActionsSettle`, `LocksArrive`,
`AllApplied`), which is out of this prover's reach; the six properties of the runs
that expect a violation; and the racing properties on chains that fork, which do not hold
(`WalkLostEvents`).

## 6. What is not modelled, and why

* MongoDB calls that fail. A write that fails is a pass that ends at that await,
  which for what is stored is a crash there; that the process goes on with its
  memory intact is modelled only for RPC errors.
* The payee, member-count and service-epoch backfills of the indexer, which fill
  columns and never move the cursor, and its activity report.
* Of the walker's events only penalty increases: the others are read off one diff.
* Of the collector one unrotated profile; the member list of a round is data.
  A round's streak is read and written in one step.
* In `RunStore`, `appendRunAudit` is one step: its failing insert and the two
  lookups that tell why cannot see anything else in between, because a record
  once written stays. `createRun` is begun only while there is no row; afterwards
  it is a load. Run metadata and the measurement flags are data nothing decides on.
* One run. The collections hold many, but no operation of the store reads two.
* Requests are bounded by the set `Asked` of events they may ask for, the clock by
  `Horizon`.
* Of the wrapper the `dsl` class, whose faults the node retires by itself at a
  height; the heartbeat; a state file that cannot be read, at which the code starts
  clean; malformed command files; and a docker call that goes on after the wrapper
  that made it has died.
* Of the control plane `create`, `arm` and the preflight, which write an armed run and
  nothing else; the reads that refuse a start before it writes anything; dry runs; a
  database that fails in the middle of a call, except where the code swallows it
  (`GivesBack`, `Releases`). One dispatcher: with one process a second worker is only
  what a crash leaves behind.
* Of the watcher the seed sighting, the name of the signing profile, and rewinds, which
  delete a row with all it has.
* The masternode poller, whose two writes section 2 describes: there is nothing in it
  that interleaves with another writer.
* Measurement, statistics, evidence, preflight, experiments: functions of rows, computed
  and stored once or not stored. Their questions are arithmetic, which tests reach.
* The web client, the HTTP routes, sessions and scripts: presentation and plumbing.
