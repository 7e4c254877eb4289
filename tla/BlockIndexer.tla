---------------------------- MODULE BlockIndexer ----------------------------
(***************************************************************************)
(* The block indexer, services/sync.service.ts with domain/reorg.ts.       *)
(*                                                                         *)
(* One step per await that matters: the node is asked in one step and the  *)
(* answer is used in it, every collection is written in a step of its own, *)
(* and between any two steps the node may move, fall silent, or the        *)
(* process may crash.  `running` is pc # "idle".                           *)
(***************************************************************************)
EXTENDS ChainStore

CONSTANTS
    BatchSize,        \* config.sync.batchSize
    ProgressEvery,    \* PROGRESS_EVERY
    MaxRollbackDepth  \* MAX_ROLLBACK_DEPTH

ASSUME IndexerAssumption ==
    /\ BatchSize \in Nat \ {0}
    /\ ProgressEvery \in Nat \ {0}
    /\ MaxRollbackDepth \in Nat \ {0}

VARIABLES
    pc,        \* the await the pass is at; "idle" when no pass is running
    tip,       \* the node's height as this pass read it
    at,        \* height being indexed, walked, probed or rewound to
    to,        \* last height of the batch; upper bound of the bisection
    expected,  \* the hash the next block must name, None for no check
    blk,       \* the block in hand
    succ,      \* the successor the node reported for it
    actor,     \* whose rewind this is: "tick" or "operator"
    syncError  \* SyncState.error, by kind

jobVars == <<tip, at, to, expected, blk, succ, actor>>
indexerVars == <<pc, jobVars, syncError>>
sharedRest == <<roundRows, eventRows, diffCursor, walkerMemory>>
vars == <<nodeVars, cursor, indexRows, sharedRest, indexerVars>>

\* Stages of rewindTo, in the order the code awaits them.
RewindStages == {"move_cursor", "drop_blocks", "drop_txs", "drop_epochs",
                 "drop_commitments", "reset_rounds", "clear_successor",
                 "drop_events", "lower_diff_cursor", "reset_walker"}

IndexStages == {"fetch", "getblock", "commitments", "epoch", "txs", "upsert",
                "link", "progress"}

Stages == {"idle", "check", "walk", "resume", "inspect", "probe"}
            \cup RewindStages \cup IndexStages

Errors == {"none", "rpc", "undecidable", "operator", "midbatch", "duplicate"}

-----------------------------------------------------------------------------
\* mutant: a node that gives no hash reads as a node that gives another one
ReorgVerdict_SilenceDiffers(height, hash, nodeTip, nodeHash) ==
    IF nodeTip < height THEN "wait"
    ELSE IF nodeHash = hash THEN "continue"
    ELSE "rewind"

\* domain/reorg.ts, reorgVerdict: silence never decides anything, and a tip
\* below the indexed height is refused before its hash is consulted.
ReorgVerdict(height, hash, nodeTip, nodeHash) ==
    IF nodeTip < height \/ nodeHash = None THEN "wait"
    ELSE IF nodeHash = hash THEN "continue"
    ELSE "rewind"

\* mutant: the floor is crossed by one
RewindStep_FloorOffByOne(height, floor, stored, nodeHash) ==
    IF nodeHash = None THEN "wait"
    ELSE IF stored # None /\ stored = nodeHash THEN "settle"
    ELSE IF height < floor \/ height = 0 THEN "operator"
    ELSE "step"

\* mutant: the walk settles on any height that has a row
RewindStep_AnyRowSettles(height, floor, stored, nodeHash) ==
    IF nodeHash = None THEN "wait"
    ELSE IF stored # None THEN "settle"
    ELSE IF height - 1 < floor THEN "operator"
    ELSE "step"

\* domain/reorg.ts, rewindStep: only an answer that differs moves the walk.
RewindStep(height, floor, stored, nodeHash) ==
    IF nodeHash = None THEN "wait"
    ELSE IF stored # None /\ stored = nodeHash THEN "settle"
    ELSE IF height - 1 < floor THEN "operator"
    ELSE "step"

\* mutant: no depth is automatic but the last block
Floor_Cursor == cursor.height

Floor == IF cursor.height > MaxRollbackDepth
         THEN cursor.height - MaxRollbackDepth
         ELSE 0

-----------------------------------------------------------------------------
IndexerMemoryInit ==
    /\ pc = "idle" /\ tip = 0 /\ at = 0 /\ to = 0
    /\ expected = None /\ blk = None /\ succ = None /\ actor = "tick"

WalkerMemoryInit ==
    /\ seeded = FALSE /\ penalties = NoPenalties /\ overtaken = FALSE

Init ==
    /\ StoreInit
    /\ WalkerMemoryInit
    /\ IndexerMemoryInit
    /\ syncError = "none"

\* The pass is over: its locals die with it.
Forget ==
    /\ pc' = "idle" /\ tip' = 0 /\ at' = 0 /\ to' = 0
    /\ expected' = None /\ blk' = None /\ succ' = None /\ actor' = "tick"

\* tick's catch: the error is recorded and nothing else is touched.
Abandon(error) ==
    /\ Forget
    /\ syncError' = error
    /\ UNCHANGED <<cursor, indexRows>>

\* The rest of a pass that moves on from one stage to the next.
Goto(stage) ==
    /\ pc' = stage
    /\ UNCHANGED <<jobVars, syncError>>

\* mutant: a batch is started when there is nothing above the cursor
StartBatch_AtTip(last, hash, nodeTip) ==
    IF last > nodeTip
    THEN /\ Forget
         /\ syncError' = "none"
    ELSE /\ pc' = "fetch"
         /\ tip' = nodeTip
         /\ at' = last + 1
         /\ to' = IF last + BatchSize < nodeTip THEN last + BatchSize ELSE nodeTip
         /\ expected' = hash
         /\ UNCHANGED <<blk, succ, actor, syncError>>

\* syncOnce from `if (from > tip)` on: heartbeat, or the loop's first height.
StartBatch(last, hash, nodeTip) ==
    IF last + 1 > nodeTip
    THEN /\ Forget
         /\ syncError' = "none"
    ELSE /\ pc' = "fetch"
         /\ tip' = nodeTip
         /\ at' = last + 1
         /\ to' = IF last + BatchSize < nodeTip THEN last + BatchSize ELSE nodeTip
         /\ expected' = hash
         /\ UNCHANGED <<blk, succ, actor, syncError>>

-----------------------------------------------------------------------------
(***************************************************************************)
(* tick / syncOnce / rollbackIfReorged                                     *)
(***************************************************************************)

\* A node that does not answer getblockcount ends the tick at once.
TickFails ==
    /\ pc = "idle" /\ ~online
    /\ Abandon("rpc")
    /\ UNCHANGED <<nodeVars, sharedRest>>

TickBegins ==
    /\ pc = "idle" /\ online
    /\ IF cursor.height >= 0
       THEN /\ pc' = "check" /\ tip' = NodeTip
            /\ UNCHANGED <<at, to, expected, blk, succ, actor, syncError>>
       ELSE StartBatch(cursor.height, cursor.hash, NodeTip)
    /\ UNCHANGED <<nodeVars, cursor, indexRows, sharedRest>>

TickChecks ==
    /\ pc = "check"
    /\ LET nodeHash == IF tip < cursor.height THEN None
                       ELSE NodeHash(cursor.height)
           verdict == ReorgVerdict(cursor.height, cursor.hash, tip, nodeHash)
       IN \/ /\ verdict = "continue"
             /\ StartBatch(cursor.height, cursor.hash, tip)
             /\ UNCHANGED <<cursor, indexRows>>
          \/ /\ verdict = "wait"
             /\ Abandon("undecidable")
          \/ /\ verdict = "rewind"
             /\ pc' = "walk" /\ at' = cursor.height
             /\ UNCHANGED <<cursor, indexRows, tip, to, expected, blk, succ,
                            actor, syncError>>
    /\ UNCHANGED <<nodeVars, sharedRest>>

\* One height of the walk down to the fork point.
Walk ==
    /\ pc = "walk"
    /\ LET step == RewindStep(at, Floor, blockRows[at], NodeHash(at))
       IN \/ /\ step = "settle"
             /\ Goto("move_cursor")
             /\ UNCHANGED <<cursor, indexRows>>
          \/ /\ step = "wait"
             /\ Abandon("undecidable")
          \/ /\ step = "operator"
             /\ Abandon("operator")
          \/ /\ step = "step"
             /\ at' = at - 1
             /\ UNCHANGED <<cursor, indexRows, pc, tip, to, expected, blk,
                            succ, actor, syncError>>
    /\ UNCHANGED <<nodeVars, sharedRest>>

\* After an automatic rewind the batch resumes from the surviving tip, whose
\* hash is asked for once more; no answer means no link check.
Resume ==
    /\ pc = "resume"
    /\ StartBatch(at, NodeHash(at), tip)
    /\ UNCHANGED <<nodeVars, cursor, indexRows, sharedRest>>

-----------------------------------------------------------------------------
(***************************************************************************)
(* rewindTo, one action per await                                          *)
(***************************************************************************)

\* mutant: the rewound cursor keeps the hash of the abandoned chain
MoveCursor_KeepsHash ==
    /\ pc = "move_cursor"
    /\ cursor' = [cursor EXCEPT !.height = at]
    /\ Goto("drop_blocks")
    /\ UNCHANGED <<nodeVars, indexRows, sharedRest>>

\* The cursor moves before the deletes, to whatever the node now says is at
\* the height the walk settled on ('' when it says nothing).
MoveCursor ==
    /\ pc = "move_cursor"
    /\ cursor' = [height |-> at, hash |-> NodeHash(at)]
    /\ Goto("drop_blocks")
    /\ UNCHANGED <<nodeVars, indexRows, sharedRest>>

\* mutant: the surviving block goes with the abandoned ones
DropBlocks_Survivor ==
    /\ pc = "drop_blocks"
    /\ blockRows' = [h \in Heights |-> IF h >= at THEN None ELSE blockRows[h]]
    /\ nextRows' = [h \in Heights |-> IF h >= at THEN None ELSE nextRows[h]]
    /\ Goto("drop_txs")
    /\ UNCHANGED <<nodeVars, cursor, txRows, epochRows, commitmentRows,
                   sharedRest>>

DropBlocks ==
    /\ pc = "drop_blocks"
    /\ blockRows' = [h \in Heights |-> IF h > at THEN None ELSE blockRows[h]]
    /\ nextRows' = [h \in Heights |-> IF h > at THEN None ELSE nextRows[h]]
    /\ Goto("drop_txs")
    /\ UNCHANGED <<nodeVars, cursor, txRows, epochRows, commitmentRows,
                   sharedRest>>

DropTransactions ==
    /\ pc = "drop_txs"
    /\ txRows' = [t \in Txs |-> CutAbove(txRows[t], at)]
    /\ Goto("drop_epochs")
    /\ UNCHANGED <<nodeVars, cursor, blockRows, nextRows, epochRows,
                   commitmentRows, sharedRest>>

DropEpochs ==
    /\ pc = "drop_epochs"
    /\ epochRows' = [h \in Boundaries |-> CutAbove(epochRows[h], at)]
    /\ Goto("drop_commitments")
    /\ UNCHANGED <<nodeVars, cursor, blockRows, nextRows, txRows,
                   commitmentRows, sharedRest>>

\* mutant: commitments mined in abandoned blocks are left in place
DropCommitments_Nothing ==
    /\ pc = "drop_commitments"
    /\ Goto("reset_rounds")
    /\ UNCHANGED <<nodeVars, cursor, indexRows, sharedRest>>

DropCommitments ==
    /\ pc = "drop_commitments"
    /\ commitmentRows' = [q \in Quorums |-> CutAbove(commitmentRows[q], at)]
    /\ Goto("reset_rounds")
    /\ UNCHANGED <<nodeVars, cursor, blockRows, nextRows, txRows, epochRows,
                   sharedRest>>

ResetRounds ==
    /\ pc = "reset_rounds"
    /\ roundRows' = [s \in Slots |-> ResetRound(s, roundRows[s], at)]
    /\ Goto("clear_successor")
    /\ UNCHANGED <<nodeVars, cursor, indexRows, eventRows, diffCursor,
                   walkerMemory>>

ClearSuccessor ==
    /\ pc = "clear_successor"
    /\ nextRows' = [nextRows EXCEPT ![at] = None]
    /\ Goto("drop_events")
    /\ UNCHANGED <<nodeVars, cursor, blockRows, txRows, epochRows,
                   commitmentRows, sharedRest>>

DropEvents ==
    /\ pc = "drop_events"
    /\ eventRows' = {e \in eventRows : e.height <= at}
    /\ Goto("lower_diff_cursor")
    /\ UNCHANGED <<nodeVars, cursor, indexRows, roundRows, diffCursor,
                   walkerMemory>>

LowerDiffCursor ==
    /\ pc = "lower_diff_cursor"
    /\ diffCursor' = IF diffCursor > at THEN at ELSE diffCursor
    /\ Goto("reset_walker")
    /\ UNCHANGED <<nodeVars, cursor, indexRows, roundRows, eventRows,
                   walkerMemory>>

\* mutant: the walker keeps the penalties of the abandoned chain
ResetWalker_KeepsMap ==
    /\ pc = "reset_walker"
    /\ overtaken' = TRUE
    /\ \/ /\ actor = "operator"
          /\ Forget
          /\ syncError' = "none"
       \/ /\ actor = "tick"
          /\ Goto("resume")
    /\ UNCHANGED <<nodeVars, cursor, indexRows, roundRows, eventRows,
                   diffCursor, seeded, penalties>>

\* mnListDiffService.reset(); an operator's rewind ends here and leaves the
\* batch to the next tick, an automatic one goes on.
ResetWalker ==
    /\ pc = "reset_walker"
    /\ seeded' = FALSE /\ penalties' = NoPenalties /\ overtaken' = TRUE
    /\ \/ /\ actor = "operator"
          /\ Forget
          /\ syncError' = "none"
       \/ /\ actor = "tick"
          /\ Goto("resume")
    /\ UNCHANGED <<nodeVars, cursor, indexRows, roundRows, eventRows,
                   diffCursor>>

Rewind ==
    \/ MoveCursor \/ DropBlocks \/ DropTransactions \/ DropEpochs
    \/ DropCommitments \/ ResetRounds \/ ClearSuccessor \/ DropEvents
    \/ LowerDiffCursor \/ ResetWalker

-----------------------------------------------------------------------------
(***************************************************************************)
(* indexBlock and the batch loop                                           *)
(***************************************************************************)

\* getblockhash for the next height.  A height the node no longer has, like a
\* silent node, is an error that ends the tick and leaves what the batch has
\* already written.
FetchHash ==
    /\ pc = "fetch"
    /\ LET b == NodeHash(at)
       IN \/ /\ b = None
             /\ Abandon("rpc")
          \/ /\ b # None
             /\ pc' = "getblock" /\ blk' = b
             /\ UNCHANGED <<cursor, indexRows, tip, at, to, expected, succ,
                            actor, syncError>>
    /\ UNCHANGED <<nodeVars, sharedRest>>

\* getblock for that hash: the node serves a block it has left behind too, but
\* then names no successor for it.
FetchBlock ==
    /\ pc = "getblock"
    /\ \/ /\ ~online
          /\ Abandon("rpc")
       \/ /\ online
          /\ pc' = "commitments" /\ succ' = NodeSuccessor(blk)
          /\ UNCHANGED <<cursor, indexRows, tip, at, to, expected, blk, actor,
                         syncError>>
    /\ UNCHANGED <<nodeVars, sharedRest>>

\* $setOnInsert only: a commitment already on record keeps its first block.
WriteCommitments ==
    /\ pc = "commitments"
    /\ commitmentRows' =
         [q \in Quorums |-> IF q \in quorumsIn[blk] /\ commitmentRows[q] = None
                            THEN blk ELSE commitmentRows[q]]
    /\ Goto("epoch")
    /\ UNCHANGED <<nodeVars, cursor, blockRows, nextRows, txRows, epochRows,
                   sharedRest>>

\* $setOnInsert only, one row per epoch boundary.
WriteEpoch ==
    /\ pc = "epoch"
    /\ epochRows' =
         [h \in Boundaries |-> IF h = at /\ epochRows[h] = None
                               THEN blk ELSE epochRows[h]]
    /\ Goto("txs")
    /\ UNCHANGED <<nodeVars, cursor, blockRows, nextRows, txRows,
                   commitmentRows, sharedRest>>

\* $set: a transaction mined again moves to the later block.
WriteTransactions ==
    /\ pc = "txs"
    /\ txRows' = [t \in Txs |-> IF t \in txsIn[blk] THEN blk ELSE txRows[t]]
    /\ Goto("upsert")
    /\ UNCHANGED <<nodeVars, cursor, blockRows, nextRows, epochRows,
                   commitmentRows, sharedRest>>

\* The upsert filters on the hash while `height` is unique, so a row another
\* block left at this height makes it fail with E11000.
UpsertBlock ==
    /\ pc = "upsert"
    /\ \/ /\ blockRows[at] \notin {None, blk}
          /\ Abandon("duplicate")
       \/ /\ blockRows[at] \in {None, blk}
          /\ blockRows' = [blockRows EXCEPT ![at] = blk]
          /\ nextRows' = [nextRows EXCEPT ![at] = succ]
          /\ Goto("link")
          /\ UNCHANGED <<cursor, txRows, epochRows, commitmentRows>>
    /\ UNCHANGED <<nodeVars, sharedRest>>

AtCheckpoint == at % ProgressEvery = 0 \/ at = to

\* The predecessor's nextblockhash, null when it was indexed at the tip.
SuccessorRecorded ==
    IF at > 0 /\ PreviousOf(blk) # None /\ blockRows[at - 1] = PreviousOf(blk)
    THEN [nextRows EXCEPT ![at - 1] = blk]
    ELSE nextRows

\* The predecessor is updated, and only then comes the link check: a block that does not
\* name the one before it ends the tick, after all of it has been written.
LinkBlock ==
    /\ pc = "link"
    /\ nextRows' = SuccessorRecorded
    /\ UNCHANGED <<nodeVars, cursor, blockRows, txRows, epochRows,
                   commitmentRows, sharedRest>>
    /\ \/ /\ expected # None /\ PreviousOf(blk) # expected
          /\ Forget
          /\ syncError' = "midbatch"
       \/ /\ expected = None \/ PreviousOf(blk) = expected
          /\ expected' = blk /\ blk' = None /\ succ' = None
          /\ IF AtCheckpoint
             THEN pc' = "progress" /\ UNCHANGED at
             ELSE pc' = "fetch" /\ at' = at + 1
          /\ UNCHANGED <<tip, to, actor, syncError>>

\* Every PROGRESS_EVERY heights and at the end of the batch.
SaveProgress ==
    /\ pc = "progress"
    /\ cursor' = [height |-> at, hash |-> expected]
    /\ syncError' = "none"
    /\ IF at = to
       THEN Forget
       ELSE /\ pc' = "fetch" /\ at' = at + 1
            /\ UNCHANGED <<tip, to, expected, blk, succ, actor>>
    /\ UNCHANGED <<nodeVars, indexRows, sharedRest>>

IndexBlock ==
    \/ FetchHash \/ FetchBlock \/ WriteCommitments \/ WriteEpoch
    \/ WriteTransactions \/ UpsertBlock \/ LinkBlock \/ SaveProgress

-----------------------------------------------------------------------------
(***************************************************************************)
(* confirmRewind: the rewind the automatic path refused                    *)
(***************************************************************************)

\* A refused confirmation changes nothing, SyncState.error included.
Refuse == Forget /\ UNCHANGED syncError

OperatorConfirms ==
    /\ pc = "idle" /\ online
    /\ pc' = "inspect" /\ tip' = NodeTip /\ actor' = "operator"
    /\ UNCHANGED <<nodeVars, cursor, indexRows, sharedRest, at, to, expected,
                   blk, succ, syncError>>

\* The bisection starts with -1 agreeing and the indexed height disagreeing.
Inspect ==
    /\ pc = "inspect"
    /\ LET nodeHash == IF cursor.height < 0 \/ tip < cursor.height THEN None
                       ELSE NodeHash(cursor.height)
       IN IF /\ cursor.height >= 0
             /\ ReorgVerdict(cursor.height, cursor.hash, tip, nodeHash) = "rewind"
          THEN /\ pc' = "probe" /\ at' = -1 /\ to' = cursor.height
               /\ UNCHANGED <<tip, expected, blk, succ, actor, syncError>>
          ELSE Refuse
    /\ UNCHANGED <<nodeVars, cursor, indexRows, sharedRest>>

\* One probe of findForkPoint, or its end: the highest agreeing height is
\* rewound to only when it is deeper than the automatic depth and is what the
\* operator named; anything else is refused.
Probe ==
    /\ pc = "probe"
    /\ LET mid == (at + to) \div 2
       IN IF to - at > 1
          THEN \/ /\ NodeHash(mid) = None \/ blockRows[mid] = None
                  /\ Refuse
               \/ /\ NodeHash(mid) # None /\ blockRows[mid] # None
                  /\ IF blockRows[mid] = NodeHash(mid)
                     THEN at' = mid /\ UNCHANGED to
                     ELSE to' = mid /\ UNCHANGED at
                  /\ UNCHANGED <<pc, tip, expected, blk, succ, actor,
                                 syncError>>
          ELSE \/ /\ at >= 0 /\ cursor.height - at > MaxRollbackDepth
                  /\ Goto("move_cursor")
               \/ Refuse
    /\ UNCHANGED <<nodeVars, cursor, indexRows, sharedRest>>

ConfirmRewind == OperatorConfirms \/ Inspect \/ Probe

-----------------------------------------------------------------------------
\* The process dies between two awaits and starts again: what is in memory is
\* gone, what was written stays.
Crash ==
    /\ pc # "idle"
    /\ Forget
    /\ seeded' = FALSE /\ penalties' = NoPenalties /\ overtaken' = FALSE
    /\ UNCHANGED <<nodeVars, cursor, indexRows, roundRows, eventRows,
                   diffCursor, syncError>>

Environment ==
    /\ NodeMoves \/ NodeToggles
    /\ UNCHANGED <<cursor, indexRows, sharedRest, indexerVars>>

\* Everything the interval timer drives.
Tick == \/ TickFails \/ TickBegins \/ TickChecks \/ Walk \/ Resume
        \/ Rewind \/ IndexBlock

Next == Tick \/ ConfirmRewind \/ Crash \/ Environment

Spec == Init /\ [][Next]_vars

\* Every await of a pass returns or throws, so a pass in flight is weakly fair.
\* setInterval fires whatever the last tick did and a tick dropped because an
\* operator's pass was running is followed by another, so beginning a tick is
\* strongly fair.  Operators, crashes and the node owe nothing.
Fairness ==
    /\ WF_vars(Tick \/ Inspect \/ Probe)
    /\ SF_vars(TickBegins)

\* The node moves and falls silent whenever it likes; the process stays up.
LiveNext == Tick \/ ConfirmRewind \/ Environment

LiveSpec == Init /\ [][LiveNext]_vars /\ Fairness

-----------------------------------------------------------------------------
(***************************************************************************)
(* Properties                                                              *)
(***************************************************************************)

\* Every variable has its type, and the pass's locals are in range for its
\* stage.
TypeOK ==
    /\ StoreTypeOK
    /\ pc \in Stages
    /\ tip \in Heights /\ at \in Heights \cup {-1} /\ to \in Heights
    /\ expected \in BlockOrNone /\ blk \in BlockOrNone /\ succ \in BlockOrNone
    /\ actor \in {"tick", "operator"}
    /\ syncError \in Errors
    /\ pc = "idle" => actor = "tick"
    /\ pc \in RewindStages \cup IndexStages => at \in Heights
    /\ pc \in IndexStages => at <= to
    /\ pc \in IndexStages \ {"fetch", "progress"} => blk \in Blocks

\* "A crash between the two must leave a cursor that is at or below the
\* surviving chain, never above it" (rewindTo): whatever the node does and
\* wherever the process dies, every height up to the cursor has its block.
NoHolesBelowCursor ==
    \A h \in Heights : h <= cursor.height => blockRows[h] # None

\* The automatic path never takes the cursor further down than
\* MAX_ROLLBACK_DEPTH in one rewind, however the node answers on the way;
\* a deeper one is the operator's and only ever deeper.
AutomaticRewindIsShallow ==
    [][cursor'.height < cursor.height =>
         IF actor = "tick"
         THEN cursor.height - cursor'.height <= MaxRollbackDepth
         ELSE cursor.height - cursor'.height > MaxRollbackDepth]_vars

\* "Deleting an index because an RPC call failed is the one outcome this
\* service must never produce": on a network that never forks, where the node
\* only restarts, reindexes and falls silent, nothing stored is ever lost and
\* the cursor never falls.
NothingLostWithoutFork ==
    [][/\ cursor'.height >= cursor.height
       /\ \A h \in Heights : blockRows[h] # None => blockRows'[h] = blockRows[h]
      ]_vars

\* Where a pass may stand relative to the cursor at each of its stages: a
\* walk and an automatic rewind stay above the floor, a confirmed one is below
\* it, a rewind under way has already moved the cursor, and a batch has a row
\* at every height below the one it is at.
PassInv ==
    /\ pc = "check" => cursor.height >= 0
    /\ pc \in {"check", "walk"} => actor = "tick"
    /\ pc \in {"inspect", "probe"} => actor = "operator"
    /\ pc = "probe" => to <= cursor.height /\ at < to
    /\ pc \in {"walk", "move_cursor"} => 0 <= at /\ at <= cursor.height
    /\ pc = "walk" => at >= Floor
    /\ pc = "move_cursor" /\ actor = "tick" => at >= Floor
    /\ pc = "move_cursor" /\ actor = "operator" =>
         cursor.height - at > MaxRollbackDepth
    /\ pc \in (RewindStages \ {"move_cursor"}) \cup {"resume"} =>
         at = cursor.height
    /\ pc = "resume" => at \in Heights
    /\ pc \in IndexStages =>
         /\ cursor.height < at
         /\ \A h \in Heights : h < at => blockRows[h] # None
    /\ pc \in {"link", "progress"} => blockRows[at] # None

\* The inductive strengthening of NoHolesBelowCursor and of
\* AutomaticRewindIsShallow.
IInv == TypeOK /\ NoHolesBelowCursor /\ PassInv

\* Between passes the stored chain up to the cursor is one chain, linked both
\* ways, and the cursor names its last block.
LinkedIndex ==
    pc = "idle" /\ cursor.height >= 0 =>
        /\ cursor.hash = blockRows[cursor.height]
        /\ \A h \in 1..cursor.height :
             /\ PreviousOf(blockRows[h]) = blockRows[h - 1]
             /\ nextRows[h - 1] = blockRows[h]

OnStoredChain(b) ==
    heightOf[b] <= cursor.height /\ blockRows[heightOf[b]] = b

\* Between passes the derived collections describe exactly the stored chain:
\* no row names an abandoned block, and no stored block lacks its rows.
DerivedRowsMatch ==
    pc = "idle" =>
        /\ \A q \in Quorums :
             IF \E h \in 0..cursor.height : q \in quorumsIn[blockRows[h]]
             THEN /\ commitmentRows[q] # None
                  /\ OnStoredChain(commitmentRows[q])
                  /\ q \in quorumsIn[commitmentRows[q]]
             ELSE commitmentRows[q] = None
        /\ \A h \in Boundaries :
             epochRows[h] = IF h <= cursor.height THEN blockRows[h] ELSE None
        /\ \A t \in Txs :
             IF \E h \in 0..cursor.height : t \in txsIn[blockRows[h]]
             THEN /\ txRows[t] # None
                  /\ OnStoredChain(txRows[t])
                  /\ t \in txsIn[txRows[t]]
             ELSE txRows[t] = None

\* Both rewinds stop at the highest height where index and node agree: a
\* deeper one would reset rounds the node can no longer describe.
RewindsToForkPoint ==
    pc = "move_cursor" =>
        /\ blockRows[at] = NodeHash(at)
        /\ \A h \in Heights : at < h /\ h < cursor.height
                               => blockRows[h] # ancestor[best][h]

\* Index and chain disagree at every height an automatic rewind may reach.
DeeperThanAutomatic(b) ==
    \A h \in 0..cursor.height :
        h >= cursor.height - MaxRollbackDepth => blockRows[h] # ancestor[b][h]

Indexed(b) == cursor = [height |-> heightOf[b], hash |-> b]

\* "It aborts the tick with the sync position untouched ... and the next tick
\* asks again" (ChainUndecidableError): once the node settles on a chain and
\* answers, the index reaches its tip, or SyncState.error says why a person has
\* to look: the fork is deeper than the automatic depth, or the node is below
\* the index.  It holds when the node moves between passes (ServicesSpec of
\* ChainServices) and not when it moves inside one (LiveSpec).
CatchesUpOrSays ==
    <>[]online /\ <>[][best' = best]_vars
        => <>[](\/ Indexed(best)
                \/ syncError = "operator" /\ DeeperThanAutomatic(best)
                \/ syncError = "undecidable" /\ heightOf[best] < cursor.height)
=============================================================================
