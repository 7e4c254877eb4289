------------------------- MODULE BlockIndexerProofs -------------------------
(***************************************************************************)
(* Proofs about the block indexer for every block tree, batch size,        *)
(* checkpoint distance and rollback depth: a node that moves and falls     *)
(* silent at any await, and a process that dies at any await.              *)
(***************************************************************************)
EXTENDS BlockIndexer, TLAPS

-----------------------------------------------------------------------------
(***************************************************************************)
(* What the node can answer, and what the store's helpers return           *)
(***************************************************************************)

LEMMA HeightsAreIntegers ==
    /\ \A h \in Heights : h \in Int /\ h >= 0 /\ h <= MaxHeight
    /\ \A h \in Int : 0 <= h /\ h <= MaxHeight => h \in Heights
    /\ MaxHeight \in Nat
BY TreeAssumption DEF Heights

LEMMA NodeHashType ==
    ASSUME best \in Blocks, NEW h \in Heights
    PROVE  NodeHash(h) \in BlockOrNone
BY TreeAssumption DEF NodeHash, BlockOrNone

LEMMA NodeTipType == ASSUME best \in Blocks PROVE NodeTip \in Heights
BY TreeAssumption DEF NodeTip

LEMMA NodeSuccessorType ==
    ASSUME best \in Blocks, NEW b \in Blocks
    PROVE  NodeSuccessor(b) \in BlockOrNone
<1>1. CASE heightOf[b] < heightOf[best] /\ ancestor[best][heightOf[b]] = b
  <2>1. heightOf[b] \in Heights /\ heightOf[best] \in Heights
    BY TreeAssumption
  <2>2. heightOf[b] + 1 \in Heights
    BY <1>1, <2>1, HeightsAreIntegers
  <2>3. QED
    BY <1>1, <2>2, TreeAssumption DEF NodeSuccessor, NodeTip, BlockOrNone
<1>2. CASE ~(heightOf[b] < heightOf[best] /\ ancestor[best][heightOf[b]] = b)
  BY <1>2 DEF NodeSuccessor, NodeTip, BlockOrNone
<1>3. QED BY <1>1, <1>2

LEMMA CutAboveType ==
    ASSUME NEW b \in BlockOrNone, NEW c PROVE CutAbove(b, c) \in BlockOrNone
BY DEF CutAbove, BlockOrNone

LEMMA ResetRoundType ==
    ASSUME NEW s, NEW row \in RoundRow, NEW c
    PROVE  ResetRound(s, row, c) \in RoundRow
BY DEF ResetRound, RoundRow, RoundStatus, BlockOrNone

-----------------------------------------------------------------------------
(***************************************************************************)
(* The inductive invariant                                                 *)
(***************************************************************************)

\* The values a fresh process starts from satisfy the invariant.
LEMMA InitInvariant == Init => IInv
<1> SUFFICES ASSUME Init PROVE IInv
  OBVIOUS
<1> USE DEF Init, StoreInit, WalkerMemoryInit, IndexerMemoryInit
<1>1. TypeOK
  <2>1. StoreTypeOK
    BY TreeAssumption, ContentAssumption
    DEF StoreTypeOK, BlockOrNone, Heights, NoRound, RoundRow, RoundStatus
  <2>2. QED
    BY <2>1, HeightsAreIntegers
    DEF TypeOK, Stages, RewindStages, IndexStages, Errors, BlockOrNone
<1>2. NoHolesBelowCursor
  BY HeightsAreIntegers DEF NoHolesBelowCursor
<1>3. PassInv
  BY DEF PassInv, RewindStages, IndexStages
<1>4. QED BY <1>1, <1>2, <1>3 DEF IInv

\* A pass that ends, whatever ends it, leaves a state the invariant allows.
LEMMA ForgetInvariant ==
    ASSUME IInv, Forget, syncError' \in Errors,
           UNCHANGED <<cursor, blockRows>>, StoreTypeOK'
    PROVE  IInv'
<1>1. TypeOK'
  BY HeightsAreIntegers
  DEF Forget, IInv, TypeOK, Stages, RewindStages, IndexStages, BlockOrNone
<1>2. NoHolesBelowCursor'
  BY DEF IInv, NoHolesBelowCursor
<1>3. PassInv'
  BY DEF Forget, PassInv, RewindStages, IndexStages
<1>4. QED BY <1>1, <1>2, <1>3 DEF IInv

\* Abandoning a pass is one way for it to end.
LEMMA AbandonInvariant ==
    ASSUME IInv, NEW e \in Errors, Abandon(e), UNCHANGED <<nodeVars, sharedRest>>
    PROVE  IInv'
<1>1. StoreTypeOK' /\ UNCHANGED <<cursor, blockRows>> /\ syncError' \in Errors
  BY DEF IInv, TypeOK, StoreTypeOK, Abandon, nodeVars, sharedRest, indexRows
<1>2. QED BY <1>1, ForgetInvariant DEF Abandon

\* A batch starts just above the cursor, where every lower height has a row.
LEMMA StartBatchInvariant ==
    ASSUME IInv, NEW hash \in BlockOrNone, NEW nodeTip \in Heights,
           StartBatch(cursor.height, hash, nodeTip),
           UNCHANGED <<nodeVars, cursor, indexRows, sharedRest>>
    PROVE  IInv'
<1>1. StoreTypeOK' /\ UNCHANGED <<cursor, blockRows>>
  BY DEF IInv, TypeOK, StoreTypeOK, nodeVars, sharedRest, indexRows
<1>2. CASE cursor.height + 1 > nodeTip
  BY <1>1, <1>2, ForgetInvariant DEF StartBatch, Errors
<1>3. CASE ~(cursor.height + 1 > nodeTip)
  <2>1. cursor.height \in Int /\ cursor.height >= -1 /\ BatchSize \in Int
        /\ BatchSize > 0
    BY HeightsAreIntegers, IndexerAssumption DEF IInv, TypeOK, StoreTypeOK
  <2>2. /\ pc' = "fetch" /\ tip' = nodeTip /\ at' = cursor.height + 1
        /\ to' = (IF cursor.height + BatchSize < nodeTip
                  THEN cursor.height + BatchSize ELSE nodeTip)
        /\ expected' = hash
        /\ UNCHANGED <<blk, succ, actor, syncError>>
    BY <1>3 DEF StartBatch
  <2>3. at' \in Heights /\ to' \in Heights /\ at' <= to'
    BY <1>3, <2>1, <2>2, HeightsAreIntegers
  <2>4. TypeOK'
    BY <1>1, <2>2, <2>3
    DEF IInv, TypeOK, Stages, RewindStages, IndexStages
  <2>5. NoHolesBelowCursor'
    BY <1>1 DEF IInv, NoHolesBelowCursor
  <2>6. PassInv'
    BY <1>1, <2>1, <2>2, HeightsAreIntegers
    DEF IInv, NoHolesBelowCursor, PassInv, RewindStages, IndexStages
  <2>7. QED BY <2>4, <2>5, <2>6 DEF IInv
<1>4. QED BY <1>2, <1>3

\* The tick up to the walk's end.
LEMMA TickInvariant ==
    ASSUME IInv, TickFails \/ TickBegins \/ TickChecks \/ Walk \/ Resume
    PROVE  IInv'
<1> USE HeightsAreIntegers
<1>0. /\ best \in Blocks
      /\ cursor.height \in Heights \cup {-1} /\ cursor.hash \in BlockOrNone
      /\ tip \in Heights
  BY DEF IInv, TypeOK, StoreTypeOK
<1>1. CASE TickFails
  BY <1>1, AbandonInvariant DEF TickFails, Errors
<1>2. CASE TickBegins
  <2>1. CASE cursor.height >= 0
    <3>1. StoreTypeOK' /\ UNCHANGED <<cursor, blockRows>>
      BY <1>2 DEF TickBegins, IInv, TypeOK, StoreTypeOK, nodeVars, sharedRest,
                  indexRows
    <3>2. /\ pc' = "check" /\ tip' = NodeTip /\ actor = "tick"
          /\ UNCHANGED <<at, to, expected, blk, succ, actor, syncError>>
      BY <1>2, <2>1 DEF TickBegins, IInv, TypeOK
    <3>3. TypeOK'
      BY <1>0, <3>1, <3>2, NodeTipType
      DEF IInv, TypeOK, Stages, RewindStages, IndexStages
    <3>4. NoHolesBelowCursor' /\ PassInv'
      BY <2>1, <3>1, <3>2
      DEF IInv, NoHolesBelowCursor, PassInv, RewindStages, IndexStages
    <3>5. QED BY <3>3, <3>4 DEF IInv
  <2>2. CASE ~(cursor.height >= 0)
    BY <1>0, <1>2, <2>2, NodeTipType, StartBatchInvariant DEF TickBegins
  <2>3. QED BY <2>1, <2>2
<1>3. CASE TickChecks
  <2> DEFINE nodeHash == IF tip < cursor.height THEN None
                         ELSE NodeHash(cursor.height)
             verdict == ReorgVerdict(cursor.height, cursor.hash, tip, nodeHash)
  <2>1. CASE verdict = "continue"
    BY <1>0, <1>3, <2>1, StartBatchInvariant DEF TickChecks
  <2>2. CASE verdict = "wait"
    BY <1>3, <2>2, AbandonInvariant DEF TickChecks, Errors
  <2>3. CASE verdict = "rewind"
    <3>1. /\ pc = "check" /\ pc' = "walk" /\ at' = cursor.height
          /\ UNCHANGED <<cursor, indexRows, tip, to, expected, blk, succ,
                         actor, syncError, nodeVars, sharedRest>>
      BY <1>3, <2>3 DEF TickChecks
    <3>2. StoreTypeOK' /\ UNCHANGED <<cursor, blockRows>>
      BY <3>1 DEF IInv, TypeOK, StoreTypeOK, nodeVars, sharedRest, indexRows
    <3>3. TypeOK'
      BY <1>0, <3>1, <3>2 DEF IInv, TypeOK, Stages, RewindStages, IndexStages
    <3>4. NoHolesBelowCursor' /\ PassInv'
      BY <1>0, <3>1, <3>2, IndexerAssumption
      DEF IInv, NoHolesBelowCursor, PassInv, RewindStages, IndexStages, Floor
    <3>5. QED BY <3>3, <3>4 DEF IInv
  <2>4. QED BY <1>3, <2>1, <2>2, <2>3 DEF TickChecks
<1>4. CASE Walk
  <2> DEFINE step == RewindStep(at, Floor, blockRows[at], NodeHash(at))
  <2>1. CASE step = "settle"
    <3>1. /\ pc = "walk" /\ pc' = "move_cursor"
          /\ UNCHANGED <<jobVars, cursor, indexRows, syncError, nodeVars,
                         sharedRest>>
      BY <1>4, <2>1 DEF Walk, Goto
    <3>2. StoreTypeOK' /\ UNCHANGED <<cursor, blockRows>>
      BY <3>1 DEF IInv, TypeOK, StoreTypeOK, nodeVars, sharedRest, indexRows
    <3>3. TypeOK'
      BY <1>0, <3>1, <3>2
      DEF IInv, TypeOK, PassInv, Stages, RewindStages, IndexStages, jobVars
    <3>4. NoHolesBelowCursor' /\ PassInv'
      BY <1>0, <3>1, <3>2
      DEF IInv, NoHolesBelowCursor, PassInv, RewindStages, IndexStages, Floor,
          jobVars
    <3>5. QED BY <3>3, <3>4 DEF IInv
  <2>2. CASE step = "wait"
    BY <1>4, <2>2, AbandonInvariant DEF Walk, Errors
  <2>3. CASE step = "operator"
    BY <1>4, <2>3, AbandonInvariant DEF Walk, Errors
  <2>4. CASE step = "step"
    <3>1. /\ pc = "walk" /\ pc' = "walk" /\ at' = at - 1
          /\ UNCHANGED <<cursor, indexRows, tip, to, expected, blk, succ,
                         actor, syncError, nodeVars, sharedRest>>
      BY <1>4, <2>4 DEF Walk
    <3>2. StoreTypeOK' /\ UNCHANGED <<cursor, blockRows>>
      BY <3>1 DEF IInv, TypeOK, StoreTypeOK, nodeVars, sharedRest, indexRows
    <3>3. at \in Int /\ 0 <= at /\ at <= cursor.height /\ Floor \in Int
          /\ Floor >= 0
      BY <1>0, <3>1, IndexerAssumption DEF IInv, TypeOK, PassInv, Floor
    <3>4. at - 1 >= Floor
      BY <2>4, <3>3 DEF RewindStep
    <3>5. TypeOK'
      BY <1>0, <3>1, <3>2, <3>3, <3>4
      DEF IInv, TypeOK, Stages, RewindStages, IndexStages
    <3>6. Floor' = Floor
      BY <3>2 DEF Floor
    <3>7. NoHolesBelowCursor' /\ PassInv'
      BY <1>0, <3>1, <3>2, <3>3, <3>4, <3>6
      DEF IInv, NoHolesBelowCursor, PassInv, RewindStages, IndexStages
    <3>8. QED BY <3>5, <3>7 DEF IInv
  <2>5. QED BY <1>4, <2>1, <2>2, <2>3, <2>4 DEF Walk
<1>5. CASE Resume
  <2>1. pc = "resume" /\ at \in Heights /\ at = cursor.height
    BY <1>5 DEF Resume, IInv, PassInv
  <2>2. QED
    BY <1>0, <1>5, <2>1, NodeHashType, StartBatchInvariant DEF Resume
<1>6. QED BY <1>1, <1>2, <1>3, <1>4, <1>5

\* A stage of a rewind after the cursor has moved: whatever it writes, it
\* leaves the cursor and the rows up to it alone.
LEMMA RewindStageInvariant ==
    ASSUME IInv, StoreTypeOK', pc \in RewindStages \ {"move_cursor"},
           NEW stage \in RewindStages \ {"move_cursor"}, Goto(stage),
           UNCHANGED cursor,
           \A h \in Heights : h <= at => blockRows'[h] = blockRows[h]
    PROVE  IInv'
<1>1. /\ pc' = stage /\ at = cursor.height
      /\ UNCHANGED <<at, to, tip, expected, blk, succ, actor, syncError>>
  BY DEF Goto, jobVars, IInv, PassInv
<1>2. TypeOK'
  BY <1>1 DEF IInv, TypeOK, Stages, RewindStages, IndexStages
<1>3. NoHolesBelowCursor'
  BY <1>1 DEF IInv, NoHolesBelowCursor
<1>4. PassInv'
  BY <1>1 DEF PassInv, RewindStages, IndexStages
<1>5. QED BY <1>2, <1>3, <1>4 DEF IInv

\* Every stage of a rewind.
LEMMA RewindInvariant == ASSUME IInv, Rewind PROVE IInv'
<1> USE HeightsAreIntegers
<1>0. /\ pc \in RewindStages => at \in Heights
      /\ pc \in RewindStages /\ pc # "move_cursor" => at = cursor.height
      /\ at \in Heights \cup {-1}
  BY DEF IInv, TypeOK, PassInv, RewindStages
<1>1. CASE MoveCursor
  <2>1. /\ pc = "move_cursor" /\ pc' = "drop_blocks"
        /\ cursor' = [height |-> at, hash |-> NodeHash(at)]
        /\ UNCHANGED <<at, to, tip, expected, blk, succ, actor, syncError,
                       nodeVars, indexRows, sharedRest>>
    BY <1>1 DEF MoveCursor, Goto, jobVars
  <2>2. at \in Heights /\ at <= cursor.height /\ cursor.height \in Int
    BY <2>1 DEF IInv, TypeOK, StoreTypeOK, PassInv, RewindStages
  <2>3. TypeOK'
    <3>1. cursor' \in [height: Heights \cup {-1}, hash: BlockOrNone]
      BY <2>1, <2>2, NodeHashType DEF IInv, TypeOK, StoreTypeOK
    <3>2. StoreTypeOK'
      BY <2>1, <3>1
      DEF IInv, TypeOK, StoreTypeOK, nodeVars, sharedRest, indexRows
    <3>3. QED
      BY <2>1, <3>2 DEF IInv, TypeOK, Stages, RewindStages, IndexStages
  <2>4. NoHolesBelowCursor'
    BY <2>1, <2>2 DEF IInv, NoHolesBelowCursor, indexRows
  <2>5. PassInv'
    BY <2>1, <2>2 DEF PassInv, RewindStages, IndexStages
  <2>6. QED BY <2>3, <2>4, <2>5 DEF IInv
<1>2. CASE DropBlocks
  <2>1. StoreTypeOK'
    BY <1>2 DEF DropBlocks, IInv, TypeOK, StoreTypeOK, nodeVars, sharedRest,
                BlockOrNone
  <2>2. /\ pc = "drop_blocks" /\ Goto("drop_txs") /\ UNCHANGED cursor
        /\ blockRows' = [h \in Heights |-> IF h > at THEN None ELSE blockRows[h]]
    BY <1>2 DEF DropBlocks
  <2>3. at \in Int
    BY <1>0
  <2>4. \A h \in Heights : h <= at => blockRows'[h] = blockRows[h]
    BY <2>2, <2>3
  <2>5. "drop_blocks" \in RewindStages \ {"move_cursor"}
        /\ "drop_txs" \in RewindStages \ {"move_cursor"}
    BY DEF RewindStages
  <2>6. QED BY <2>1, <2>2, <2>4, <2>5, RewindStageInvariant
<1>3. CASE DropTransactions
  <2>1. pc = "drop_txs" /\ Goto("drop_epochs") /\ UNCHANGED <<cursor, blockRows>>
    BY <1>3 DEF DropTransactions, indexRows
  <2>2. "drop_txs" \in RewindStages \ {"move_cursor"}
        /\ "drop_epochs" \in RewindStages \ {"move_cursor"}
    BY DEF RewindStages
  <2>3. StoreTypeOK'
    BY <1>3, CutAboveType
    DEF DropTransactions, IInv, TypeOK, StoreTypeOK, nodeVars, sharedRest,
        indexRows
  <2>4. QED BY <2>1, <2>2, <2>3, RewindStageInvariant
<1>4. CASE DropEpochs
  <2>1. pc = "drop_epochs" /\ Goto("drop_commitments") /\ UNCHANGED <<cursor, blockRows>>
    BY <1>4 DEF DropEpochs, indexRows
  <2>2. "drop_epochs" \in RewindStages \ {"move_cursor"}
        /\ "drop_commitments" \in RewindStages \ {"move_cursor"}
    BY DEF RewindStages
  <2>3. StoreTypeOK'
    BY <1>4, CutAboveType
    DEF DropEpochs, IInv, TypeOK, StoreTypeOK, nodeVars, sharedRest,
        indexRows
  <2>4. QED BY <2>1, <2>2, <2>3, RewindStageInvariant
<1>5. CASE DropCommitments
  <2>1. pc = "drop_commitments" /\ Goto("reset_rounds") /\ UNCHANGED <<cursor, blockRows>>
    BY <1>5 DEF DropCommitments, indexRows
  <2>2. "drop_commitments" \in RewindStages \ {"move_cursor"}
        /\ "reset_rounds" \in RewindStages \ {"move_cursor"}
    BY DEF RewindStages
  <2>3. StoreTypeOK'
    BY <1>5, CutAboveType
    DEF DropCommitments, IInv, TypeOK, StoreTypeOK, nodeVars, sharedRest,
        indexRows
  <2>4. QED BY <2>1, <2>2, <2>3, RewindStageInvariant
<1>6. CASE ResetRounds
  <2>1. pc = "reset_rounds" /\ Goto("clear_successor") /\ UNCHANGED <<cursor, blockRows>>
    BY <1>6 DEF ResetRounds, indexRows
  <2>2. "reset_rounds" \in RewindStages \ {"move_cursor"}
        /\ "clear_successor" \in RewindStages \ {"move_cursor"}
    BY DEF RewindStages
  <2>3. StoreTypeOK'
    BY <1>6, ResetRoundType
    DEF ResetRounds, IInv, TypeOK, StoreTypeOK, nodeVars, sharedRest,
        indexRows
  <2>4. QED BY <2>1, <2>2, <2>3, RewindStageInvariant
<1>7. CASE ClearSuccessor
  <2>1. pc = "clear_successor" /\ Goto("drop_events") /\ UNCHANGED <<cursor, blockRows>>
    BY <1>7 DEF ClearSuccessor, indexRows
  <2>2. "clear_successor" \in RewindStages \ {"move_cursor"}
        /\ "drop_events" \in RewindStages \ {"move_cursor"}
    BY DEF RewindStages
  <2>3. StoreTypeOK'
    BY <1>7, <2>1, <2>2, <1>0
    DEF ClearSuccessor, IInv, TypeOK, StoreTypeOK, nodeVars, sharedRest,
        indexRows, BlockOrNone
  <2>4. QED BY <2>1, <2>2, <2>3, RewindStageInvariant
<1>8. CASE DropEvents
  <2>1. pc = "drop_events" /\ Goto("lower_diff_cursor") /\ UNCHANGED <<cursor, blockRows>>
    BY <1>8 DEF DropEvents, indexRows
  <2>2. "drop_events" \in RewindStages \ {"move_cursor"}
        /\ "lower_diff_cursor" \in RewindStages \ {"move_cursor"}
    BY DEF RewindStages
  <2>3. StoreTypeOK'
    BY <1>8
    DEF DropEvents, IInv, TypeOK, StoreTypeOK, nodeVars, sharedRest,
        indexRows
  <2>4. QED BY <2>1, <2>2, <2>3, RewindStageInvariant
<1>9. CASE LowerDiffCursor
  <2>1. pc = "lower_diff_cursor" /\ Goto("reset_walker") /\ UNCHANGED <<cursor, blockRows>>
    BY <1>9 DEF LowerDiffCursor, indexRows
  <2>2. "lower_diff_cursor" \in RewindStages \ {"move_cursor"}
        /\ "reset_walker" \in RewindStages \ {"move_cursor"}
    BY DEF RewindStages
  <2>3. StoreTypeOK'
    BY <1>9, <2>1, <2>2, <1>0
    DEF LowerDiffCursor, IInv, TypeOK, StoreTypeOK, nodeVars, sharedRest,
        indexRows
  <2>4. QED BY <2>1, <2>2, <2>3, RewindStageInvariant
<1>10. CASE ResetWalker
  <2>1. StoreTypeOK' /\ UNCHANGED <<cursor, blockRows>>
    BY <1>10 DEF ResetWalker, IInv, TypeOK, StoreTypeOK, nodeVars, indexRows
  <2>2. CASE Forget /\ syncError' = "none"
    BY <2>1, <2>2, ForgetInvariant DEF Errors
  <2>3. CASE Goto("resume")
    <3>1. /\ pc = "reset_walker" /\ pc' = "resume"
          /\ UNCHANGED <<at, to, tip, expected, blk, succ, actor, syncError>>
      BY <1>10, <2>3 DEF ResetWalker, Goto, jobVars
    <3>2. TypeOK'
      BY <2>1, <3>1 DEF IInv, TypeOK, Stages, RewindStages, IndexStages
    <3>3. NoHolesBelowCursor' /\ PassInv'
      BY <1>0, <2>1, <3>1
      DEF IInv, NoHolesBelowCursor, PassInv, RewindStages, IndexStages
    <3>4. QED BY <3>2, <3>3 DEF IInv
  <2>4. QED BY <1>10, <2>2, <2>3 DEF ResetWalker
<1>11. QED
  BY <1>1, <1>2, <1>3, <1>4, <1>5, <1>6, <1>7, <1>8, <1>9, <1>10 DEF Rewind

\* Every await of indexBlock, and the checkpoint after it.
LEMMA IndexInvariant == ASSUME IInv, IndexBlock PROVE IInv'
<1> USE HeightsAreIntegers DEF IndexStages, RewindStages
<1>0. /\ best \in Blocks /\ cursor.height \in Heights \cup {-1}
      /\ pc \in IndexStages =>
           /\ at \in Heights /\ to \in Heights /\ at <= to
           /\ cursor.height < at
           /\ \A h \in Heights : h < at => blockRows[h] # None
      /\ pc \in IndexStages \ {"fetch", "progress"} => blk \in Blocks
  BY DEF IInv, TypeOK, StoreTypeOK, PassInv
<1>1. CASE FetchHash
  <2>1. CASE NodeHash(at) = None
    BY <1>1, <2>1, AbandonInvariant DEF FetchHash, Errors
  <2>2. CASE NodeHash(at) # None
    <3>1. /\ pc = "fetch" /\ pc' = "getblock" /\ blk' = NodeHash(at)
          /\ UNCHANGED <<cursor, indexRows, tip, at, to, expected, succ, actor,
                         syncError, nodeVars, sharedRest>>
      BY <1>1, <2>2 DEF FetchHash
    <3>2. blk' \in Blocks
      BY <1>0, <2>2, <3>1, NodeHashType DEF BlockOrNone
    <3>3. StoreTypeOK' /\ UNCHANGED <<cursor, blockRows>>
      BY <3>1 DEF IInv, TypeOK, StoreTypeOK, nodeVars, sharedRest, indexRows
    <3>4. TypeOK'
      BY <3>1, <3>2, <3>3 DEF IInv, TypeOK, Stages, BlockOrNone
    <3>5. NoHolesBelowCursor' /\ PassInv'
      BY <3>1, <3>3 DEF IInv, NoHolesBelowCursor, PassInv
    <3>6. QED BY <3>4, <3>5 DEF IInv
  <2>3. QED BY <2>1, <2>2
<1>2. CASE FetchBlock
  <2>1. CASE ~online
    BY <1>2, <2>1, AbandonInvariant DEF FetchBlock, Errors
  <2>2. CASE online
    <3>1. /\ pc = "getblock" /\ pc' = "commitments"
          /\ succ' = NodeSuccessor(blk)
          /\ UNCHANGED <<cursor, indexRows, tip, at, to, expected, blk, actor,
                         syncError, nodeVars, sharedRest>>
      BY <1>2, <2>2 DEF FetchBlock
    <3>2. succ' \in BlockOrNone
      BY <1>0, <3>1, NodeSuccessorType
    <3>3. StoreTypeOK' /\ UNCHANGED <<cursor, blockRows>>
      BY <3>1 DEF IInv, TypeOK, StoreTypeOK, nodeVars, sharedRest, indexRows
    <3>4. TypeOK'
      BY <3>1, <3>2, <3>3 DEF IInv, TypeOK, Stages
    <3>5. NoHolesBelowCursor' /\ PassInv'
      BY <3>1, <3>3 DEF IInv, NoHolesBelowCursor, PassInv
    <3>6. QED BY <3>4, <3>5 DEF IInv
  <2>3. QED BY <2>1, <2>2
<1>3. CASE WriteCommitments
  <2>1. /\ pc = "commitments" /\ pc' = "epoch"
        /\ UNCHANGED <<tip, at, to, expected, blk, succ, actor, syncError,
                       cursor, blockRows>>
    BY <1>3 DEF WriteCommitments, Goto, jobVars
  <2>2. StoreTypeOK'
    BY <1>0, <1>3, <2>1
    DEF WriteCommitments, IInv, TypeOK, StoreTypeOK, nodeVars, sharedRest, BlockOrNone
  <2>3. TypeOK'
    BY <2>1, <2>2 DEF IInv, TypeOK, Stages
  <2>4. NoHolesBelowCursor' /\ PassInv'
    BY <2>1 DEF IInv, NoHolesBelowCursor, PassInv
  <2>5. QED BY <2>3, <2>4 DEF IInv
<1>4. CASE WriteEpoch
  <2>1. /\ pc = "epoch" /\ pc' = "txs"
        /\ UNCHANGED <<tip, at, to, expected, blk, succ, actor, syncError,
                       cursor, blockRows>>
    BY <1>4 DEF WriteEpoch, Goto, jobVars
  <2>2. StoreTypeOK'
    BY <1>0, <1>4, <2>1
    DEF WriteEpoch, IInv, TypeOK, StoreTypeOK, nodeVars, sharedRest, BlockOrNone
  <2>3. TypeOK'
    BY <2>1, <2>2 DEF IInv, TypeOK, Stages
  <2>4. NoHolesBelowCursor' /\ PassInv'
    BY <2>1 DEF IInv, NoHolesBelowCursor, PassInv
  <2>5. QED BY <2>3, <2>4 DEF IInv
<1>5. CASE WriteTransactions
  <2>1. /\ pc = "txs" /\ pc' = "upsert"
        /\ UNCHANGED <<tip, at, to, expected, blk, succ, actor, syncError,
                       cursor, blockRows>>
    BY <1>5 DEF WriteTransactions, Goto, jobVars
  <2>2. StoreTypeOK'
    BY <1>0, <1>5, <2>1
    DEF WriteTransactions, IInv, TypeOK, StoreTypeOK, nodeVars, sharedRest, BlockOrNone
  <2>3. TypeOK'
    BY <2>1, <2>2 DEF IInv, TypeOK, Stages
  <2>4. NoHolesBelowCursor' /\ PassInv'
    BY <2>1 DEF IInv, NoHolesBelowCursor, PassInv
  <2>5. QED BY <2>3, <2>4 DEF IInv
<1>6. CASE UpsertBlock
  <2>1. CASE Abandon("duplicate")
    BY <1>6, <2>1, AbandonInvariant DEF UpsertBlock, Errors
  <2>2. CASE ~Abandon("duplicate")
    <3>1. /\ pc = "upsert" /\ pc' = "link"
          /\ blockRows' = [blockRows EXCEPT ![at] = blk]
          /\ nextRows' = [nextRows EXCEPT ![at] = succ]
          /\ UNCHANGED <<tip, at, to, expected, blk, succ, actor, syncError,
                         cursor, txRows, epochRows, commitmentRows, nodeVars,
                         sharedRest>>
      BY <1>6, <2>2 DEF UpsertBlock, Goto, jobVars
    <3>2. StoreTypeOK'
      BY <1>0, <3>1
      DEF IInv, TypeOK, StoreTypeOK, nodeVars, sharedRest, BlockOrNone
    <3>3. TypeOK'
      BY <3>1, <3>2 DEF IInv, TypeOK, Stages
    <3>4. \A h \in Heights : h <= at => blockRows'[h] # None
      <4>1. blk # None /\ at \in Heights
        BY <1>0, <3>1, TreeAssumption
      <4>2. blockRows \in [Heights -> BlockOrNone]
        BY DEF IInv, TypeOK, StoreTypeOK
      <4>3. QED BY <1>0, <3>1, <4>1, <4>2
    <3>5. NoHolesBelowCursor' /\ PassInv'
      BY <1>0, <3>1, <3>4 DEF IInv, NoHolesBelowCursor, PassInv
    <3>6. QED BY <3>3, <3>5 DEF IInv
  <2>3. QED BY <2>1, <2>2
<1>7. CASE LinkBlock
  <2>1. StoreTypeOK' /\ UNCHANGED <<cursor, blockRows>>
    <3>1. SuccessorRecorded \in [Heights -> BlockOrNone]
      BY <1>0, <1>7
      DEF LinkBlock, SuccessorRecorded, IInv, TypeOK, StoreTypeOK, BlockOrNone
    <3>2. QED
      BY <1>7, <3>1
      DEF LinkBlock, IInv, TypeOK, StoreTypeOK, nodeVars, sharedRest
  <2>2. CASE Forget /\ syncError' = "midbatch"
    BY <2>1, <2>2, ForgetInvariant DEF Errors
  <2>3. CASE ~(Forget /\ syncError' = "midbatch")
    <3>1. /\ pc = "link" /\ expected' = blk /\ blk' = None /\ succ' = None
          /\ IF AtCheckpoint THEN pc' = "progress" /\ UNCHANGED at
                             ELSE pc' = "fetch" /\ at' = at + 1
          /\ UNCHANGED <<tip, to, actor, syncError>>
      BY <1>7, <2>3 DEF LinkBlock
    <3>2. \A h \in Heights : h <= at => blockRows[h] # None
      BY <1>0, <3>1 DEF IInv, PassInv
    <3>3. CASE AtCheckpoint
      <4>1. TypeOK'
        BY <1>0, <2>1, <3>1, <3>3 DEF IInv, TypeOK, Stages, BlockOrNone
      <4>2. NoHolesBelowCursor' /\ PassInv'
        BY <1>0, <2>1, <3>1, <3>2, <3>3
        DEF IInv, NoHolesBelowCursor, PassInv
      <4>3. QED BY <4>1, <4>2 DEF IInv
    <3>4. CASE ~AtCheckpoint
      <4>1. at # to
        BY <3>4 DEF AtCheckpoint
      <4>2. at + 1 \in Heights /\ at + 1 <= to
        BY <1>0, <3>1, <4>1
      <4>3. TypeOK'
        BY <1>0, <2>1, <3>1, <3>4, <4>2 DEF IInv, TypeOK, Stages, BlockOrNone
      <4>4. NoHolesBelowCursor' /\ PassInv'
        BY <1>0, <2>1, <3>1, <3>2, <3>4, <4>2
        DEF IInv, NoHolesBelowCursor, PassInv
      <4>5. QED BY <4>3, <4>4 DEF IInv
    <3>5. QED BY <3>3, <3>4
  <2>4. QED BY <2>2, <2>3
<1>8. CASE SaveProgress
  <2>1. /\ pc = "progress" /\ cursor' = [height |-> at, hash |-> expected]
        /\ syncError' = "none"
        /\ UNCHANGED <<nodeVars, indexRows, sharedRest>>
    BY <1>8 DEF SaveProgress
  <2>2. StoreTypeOK' /\ UNCHANGED blockRows
    <3>1. cursor' \in [height: Heights \cup {-1}, hash: BlockOrNone]
      BY <1>0, <2>1 DEF IInv, TypeOK
    <3>2. QED
      BY <2>1, <3>1
      DEF IInv, TypeOK, StoreTypeOK, nodeVars, sharedRest, indexRows
  <2>3. \A h \in Heights : h <= at => blockRows[h] # None
    BY <1>0, <2>1 DEF IInv, PassInv
  <2>4. NoHolesBelowCursor'
    BY <2>1, <2>2, <2>3 DEF NoHolesBelowCursor
  <2>5. CASE at = to
    <3>1. Forget
      BY <1>8, <2>5 DEF SaveProgress
    <3>2. TypeOK'
      BY <2>1, <2>2, <3>1 DEF Forget, TypeOK, Stages, Errors, BlockOrNone
    <3>3. PassInv'
      BY <3>1 DEF Forget, PassInv
    <3>4. QED BY <2>4, <3>2, <3>3 DEF IInv
  <2>6. CASE at # to
    <3>1. /\ pc' = "fetch" /\ at' = at + 1
          /\ UNCHANGED <<tip, to, expected, blk, succ, actor>>
      BY <1>8, <2>6 DEF SaveProgress
    <3>2. at + 1 \in Heights /\ at + 1 <= to
      BY <1>0, <2>1, <2>6
    <3>3. TypeOK'
      BY <2>1, <2>2, <3>1, <3>2 DEF IInv, TypeOK, Stages, Errors
    <3>4. PassInv'
      BY <1>0, <2>1, <2>2, <2>3, <3>1 DEF PassInv
    <3>5. QED BY <2>4, <3>3, <3>4 DEF IInv
  <2>7. QED BY <2>5, <2>6
<1>9. QED
  BY <1>1, <1>2, <1>3, <1>4, <1>5, <1>6, <1>7, <1>8 DEF IndexBlock

\* The operator's way in: the bisection stays below the cursor, and nothing
\* but a fork deeper than the automatic depth gets through it.
LEMMA ConfirmInvariant == ASSUME IInv, ConfirmRewind PROVE IInv'
<1> USE HeightsAreIntegers DEF IndexStages, RewindStages
<1>0. /\ best \in Blocks /\ cursor.height \in Heights \cup {-1}
      /\ at \in Heights \cup {-1} /\ to \in Heights /\ syncError \in Errors
  BY DEF IInv, TypeOK, StoreTypeOK
<1>1. UNCHANGED <<nodeVars, cursor, indexRows, sharedRest>>
  BY DEF ConfirmRewind, OperatorConfirms, Inspect, Probe
<1>2. StoreTypeOK' /\ UNCHANGED <<cursor, blockRows>>
  BY <1>1 DEF IInv, TypeOK, StoreTypeOK, nodeVars, sharedRest, indexRows
<1>3. CASE Refuse
  BY <1>0, <1>2, <1>3, ForgetInvariant DEF Refuse
<1>4. CASE OperatorConfirms
  <2>1. TypeOK'
    BY <1>0, <1>2, <1>4, NodeTipType DEF OperatorConfirms, IInv, TypeOK, Stages
  <2>2. NoHolesBelowCursor' /\ PassInv'
    BY <1>2, <1>4 DEF OperatorConfirms, IInv, NoHolesBelowCursor, PassInv
  <2>3. QED BY <2>1, <2>2 DEF IInv
<1>5. CASE Inspect /\ ~Refuse
  <2>1. /\ pc = "inspect" /\ pc' = "probe" /\ at' = -1 /\ to' = cursor.height
        /\ cursor.height >= 0
        /\ UNCHANGED <<tip, expected, blk, succ, actor, syncError>>
    <3> DEFINE nodeHash == IF cursor.height < 0 \/ tip < cursor.height
                           THEN None ELSE NodeHash(cursor.height)
               deep == /\ cursor.height >= 0
                       /\ ReorgVerdict(cursor.height, cursor.hash, tip,
                                       nodeHash) = "rewind"
    <3>1. deep
      BY <1>5 DEF Inspect
    <3>2. QED BY <1>5, <3>1 DEF Inspect
  <2>2. actor = "operator"
    BY <2>1 DEF IInv, TypeOK, PassInv
  <2>3. TypeOK'
    BY <1>0, <1>2, <2>1 DEF IInv, TypeOK, Stages
  <2>4. NoHolesBelowCursor' /\ PassInv'
    BY <1>0, <1>2, <2>1, <2>2 DEF IInv, NoHolesBelowCursor, PassInv
  <2>5. QED BY <2>3, <2>4 DEF IInv
<1>6. CASE Probe /\ ~Refuse
  <2> DEFINE mid == (at + to) \div 2
  <2>1. pc = "probe" /\ actor = "operator" /\ to <= cursor.height /\ at < to
    BY <1>6 DEF Probe, IInv, PassInv
  <2>2. CASE to - at > 1
    <3>1. at < mid /\ mid < to /\ mid \in Int
      BY <1>0, <2>2
    <3>2. /\ \/ at' = mid /\ UNCHANGED to
             \/ to' = mid /\ UNCHANGED at
          /\ UNCHANGED <<pc, tip, expected, blk, succ, actor, syncError>>
      BY <1>6, <2>2 DEF Probe
    <3>3. at' \in Heights \cup {-1} /\ to' \in Heights /\ at' < to'
          /\ to' <= cursor.height
      BY <1>0, <2>1, <3>1, <3>2
    <3>4. TypeOK'
      BY <1>2, <2>1, <3>2, <3>3 DEF IInv, TypeOK, Stages
    <3>5. NoHolesBelowCursor' /\ PassInv'
      BY <1>2, <2>1, <3>2, <3>3 DEF IInv, NoHolesBelowCursor, PassInv
    <3>6. QED BY <3>4, <3>5 DEF IInv
  <2>3. CASE ~(to - at > 1)
    <3>1. /\ at >= 0 /\ cursor.height - at > MaxRollbackDepth
          /\ pc' = "move_cursor"
          /\ UNCHANGED <<tip, at, to, expected, blk, succ, actor, syncError>>
      BY <1>6, <2>3 DEF Probe, Goto, jobVars
    <3>2. TypeOK'
      BY <1>0, <1>2, <2>1, <3>1 DEF IInv, TypeOK, Stages
    <3>3. NoHolesBelowCursor' /\ PassInv'
      BY <1>0, <1>2, <2>1, <3>1 DEF IInv, NoHolesBelowCursor, PassInv
    <3>4. QED BY <3>2, <3>3 DEF IInv
  <2>4. QED BY <2>2, <2>3
<1>7. QED
  BY <1>3, <1>4, <1>5, <1>6 DEF ConfirmRewind

\* What the node does is not the pass's doing.
LEMMA EnvironmentInvariant == ASSUME IInv, Environment PROVE IInv'
<1>1. StoreTypeOK' /\ UNCHANGED <<cursor, blockRows, indexerVars>>
  BY DEF Environment, NodeMoves, NodeToggles, IInv, TypeOK, StoreTypeOK,
         sharedRest, indexRows
<1>2. TypeOK'
  BY <1>1 DEF IInv, TypeOK, indexerVars, jobVars
<1>3. NoHolesBelowCursor' /\ PassInv'
  BY <1>1
  DEF IInv, NoHolesBelowCursor, PassInv, Floor, indexerVars, jobVars,
      RewindStages, IndexStages
<1>4. QED BY <1>2, <1>3 DEF IInv

\* A crash costs the pass and nothing else.
LEMMA CrashInvariant == ASSUME IInv, Crash PROVE IInv'
<1>1. StoreTypeOK' /\ UNCHANGED <<cursor, blockRows>> /\ syncError' \in Errors
  BY DEF Crash, IInv, TypeOK, StoreTypeOK, nodeVars, indexRows
<1>2. QED BY <1>1, ForgetInvariant DEF Crash

\* A step that changes nothing keeps the invariant.
LEMMA StutterInvariant == ASSUME IInv, UNCHANGED vars PROVE IInv'
<1>1. StoreTypeOK' /\ UNCHANGED <<cursor, blockRows, indexerVars>>
  BY DEF vars, IInv, TypeOK, StoreTypeOK, nodeVars, sharedRest, indexRows
<1>2. TypeOK'
  BY <1>1 DEF IInv, TypeOK, indexerVars, jobVars
<1>3. NoHolesBelowCursor' /\ PassInv'
  BY <1>1
  DEF IInv, NoHolesBelowCursor, PassInv, Floor, indexerVars, jobVars,
      RewindStages, IndexStages
<1>4. QED BY <1>2, <1>3 DEF IInv

\* The strengthening is an invariant of the indexer.
THEOREM IndexerInvariant == Spec => []IInv
<1>1. IInv /\ [Next]_vars => IInv'
  BY TickInvariant, RewindInvariant, IndexInvariant, ConfirmInvariant,
     CrashInvariant, EnvironmentInvariant, StutterInvariant
  DEF Next, Tick
<1>2. QED BY <1>1, InitInvariant, PTL DEF Spec

-----------------------------------------------------------------------------
(***************************************************************************)
(* The properties                                                          *)
(***************************************************************************)

\* Type correctness of the store and of a pass's locals.
THEOREM IndexerTypeCorrect == Spec => []TypeOK
BY IndexerInvariant, PTL DEF IInv

\* Whatever the node answers and wherever the process dies, every height up
\* to the cursor has its block.
THEOREM IndexerNoHoles == Spec => []NoHolesBelowCursor
BY IndexerInvariant, PTL DEF IInv

\* Only MoveCursor lowers the cursor; a checkpoint is always above it.
LEMMA ShallowStep ==
    ASSUME IInv, [Next]_vars, cursor'.height < cursor.height
    PROVE  IF actor = "tick"
           THEN cursor.height - cursor'.height <= MaxRollbackDepth
           ELSE cursor.height - cursor'.height > MaxRollbackDepth
<1>0. cursor.height \in Int /\ at \in Int /\ MaxRollbackDepth \in Int
  BY HeightsAreIntegers, IndexerAssumption DEF IInv, TypeOK, StoreTypeOK
<1>1. CASE MoveCursor
  <2>1. cursor'.height = at /\ pc = "move_cursor" /\ actor \in {"tick", "operator"}
    BY <1>1 DEF MoveCursor, IInv, TypeOK
  <2>2. QED BY <1>0, <2>1, IndexerAssumption DEF IInv, PassInv, Floor
<1>2. CASE SaveProgress
  <2>1. cursor'.height = at /\ pc = "progress"
    BY <1>2 DEF SaveProgress
  <2>2. cursor.height < at
    BY <2>1 DEF IInv, PassInv, IndexStages
  <2>3. QED BY <1>0, <2>1, <2>2
<1>3. CASE ~MoveCursor /\ ~SaveProgress
  <2>1. CASE UNCHANGED vars
    BY <1>0, <2>1 DEF vars
  <2>2. CASE Next
    <3>1. UNCHANGED cursor
      BY <1>3, <2>2
      DEF Next, Tick, TickFails, TickBegins, TickChecks, Walk, Resume, Rewind,
          IndexBlock, Abandon, DropBlocks, DropTransactions, DropEpochs,
          DropCommitments, ResetRounds, ClearSuccessor, DropEvents,
          LowerDiffCursor, ResetWalker, FetchHash, FetchBlock, WriteCommitments,
          WriteEpoch, WriteTransactions, UpsertBlock, LinkBlock,
          ConfirmRewind, OperatorConfirms, Inspect, Probe, Crash, Environment
    <3>2. QED BY <1>0, <3>1
  <2>3. QED BY <2>1, <2>2
<1>4. QED BY <1>1, <1>2, <1>3

\* However the node answers on the way down, an automatic rewind takes the
\* cursor no deeper than MAX_ROLLBACK_DEPTH, and a confirmed one is deeper.
THEOREM IndexerShallow == Spec => AutomaticRewindIsShallow
<1>1. IInv /\ [Next]_vars =>
        [cursor'.height < cursor.height =>
           IF actor = "tick"
           THEN cursor.height - cursor'.height <= MaxRollbackDepth
           ELSE cursor.height - cursor'.height > MaxRollbackDepth]_vars
  BY ShallowStep
<1>2. QED BY <1>1, IndexerInvariant, PTL DEF Spec, AutomaticRewindIsShallow
=============================================================================
