----------------------------- MODULE ChainStore -----------------------------
(***************************************************************************)
(* What the chain-derived services of the explorer share: the node they    *)
(* ask (`getblockcount`, `getblockhash`, `getblock`) and the MongoDB       *)
(* collections they write.  The block indexer, the masternode list-diff    *)
(* walker and the quorum round collector are separate modules over this    *)
(* state; all three run in one process, so one crash takes all three.      *)
(*                                                                         *)
(* A block is named by its hash, and a hash commits to a whole history, so *)
(* the node's active chain is just its best block: ancestor[b][h] is the   *)
(* block at height h of the chain that ends in b, and None above b.        *)
(***************************************************************************)
EXTENDS Integers

CONSTANTS
    Blocks,      \* every block any node of the network may ever have mined
    MaxHeight,   \* bound: the greatest height of a block
    heightOf,    \* [Blocks -> Heights]
    ancestor,    \* [Blocks -> [Heights -> Blocks \cup {None}]]
    Quorums,     \* commitment keys: one quorum of one cycle
    quorumsIn,   \* [Blocks -> SUBSET Quorums], commitments a block mines
    Txs,         \* transaction ids
    txsIn,       \* [Blocks -> SUBSET Txs]
    Boundaries,  \* heights that close a DSL service epoch
    Slots,       \* heights at which a DKG round is due
    Masternodes, \* proTxHashes
    penaltyOf,   \* [Blocks -> [Masternodes -> Nat]], PoSe penalty as of a block
    None         \* null, and the empty hash ''

Heights == 0..MaxHeight

BlockOrNone == Blocks \cup {None}

\* The block tree: a block sits at its own height on its own chain, and the
\* chain below any of its blocks is that block's chain.
ASSUME TreeAssumption ==
    /\ MaxHeight \in Nat
    /\ None \notin Blocks /\ None \notin Heights
    /\ heightOf \in [Blocks -> Heights]
    /\ ancestor \in [Blocks -> [Heights -> BlockOrNone]]
    /\ \A b \in Blocks, h \in Heights :
         /\ h > heightOf[b] => ancestor[b][h] = None
         /\ h <= heightOf[b] => /\ ancestor[b][h] \in Blocks
                                /\ heightOf[ancestor[b][h]] = h
                                /\ \A k \in 0..h : ancestor[ancestor[b][h]][k]
                                                     = ancestor[b][k]
         /\ h = heightOf[b] => ancestor[b][h] = b

ASSUME ContentAssumption ==
    /\ quorumsIn \in [Blocks -> SUBSET Quorums]
    /\ txsIn \in [Blocks -> SUBSET Txs]
    /\ Boundaries \subseteq Heights
    /\ Slots \subseteq Heights
    /\ penaltyOf \in [Blocks -> [Masternodes -> Nat]]

\* What consensus lets a chain hold: a commitment and a transaction are mined
\* once on it, and nobody is punished before there can be a masternode.
ASSUME ConsensusAssumption ==
    /\ \A b \in Blocks : \A h, k \in 0..heightOf[b] :
         h # k => /\ quorumsIn[ancestor[b][h]] \cap quorumsIn[ancestor[b][k]] = {}
                  /\ txsIn[ancestor[b][h]] \cap txsIn[ancestor[b][k]] = {}
    /\ \A b \in Blocks, m \in Masternodes : heightOf[b] <= 1 => penaltyOf[b][m] = 0

PreviousOf(b) == IF heightOf[b] = 0 THEN None ELSE ancestor[b][heightOf[b] - 1]

VARIABLES
    best,            \* the node's best block
    online,          \* whether the node answers at all
    cursor,          \* SyncState "blocks": [height, hash]
    blockRows,       \* Block, unique on height: [Heights -> BlockOrNone]
    nextRows,        \* Block.nextblockhash of the row at a height
    txRows,          \* Transaction.blockhash: [Txs -> BlockOrNone]
    epochRows,       \* ServiceEpoch.boundaryBlockHash: [Boundaries -> ...]
    commitmentRows,  \* QuorumCommitment.minedBlockHash: [Quorums -> ...]
    roundRows,       \* QuorumRound: [Slots -> RoundRow]
    eventRows,       \* MasternodeEvent of type penalty_up, source 'listdiff'
    diffCursor,      \* SyncState "mndiff": the walker's height
    seeded,          \* in memory: the walker's penalty map is valid
    penalties,       \* in memory: the walker's penalty map, -1 for no entry
    overtaken        \* in memory: reset has bumped `generation` since the walk
                     \* in flight captured it

nodeVars == <<best, online>>
indexRows == <<blockRows, nextRows, txRows, epochRows, commitmentRows>>
walkerMemory == <<seeded, penalties, overtaken>>

RoundStatus == {"absent", "pending", "formed", "failed", "impossible"}

\* complete is detailsComplete, resolved whether resolvedAt is set, and streak
\* is consecutiveFailures.
RoundRow == [status: RoundStatus, minedBlock: BlockOrNone,
             minedHeight: Heights \cup {None}, complete: BOOLEAN,
             resolved: BOOLEAN, streak: Nat]

NoRound == [status |-> "absent", minedBlock |-> None, minedHeight |-> None,
            complete |-> FALSE, resolved |-> FALSE, streak |-> 0]

-----------------------------------------------------------------------------
(***************************************************************************)
(* The node                                                                *)
(***************************************************************************)

\* getblockhash, and hashAt: null when the node is silent or the height is
\* above its tip.
NodeHash(h) == IF online THEN ancestor[best][h] ELSE None

\* getblockcount of a node that answers
NodeTip == heightOf[best]

\* nextblockhash of getblock: known only for a block below the tip of the
\* active chain.
NodeSuccessor(b) ==
    IF heightOf[b] < NodeTip /\ ancestor[best][heightOf[b]] = b
    THEN ancestor[best][heightOf[b] + 1]
    ELSE None

\* The node extends its chain, reorganises, or (reindexing) falls back.
NodeMoves ==
    /\ best' \in Blocks \ {best}
    /\ UNCHANGED online

\* The node extends its chain or changes to a longer one, as it does when it is
\* not reindexing.
NodeGrows == NodeMoves /\ heightOf[best'] > heightOf[best]

\* Of the chains that compete the one that reaches MaxHeight wins, and the node
\* does not leave it again.
Wins(b) == \E w \in Blocks : heightOf[w] = MaxHeight /\ ancestor[w][heightOf[b]] = b

NodeSettles ==
    NodeGrows /\ (Wins(best') \/ ancestor[best'][heightOf[best]] = best)

\* The node stops answering (restart, warmup, timeouts) or answers again.
NodeToggles ==
    /\ online' = ~online
    /\ UNCHANGED best

-----------------------------------------------------------------------------
(***************************************************************************)
(* The store                                                               *)
(***************************************************************************)

\* The penalty map of a walker that has no seed.
NoPenalties == [m \in Masternodes |-> -1]

StoreInit ==
    /\ best \in {b \in Blocks : heightOf[b] = 0}
    /\ online = TRUE
    /\ cursor = [height |-> -1, hash |-> None]
    /\ blockRows = [h \in Heights |-> None]
    /\ nextRows = [h \in Heights |-> None]
    /\ txRows = [t \in Txs |-> None]
    /\ epochRows = [h \in Boundaries |-> None]
    /\ commitmentRows = [q \in Quorums |-> None]
    /\ roundRows = [s \in Slots |-> NoRound]
    /\ eventRows = {}
    /\ diffCursor = -1

\* A row that names a block above height c names None instead.
CutAbove(b, c) == IF b # None /\ heightOf[b] > c THEN None ELSE b

\* quorumReorgReset: a round scheduled above c, or whose commitment was mined
\* above it, goes back to pending and unresolved; detailsComplete and
\* consecutiveFailures are not among the fields the reset names.
ResetRound(s, row, c) ==
    IF /\ row.status # "absent"
       /\ \/ s > c
          \/ row.minedHeight # None /\ row.minedHeight > c
    THEN [status |-> "pending", minedBlock |-> None, minedHeight |-> None,
          complete |-> row.complete, resolved |-> FALSE, streak |-> row.streak]
    ELSE row

StoreTypeOK ==
    /\ best \in Blocks
    /\ online \in BOOLEAN
    /\ cursor \in [height: Heights \cup {-1}, hash: BlockOrNone]
    /\ blockRows \in [Heights -> BlockOrNone]
    /\ nextRows \in [Heights -> BlockOrNone]
    /\ txRows \in [Txs -> BlockOrNone]
    /\ epochRows \in [Boundaries -> BlockOrNone]
    /\ commitmentRows \in [Quorums -> BlockOrNone]
    /\ roundRows \in [Slots -> RoundRow]
    /\ eventRows \subseteq [mn: Masternodes, height: Heights]
    /\ diffCursor \in Heights \cup {-1}
=============================================================================
