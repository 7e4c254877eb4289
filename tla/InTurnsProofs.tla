---------------------------- MODULE InTurnsProofs ----------------------------
(***************************************************************************)
(* Proofs about the chain services in turns (ServicesSpec), for every      *)
(* block tree, schedule and bound: no pass overlaps another, the node      *)
(* moves between passes, and the process dies inside a follower's pass or  *)
(* between two.                                                            *)
(***************************************************************************)
EXTENDS ChainServicesProofs


-----------------------------------------------------------------------------
(***************************************************************************)
(* In turns: the index                                                     *)
(***************************************************************************)

\* A collection whose rows name the block of the chain of b that carries them,
\* as far as height n: no such block is without its row and no row of a height
\* up to n names another one.
Matches(rows, contents, items, b, n) ==
    /\ \A i \in items, h \in Heights :
         h <= n /\ i \in contents[ancestor[b][h]] => rows[i] = ancestor[b][h]
    /\ \A i \in items :
         rows[i] # None /\ heightOf[rows[i]] <= n =>
             /\ rows[i] = ancestor[b][heightOf[rows[i]]]
             /\ i \in contents[rows[i]]

\* No row names a block above height n.
Ends(rows, items, n) == \A i \in items : rows[i] # None => heightOf[rows[i]] <= n

BlocksMatch(b, n) == \A h \in Heights : h <= n => blockRows[h] = ancestor[b][h]
BlocksEnd(n) == \A h \in Heights : h > n => blockRows[h] = None
LinksMatch(b, n) == \A h \in Heights : h < n => nextRows[h] = ancestor[b][h + 1]
EpochsMatch(b, n) == \A h \in Boundaries : h <= n => epochRows[h] = ancestor[b][h]
EpochsEnd(n) == \A h \in Boundaries : h > n => epochRows[h] = None
EpochsPlaced == \A h \in Boundaries : epochRows[h] # None => heightOf[epochRows[h]] = h

\* The chain a pass builds on, and how far a collection that is written at the
\* stages before those of `done` follows it: a batch is on the node's chain.
Chain == IF pc \in IndexStages THEN best ELSE cursor.hash
UpTo(written) ==
    IF pc \in IndexStages THEN IF pc \in written THEN at ELSE at - 1
    ELSE cursor.height

CommitmentsWritten == {"epoch", "txs", "upsert", "link", "progress"}
EpochWritten == CommitmentsWritten \ {"epoch"}
TxsWritten == EpochWritten \ {"txs"}
BlockWritten == TxsWritten \ {"upsert"}
LinkWritten == {"progress"}

\* The stages of a rewind at which a collection has not been cut yet.
BlocksUncut == {"drop_blocks"}
TxsUncut == BlocksUncut \cup {"drop_txs"}
EpochsUncut == TxsUncut \cup {"drop_epochs"}
CommitmentsUncut == EpochsUncut \cup {"drop_commitments"}
RoundsUncut == CommitmentsUncut \cup {"reset_rounds"}
EventsUncut == RoundsUncut \cup {"clear_successor", "drop_events"}
DiffCursorUncut == EventsUncut \cup {"lower_diff_cursor"}
MemoryUncut == DiffCursorUncut \cup {"reset_walker"}

\* The cursor names a block at its height, and none before the first.
CursorNamesBlock ==
    IF cursor.height = -1 THEN cursor.hash = None
    ELSE cursor.hash \in Blocks /\ heightOf[cursor.hash] = cursor.height

\* A pass is of one chain: the node neither moves nor falls silent under it.
PassOfOneChain ==
    /\ pc # "idle" => online /\ tip = NodeTip
    /\ pc \in IndexStages =>
         /\ to <= tip
         /\ cursor.height >= 0 => ancestor[best][cursor.height] = cursor.hash
         /\ pc # "progress" => expected \in {None, IF at = 0 THEN None ELSE ancestor[best][at - 1]}
         /\ pc = "progress" => expected = ancestor[best][at]
         /\ pc \notin {"fetch", "progress"} => blk = ancestor[best][at]
    /\ pc \in MemoryUncut \cup {"resume"} =>
         at = cursor.height /\ cursor.hash = ancestor[best][at]

\* The walk and the bisection have agreement below and disagreement above.
SearchInv ==
    /\ pc \in {"walk", "move_cursor"} =>
         \A h \in Heights : at < h /\ h < cursor.height =>
             ancestor[cursor.hash][h] # ancestor[best][h]
    /\ pc = "move_cursor" => ancestor[cursor.hash][at] = ancestor[best][at]
    /\ pc = "probe" =>
         /\ at >= 0 => ancestor[cursor.hash][at] = ancestor[best][at]
         /\ ancestor[cursor.hash][to] # ancestor[best][to]
         /\ to <= tip

\* Every collection follows the chain as far as it has been written, and ends
\* there unless a rewind has yet to cut it.
IndexMatches ==
    /\ CursorNamesBlock
    /\ BlocksMatch(Chain, UpTo(BlockWritten))
    /\ pc \notin BlocksUncut => BlocksEnd(UpTo(BlockWritten))
    /\ LinksMatch(Chain, UpTo(LinkWritten))
    /\ Matches(txRows, txsIn, Txs, Chain, UpTo(TxsWritten))
    /\ pc \notin TxsUncut => Ends(txRows, Txs, UpTo(TxsWritten))
    /\ EpochsPlaced /\ EpochsMatch(Chain, UpTo(EpochWritten))
    /\ pc \notin EpochsUncut => EpochsEnd(UpTo(EpochWritten))
    /\ Matches(commitmentRows, quorumsIn, Quorums, Chain, UpTo(CommitmentsWritten))
    /\ pc \notin CommitmentsUncut =>
         Ends(commitmentRows, Quorums, UpTo(CommitmentsWritten))

IndexInTurns == PassOfOneChain /\ SearchInv /\ IndexMatches

-----------------------------------------------------------------------------
(***************************************************************************)
(* Collections along a chain                                               *)
(***************************************************************************)

\* What follows one chain follows another as far as the two are the same.
LEMMA MatchesShorter ==
    ASSUME NEW items, NEW rows \in [items -> BlockOrNone], NEW contents,
           NEW b, NEW c, NEW n \in Int, NEW k \in Int, k <= n,
           \A h \in Heights : h <= k => ancestor[c][h] = ancestor[b][h],
           Matches(rows, contents, items, b, n)
    PROVE  Matches(rows, contents, items, c, k)
<1>1. \A i \in items, h \in Heights :
        h <= k /\ i \in contents[ancestor[c][h]] => rows[i] = ancestor[c][h]
  BY HeightsAreIntegers DEF Matches
<1>2. ASSUME NEW i \in items, rows[i] # None, heightOf[rows[i]] <= k
      PROVE  /\ rows[i] = ancestor[c][heightOf[rows[i]]] /\ i \in contents[rows[i]]
  <2>1. heightOf[rows[i]] \in Heights
    BY <1>2, TreeAssumption DEF BlockOrNone
  <2>2. heightOf[rows[i]] <= n
    BY <1>2, <2>1, HeightsAreIntegers
  <2>3. QED BY <1>2, <2>1, <2>2 DEF Matches
<1>3. QED BY <1>1, <1>2 DEF Matches

\* A cut takes away what is above, and nothing else.
LEMMA MatchesCut ==
    ASSUME NEW items, NEW rows \in [items -> BlockOrNone], NEW contents,
           NEW b \in Blocks, NEW n \in Heights, n <= heightOf[b],
           Matches(rows, contents, items, b, n)
    PROVE  LET cut == [i \in items |-> CutAbove(rows[i], n)]
           IN Matches(cut, contents, items, b, n) /\ Ends(cut, items, n)
<1> DEFINE cut == [i \in items |-> CutAbove(rows[i], n)]
<1>1. \A i \in items : /\ cut[i] # None => /\ cut[i] = rows[i]
                                          /\ heightOf[cut[i]] <= n
                       /\ rows[i] # None /\ heightOf[rows[i]] <= n => cut[i] = rows[i]
  <2>1. \A i \in items : cut[i] = IF rows[i] # None /\ heightOf[rows[i]] > n
                                  THEN None ELSE rows[i]
    BY DEF CutAbove
  <2>2. \A i \in items : rows[i] # None => heightOf[rows[i]] \in Int
    BY TreeAssumption, HeightsAreIntegers DEF BlockOrNone
  <2>3. n \in Int
    BY HeightsAreIntegers
  <2> HIDE DEF cut
  <2>4. QED BY <2>1, <2>2, <2>3
<1> HIDE DEF cut
<1>2. ASSUME NEW i \in items, NEW h \in Heights, h <= n, i \in contents[ancestor[b][h]]
      PROVE  cut[i] = ancestor[b][h]
  <2>1. rows[i] = ancestor[b][h]
    BY <1>2 DEF Matches
  <2>2. ancestor[b][h] \in Blocks /\ heightOf[ancestor[b][h]] = h
    BY <1>2, ChainBelow, HeightsAreIntegers, TreeAssumption
  <2>3. QED BY <1>1, <1>2, <2>1, <2>2, TreeAssumption
<1>3. ASSUME NEW i \in items, cut[i] # None, heightOf[cut[i]] <= n
      PROVE  /\ cut[i] = ancestor[b][heightOf[cut[i]]] /\ i \in contents[cut[i]]
  BY <1>1, <1>3 DEF Matches
<1>4. Matches(cut, contents, items, b, n) /\ Ends(cut, items, n)
  BY <1>1, <1>2, <1>3 DEF Matches, Ends
<1>5. QED BY <1>4 DEF cut

\* The next block's rows, of contents a chain carries once.
LEMMA MatchesExtend ==
    ASSUME NEW items, NEW rows \in [items -> BlockOrNone],
           NEW contents \in [Blocks -> SUBSET items],
           NEW b \in Blocks, NEW n \in Heights, n <= heightOf[b],
           \A h, k \in 0..heightOf[b] :
               h # k => contents[ancestor[b][h]] \cap contents[ancestor[b][k]] = {},
           Matches(rows, contents, items, b, n - 1), Ends(rows, items, n - 1),
           NEW new \in [items -> BlockOrNone],
           \A i \in items :
               new[i] = IF i \in contents[ancestor[b][n]] THEN ancestor[b][n] ELSE rows[i]
    PROVE  Matches(new, contents, items, b, n) /\ Ends(new, items, n)
<1> USE HeightsAreIntegers
<1>0. /\ ancestor[b][n] \in Blocks /\ heightOf[ancestor[b][n]] = n
      /\ heightOf[b] \in Heights
  BY ChainBelow, TreeAssumption
<1>1. ASSUME NEW i \in items, NEW h \in Heights, h <= n, i \in contents[ancestor[b][h]]
      PROVE  new[i] = ancestor[b][h]
  <2>1. CASE h = n
    BY <1>1, <2>1
  <2>2. CASE h # n
    <3>1. h \in 0..heightOf[b] /\ n \in 0..heightOf[b] /\ h <= n - 1
      BY <1>0, <1>1, <2>2
    <3>2. i \notin contents[ancestor[b][n]]
      BY <1>1, <2>2, <3>1
    <3>3. rows[i] = ancestor[b][h]
      BY <1>1, <3>1 DEF Matches
    <3>4. QED BY <3>2, <3>3
  <2>3. QED BY <2>1, <2>2
<1>2. ASSUME NEW i \in items, new[i] # None
      PROVE  /\ heightOf[new[i]] <= n
             /\ new[i] = ancestor[b][heightOf[new[i]]] /\ i \in contents[new[i]]
  <2>1. CASE i \in contents[ancestor[b][n]]
    BY <1>0, <2>1
  <2>2. CASE i \notin contents[ancestor[b][n]]
    <3>1. new[i] = rows[i] /\ rows[i] # None
      BY <1>2, <2>2
    <3>2. heightOf[rows[i]] <= n - 1 /\ heightOf[rows[i]] \in Int
      BY <3>1, TreeAssumption DEF Ends, BlockOrNone
    <3>3. rows[i] = ancestor[b][heightOf[rows[i]]] /\ i \in contents[rows[i]]
      BY <3>1, <3>2 DEF Matches
    <3>4. QED BY <3>1, <3>2, <3>3
  <2>3. QED BY <2>1, <2>2
<1>3. QED BY <1>1, <1>2 DEF Matches, Ends

\* Nothing written follows any chain below its first block.
LEMMA MatchesNothing ==
    ASSUME NEW items, NEW rows \in [items -> BlockOrNone], NEW contents, NEW b
    PROVE  /\ Matches(rows, contents, items, b, -1)
           /\ (\A i \in items : rows[i] = None) => Ends(rows, items, -1)
<1>1. \A h \in Heights : ~(h <= -1)
  BY HeightsAreIntegers
<1>2. \A i \in items : rows[i] # None => ~(heightOf[rows[i]] <= -1)
  BY <1>1, TreeAssumption DEF BlockOrNone
<1>3. QED BY <1>1, <1>2 DEF Matches, Ends

-----------------------------------------------------------------------------
(***************************************************************************)
(* Steps that leave the index where it is                                  *)
(***************************************************************************)

\* The ranges the proofs below compare.
LEMMA TurnTypes ==
    ASSUME IInv
    PROVE  /\ best \in Blocks /\ heightOf[best] \in Heights /\ heightOf[best] \in Int
           /\ cursor.height \in Heights \cup {-1} /\ cursor.height \in Int
           /\ cursor.hash \in BlockOrNone
           /\ tip \in Int /\ at \in Int /\ to \in Int
           /\ blockRows \in [Heights -> BlockOrNone]
           /\ nextRows \in [Heights -> BlockOrNone]
           /\ txRows \in [Txs -> BlockOrNone]
           /\ epochRows \in [Boundaries -> BlockOrNone]
           /\ commitmentRows \in [Quorums -> BlockOrNone]
BY HeightsAreIntegers, TreeAssumption DEF IInv, TypeOK, StoreTypeOK

\* A stage outside a batch that writes nothing, when no cut is outstanding.
LEMMA QuietStays ==
    ASSUME IndexMatches, UNCHANGED <<cursor, indexRows>>,
           pc \notin IndexStages \cup CommitmentsUncut, pc' \notin IndexStages
    PROVE  IndexMatches'
<1>1. /\ Chain' = Chain
      /\ UpTo(BlockWritten)' = UpTo(BlockWritten)
      /\ UpTo(LinkWritten)' = UpTo(LinkWritten)
      /\ UpTo(TxsWritten)' = UpTo(TxsWritten)
      /\ UpTo(EpochWritten)' = UpTo(EpochWritten)
      /\ UpTo(CommitmentsWritten)' = UpTo(CommitmentsWritten)
  BY DEF Chain, UpTo
<1>2. pc \notin BlocksUncut /\ pc \notin TxsUncut /\ pc \notin EpochsUncut
  BY DEF BlocksUncut, TxsUncut, EpochsUncut, CommitmentsUncut
<1>3. /\ UNCHANGED cursor /\ UNCHANGED blockRows /\ UNCHANGED nextRows
      /\ UNCHANGED txRows /\ UNCHANGED epochRows /\ UNCHANGED commitmentRows
  BY DEF indexRows
<1>4. QED
  BY <1>1, <1>2, <1>3
  DEF IndexMatches, CursorNamesBlock, BlocksMatch, BlocksEnd, LinksMatch,
      EpochsPlaced, EpochsMatch, EpochsEnd, Matches, Ends

\* What the indexer's own proofs and the chain's say together.
TurnInv == IInv /\ IndexInTurns

\* The end of a pass that has written nothing since its last cut.
LEMMA TurnEnds ==
    ASSUME TurnInv, Forget, UNCHANGED <<cursor, indexRows>>,
           pc \notin IndexStages \cup CommitmentsUncut
    PROVE  IndexInTurns'
<1>1. pc' = "idle" /\ pc' \notin IndexStages
  BY DEF Forget, IndexStages
<1>2. IndexMatches'
  BY <1>1, QuietStays DEF TurnInv, IndexInTurns
<1>3. PassOfOneChain' /\ SearchInv'
  BY <1>1
  DEF PassOfOneChain, SearchInv, IndexStages, MemoryUncut, DiffCursorUncut,
      EventsUncut, RoundsUncut, CommitmentsUncut, EpochsUncut, TxsUncut, BlocksUncut
<1>4. QED BY <1>2, <1>3 DEF IndexInTurns

\* A stage outside a batch that writes nothing to the index: what is left to
\* show is where the pass stands.
LEMMA TurnGoesOn ==
    ASSUME TurnInv, UNCHANGED <<cursor, indexRows>>,
           pc \notin IndexStages \cup CommitmentsUncut,
           pc' \notin IndexStages, PassOfOneChain', SearchInv'
    PROVE  IndexInTurns'
BY QuietStays DEF TurnInv, IndexInTurns

\* A batch starts above a cursor whose block is on the node's chain, so what
\* followed the cursor's chain follows the node's.
LEMMA BatchBegins ==
    ASSUME TurnInv, online, UNCHANGED nodeVars, UNCHANGED <<cursor, indexRows>>,
           pc \notin IndexStages \cup CommitmentsUncut,
           cursor.height >= 0 => ancestor[best][cursor.height] = cursor.hash,
           NEW hash \in {None, cursor.hash},
           StartBatch(cursor.height, hash, NodeTip)
    PROVE  IndexInTurns'
<1> USE HeightsAreIntegers
<1>1. CASE cursor.height + 1 > NodeTip
  BY <1>1, TurnEnds DEF StartBatch
<1>2. CASE ~(cursor.height + 1 > NodeTip)
  <2> DEFINE n == cursor.height
  <2>1. /\ n \in Int /\ n >= -1 /\ heightOf[best] \in Int /\ best \in Blocks
        /\ n \in Heights \cup {-1} /\ BatchSize \in Int /\ BatchSize > 0
        /\ n + 1 <= heightOf[best] /\ NodeTip = heightOf[best]
        /\ nextRows \in [Heights -> BlockOrNone]
        /\ txRows \in [Txs -> BlockOrNone]
        /\ commitmentRows \in [Quorums -> BlockOrNone]
    BY <1>2, TurnTypes, IndexerAssumption DEF TurnInv, NodeTip
  <2>2. /\ pc' = "fetch" /\ tip' = NodeTip /\ at' = n + 1
        /\ to' <= NodeTip /\ expected' = hash
        /\ UNCHANGED <<best, online>>
    BY <1>2, <2>1 DEF StartBatch, nodeVars
  <2>3. /\ IndexMatches /\ CursorNamesBlock
        /\ UNCHANGED cursor /\ UNCHANGED blockRows /\ UNCHANGED nextRows
        /\ UNCHANGED txRows /\ UNCHANGED epochRows /\ UNCHANGED commitmentRows
    BY DEF TurnInv, IndexInTurns, IndexMatches, indexRows
  <2>4. /\ n = -1 => cursor.hash = None
        /\ n >= 0 => cursor.hash \in Blocks /\ heightOf[cursor.hash] = n
                     /\ ancestor[best][n] = cursor.hash
    BY <2>1, <2>3 DEF CursorNamesBlock
  <2>5. \A h \in Heights : h <= n => ancestor[best][h] = ancestor[cursor.hash][h]
    <3>1. CASE n = -1
      BY <3>1
    <3>2. CASE n >= 0
      BY <2>1, <2>4, <3>2, ChainBelow
    <3>3. QED BY <2>1, <3>1, <3>2
  <2>6. /\ BlocksMatch(cursor.hash, n) /\ BlocksEnd(n)
        /\ LinksMatch(cursor.hash, n)
        /\ Matches(txRows, txsIn, Txs, cursor.hash, n) /\ Ends(txRows, Txs, n)
        /\ EpochsPlaced /\ EpochsMatch(cursor.hash, n) /\ EpochsEnd(n)
        /\ Matches(commitmentRows, quorumsIn, Quorums, cursor.hash, n)
        /\ Ends(commitmentRows, Quorums, n)
    BY <2>3 DEF IndexMatches, Chain, UpTo, BlocksUncut, TxsUncut, EpochsUncut, CommitmentsUncut
  <2>7. /\ Matches(txRows, txsIn, Txs, best, n)
        /\ Matches(commitmentRows, quorumsIn, Quorums, best, n)
    BY <2>1, <2>5, <2>6, MatchesShorter
  <2>8. BlocksMatch(best, n) /\ EpochsMatch(best, n) /\ LinksMatch(best, n)
    <3>1. BlocksMatch(best, n)
      BY <2>5, <2>6 DEF BlocksMatch
    <3>2. EpochsMatch(best, n)
      BY <2>5, <2>6, ContentAssumption DEF EpochsMatch
    <3>3. ASSUME NEW h \in Heights, h < n PROVE nextRows[h] = ancestor[best][h + 1]
      <4>1. h + 1 \in Heights /\ h + 1 <= n
        BY <2>1, <3>3
      <4>2. QED BY <2>5, <2>6, <3>3, <4>1 DEF LinksMatch
    <3>4. QED BY <3>1, <3>2, <3>3 DEF LinksMatch
  <2>9. /\ pc' \in IndexStages /\ Chain' = best
        /\ UpTo(BlockWritten)' = n /\ UpTo(LinkWritten)' = n
        /\ UpTo(TxsWritten)' = n /\ UpTo(EpochWritten)' = n
        /\ UpTo(CommitmentsWritten)' = n
    BY <2>1, <2>2
    DEF Chain, UpTo, IndexStages, LinkWritten, BlockWritten, TxsWritten,
        EpochWritten, CommitmentsWritten
  <2>10. IndexMatches'
    BY <2>3, <2>6, <2>7, <2>8, <2>9, <2>2
    DEF IndexMatches, CursorNamesBlock, BlocksMatch, BlocksEnd, LinksMatch,
        EpochsPlaced, EpochsMatch, EpochsEnd, Matches, Ends
  <2>11. PassOfOneChain' /\ SearchInv'
    <3>1. hash \in {None, IF n = -1 THEN None ELSE ancestor[best][n]}
      BY <2>1, <2>4
    <3>2. n + 1 = 0 <=> n = -1
      BY <2>1
    <3>3. (n + 1) - 1 = n
      BY <2>1
    <3>4. QED
      BY <2>2, <2>3, <2>4, <3>1, <3>2, <3>3
      DEF PassOfOneChain, SearchInv, NodeTip, IndexStages, MemoryUncut, DiffCursorUncut,
          EventsUncut, RoundsUncut, CommitmentsUncut, EpochsUncut, TxsUncut, BlocksUncut
  <2>12. QED BY <2>10, <2>11 DEF IndexInTurns
<1>3. QED BY <1>1, <1>2

-----------------------------------------------------------------------------
(***************************************************************************)
(* The steps of the indexer                                                *)
(***************************************************************************)

\* Below a height where two chains agree they agree.
LEMMA AgreeBelow ==
    ASSUME NEW b \in Blocks, NEW c \in Blocks, NEW h \in Heights,
           h <= heightOf[b], h <= heightOf[c], ancestor[b][h] = ancestor[c][h]
    PROVE  \A k \in Heights : k <= h => ancestor[b][k] = ancestor[c][k]
BY ChainBelow

\* The cursor's block while no batch is being written.
LEMMA CursorBlock ==
    ASSUME TurnInv, cursor.height >= 0
    PROVE  /\ cursor.height \in Heights
           /\ cursor.hash \in Blocks /\ heightOf[cursor.hash] = cursor.height
           /\ ancestor[cursor.hash][cursor.height] = cursor.hash
<1>1. cursor.height \in Heights /\ cursor.height # -1
  BY TurnTypes, HeightsAreIntegers DEF TurnInv
<1>2. cursor.hash \in Blocks /\ heightOf[cursor.hash] = cursor.height
  BY <1>1 DEF TurnInv, IndexInTurns, IndexMatches, CursorNamesBlock
<1>3. QED BY <1>1, <1>2, TreeAssumption

\* What is stored up to the cursor while no batch is being written.
LEMMA StoredBlocks ==
    ASSUME TurnInv, pc \notin IndexStages, NEW h \in Heights, h <= cursor.height
    PROVE  blockRows[h] = ancestor[cursor.hash][h]
BY DEF TurnInv, IndexInTurns, IndexMatches, Chain, UpTo, BlocksMatch

\* A tick up to the first write of a rewind or of a batch.
LEMMA TickInTurns ==
    ASSUME TurnInv, TickFails \/ TickBegins \/ TickChecks \/ Walk \/ Resume
    PROVE  IndexInTurns'
<1> USE HeightsAreIntegers
<1>0. /\ best \in Blocks /\ heightOf[best] \in Int /\ heightOf[best] \in Heights
      /\ cursor.height \in Int /\ cursor.height \in Heights \cup {-1}
      /\ at \in Int /\ tip \in Int
      /\ NodeTip = heightOf[best] /\ IndexMatches /\ PassOfOneChain /\ SearchInv
  BY TurnTypes DEF TurnInv, NodeTip, IndexInTurns
<1>1. CASE TickFails
  BY <1>1, TurnEnds
  DEF TickFails, Abandon, IndexStages, CommitmentsUncut, EpochsUncut, TxsUncut, BlocksUncut
<1>2. CASE TickBegins
  <2>1. /\ pc = "idle" /\ online /\ UNCHANGED nodeVars /\ UNCHANGED <<cursor, indexRows>>
        /\ pc \notin IndexStages \cup CommitmentsUncut
    BY <1>2 DEF TickBegins, IndexStages, CommitmentsUncut, EpochsUncut, TxsUncut, BlocksUncut
  <2>2. CASE cursor.height >= 0
    <3>1. pc' = "check" /\ tip' = NodeTip
      BY <1>2, <2>2 DEF TickBegins
    <3>2. PassOfOneChain' /\ SearchInv'
      BY <2>1, <3>1
      DEF PassOfOneChain, SearchInv, NodeTip, nodeVars, IndexStages, MemoryUncut,
          DiffCursorUncut, EventsUncut, RoundsUncut, CommitmentsUncut, EpochsUncut,
          TxsUncut, BlocksUncut
    <3>3. pc' \notin IndexStages
      BY <3>1 DEF IndexStages
    <3>4. QED BY <2>1, <3>2, <3>3, TurnGoesOn
  <2>3. CASE ~(cursor.height >= 0)
    BY <1>2, <2>1, <2>3, BatchBegins DEF TickBegins
  <2>4. QED BY <2>2, <2>3
<1>3. CASE TickChecks
  <2> DEFINE nodeHash == IF tip < cursor.height THEN None
                         ELSE NodeHash(cursor.height)
             verdict == ReorgVerdict(cursor.height, cursor.hash, tip, nodeHash)
  <2>1. /\ pc = "check" /\ UNCHANGED nodeVars
        /\ pc \notin IndexStages \cup CommitmentsUncut
        /\ online /\ tip = NodeTip
    BY <1>0, <1>3
    DEF TickChecks, PassOfOneChain, IndexStages, CommitmentsUncut, EpochsUncut,
        TxsUncut, BlocksUncut
  <2>2. cursor.height >= 0
    BY <2>1 DEF TurnInv, IInv, PassInv
  <2>3. CASE verdict = "continue"
    <3>1. ancestor[best][cursor.height] = cursor.hash
      BY <2>1, <2>3 DEF ReorgVerdict, NodeHash
    <3>2. /\ StartBatch(cursor.height, cursor.hash, tip)
          /\ UNCHANGED <<cursor, indexRows>>
      BY <1>3, <2>3 DEF TickChecks
    <3>3. QED BY <2>1, <3>1, <3>2, BatchBegins
  <2>4. CASE verdict = "wait"
    BY <1>3, <2>1, <2>4, TurnEnds DEF TickChecks, Abandon
  <2>5. CASE verdict = "rewind"
    <3>1. /\ pc' = "walk" /\ at' = cursor.height /\ UNCHANGED tip
          /\ UNCHANGED <<cursor, indexRows>>
      BY <1>3, <2>5 DEF TickChecks
    <3>2. PassOfOneChain' /\ SearchInv'
      BY <1>0, <2>1, <3>1
      DEF PassOfOneChain, SearchInv, NodeTip, nodeVars, IndexStages, MemoryUncut,
          DiffCursorUncut, EventsUncut, RoundsUncut, CommitmentsUncut, EpochsUncut,
          TxsUncut, BlocksUncut
    <3>3. pc' \notin IndexStages
      BY <3>1 DEF IndexStages
    <3>4. QED BY <2>1, <3>1, <3>2, <3>3, TurnGoesOn
  <2>6. QED BY <1>3, <2>3, <2>4, <2>5 DEF TickChecks
<1>4. CASE Walk
  <2> DEFINE step == RewindStep(at, Floor, blockRows[at], NodeHash(at))
  <2>1. /\ pc = "walk" /\ UNCHANGED nodeVars
        /\ pc \notin IndexStages \cup CommitmentsUncut /\ pc \notin IndexStages
        /\ online /\ tip = NodeTip
    BY <1>0, <1>4
    DEF Walk, PassOfOneChain, IndexStages, CommitmentsUncut, EpochsUncut,
        TxsUncut, BlocksUncut
  <2>2. /\ 0 <= at /\ at <= cursor.height /\ at \in Heights
        /\ blockRows[at] = ancestor[cursor.hash][at]
        /\ NodeHash(at) = ancestor[best][at]
        /\ \A h \in Heights : at < h /\ h < cursor.height =>
             ancestor[cursor.hash][h] # ancestor[best][h]
    BY <1>0, <2>1, StoredBlocks DEF TurnInv, IInv, PassInv, SearchInv, NodeHash
  <2>3. CASE step = "settle"
    <3>1. /\ pc' = "move_cursor" /\ UNCHANGED <<tip, at>>
          /\ UNCHANGED <<cursor, indexRows>>
      BY <1>4, <2>3 DEF Walk, Goto, jobVars
    <3>2. ancestor[cursor.hash][at] = ancestor[best][at]
      BY <2>2, <2>3 DEF RewindStep
    <3>3. PassOfOneChain' /\ SearchInv'
      BY <2>1, <2>2, <3>1, <3>2
      DEF PassOfOneChain, SearchInv, NodeTip, nodeVars, IndexStages, MemoryUncut,
          DiffCursorUncut, EventsUncut, RoundsUncut, CommitmentsUncut, EpochsUncut,
          TxsUncut, BlocksUncut
    <3>4. pc' \notin IndexStages
      BY <3>1 DEF IndexStages
    <3>5. QED BY <2>1, <3>1, <3>3, <3>4, TurnGoesOn
  <2>4. CASE step = "wait" \/ step = "operator"
    BY <1>4, <2>1, <2>4, TurnEnds DEF Walk, Abandon
  <2>5. CASE step = "step"
    <3>1. /\ pc' = "walk" /\ at' = at - 1 /\ UNCHANGED tip
          /\ UNCHANGED <<cursor, indexRows>>
      BY <1>4, <2>1, <2>5 DEF Walk
    <3>2. at < cursor.height => ancestor[cursor.hash][at] # ancestor[best][at]
      <4>1. SUFFICES ASSUME at < cursor.height PROVE blockRows[at] # None
        BY <2>2, <2>5, <4>1 DEF RewindStep
      <4>2. QED BY <2>2 DEF TurnInv, IInv, NoHolesBelowCursor
    <3>3. \A h \in Heights : at - 1 < h /\ h < cursor.height =>
            ancestor[cursor.hash][h] # ancestor[best][h]
      <4> TAKE h \in Heights
      <4> HAVE at - 1 < h /\ h < cursor.height
      <4>1. h \in Int /\ (h = at \/ at < h)
        BY <1>0
      <4>2. QED BY <2>2, <3>2, <4>1
    <3>4. PassOfOneChain' /\ SearchInv'
      <4>1. /\ UNCHANGED best /\ UNCHANGED online /\ UNCHANGED cursor
            /\ tip' = NodeTip /\ pc' = "walk"
        BY <2>1, <3>1 DEF nodeVars
      <4>2. PassOfOneChain'
        BY <2>1, <4>1
        DEF PassOfOneChain, NodeTip, IndexStages, MemoryUncut, DiffCursorUncut,
            EventsUncut, RoundsUncut, CommitmentsUncut, EpochsUncut, TxsUncut,
            BlocksUncut
      <4>3. SearchInv'
        BY <3>1, <3>3, <4>1 DEF SearchInv
      <4>4. QED BY <4>2, <4>3
    <3>5. pc' \notin IndexStages
      BY <3>1 DEF IndexStages
    <3>6. QED BY <2>1, <3>1, <3>4, <3>5, TurnGoesOn
  <2>6. QED BY <1>4, <2>3, <2>4, <2>5 DEF Walk
<1>5. CASE Resume
  <2>1. /\ pc = "resume" /\ UNCHANGED nodeVars /\ UNCHANGED <<cursor, indexRows>>
        /\ pc \notin IndexStages \cup CommitmentsUncut
        /\ online /\ tip = NodeTip /\ at = cursor.height
        /\ cursor.hash = ancestor[best][at]
    BY <1>0, <1>5
    DEF Resume, PassOfOneChain, IndexStages, CommitmentsUncut, EpochsUncut,
        TxsUncut, BlocksUncut
  <2>2. NodeHash(at) = cursor.hash
    BY <2>1 DEF NodeHash
  <2>3. QED BY <1>5, <2>1, <2>2, BatchBegins DEF Resume
<1>6. QED BY <1>1, <1>2, <1>3, <1>4, <1>5

\* The bisection keeps agreement below it and disagreement above.
LEMMA ConfirmInTurns ==
    ASSUME TurnInv, ConfirmRewind PROVE IndexInTurns'
<1> USE HeightsAreIntegers
<1>0. /\ best \in Blocks /\ heightOf[best] \in Int /\ heightOf[best] \in Heights
      /\ cursor.height \in Int /\ cursor.height \in Heights \cup {-1}
      /\ at \in Int /\ tip \in Int /\ to \in Int
      /\ NodeTip = heightOf[best] /\ IndexMatches /\ PassOfOneChain /\ SearchInv
  BY TurnTypes DEF TurnInv, NodeTip, IndexInTurns
<1>1. CASE OperatorConfirms
  <2>1. /\ pc = "idle" /\ pc' = "inspect" /\ online /\ tip' = NodeTip
        /\ UNCHANGED nodeVars /\ UNCHANGED <<cursor, indexRows>>
        /\ pc \notin IndexStages \cup CommitmentsUncut /\ pc' \notin IndexStages
    BY <1>1
    DEF OperatorConfirms, IndexStages, CommitmentsUncut, EpochsUncut, TxsUncut, BlocksUncut
  <2>2. PassOfOneChain' /\ SearchInv'
    BY <2>1
    DEF PassOfOneChain, SearchInv, NodeTip, nodeVars, IndexStages, MemoryUncut,
        DiffCursorUncut, EventsUncut, RoundsUncut, CommitmentsUncut, EpochsUncut,
        TxsUncut, BlocksUncut
  <2>3. QED BY <2>1, <2>2, TurnGoesOn
<1>2. CASE Inspect
  <2> DEFINE nodeHash == IF cursor.height < 0 \/ tip < cursor.height THEN None
                         ELSE NodeHash(cursor.height)
             fork == /\ cursor.height >= 0
                     /\ ReorgVerdict(cursor.height, cursor.hash, tip, nodeHash) = "rewind"
  <2>1. /\ pc = "inspect" /\ online /\ tip = NodeTip
        /\ UNCHANGED nodeVars /\ UNCHANGED <<cursor, indexRows>>
        /\ pc \notin IndexStages \cup CommitmentsUncut
    BY <1>0, <1>2
    DEF Inspect, PassOfOneChain, IndexStages, CommitmentsUncut, EpochsUncut,
        TxsUncut, BlocksUncut
  <2>2. CASE fork
    <3>1. pc' = "probe" /\ at' = -1 /\ to' = cursor.height /\ UNCHANGED tip
      BY <1>2, <2>2 DEF Inspect
    <3>2. /\ cursor.height <= tip
          /\ ancestor[best][cursor.height] # cursor.hash
      BY <1>0, <2>1, <2>2 DEF ReorgVerdict, NodeHash
    <3>3. ancestor[cursor.hash][cursor.height] = cursor.hash
      BY <2>2, CursorBlock
    <3>4. /\ PassOfOneChain' /\ SearchInv' /\ pc' \notin IndexStages
      BY <2>1, <3>1, <3>2, <3>3
      DEF PassOfOneChain, SearchInv, NodeTip, nodeVars, IndexStages, MemoryUncut,
          DiffCursorUncut, EventsUncut, RoundsUncut, CommitmentsUncut, EpochsUncut,
          TxsUncut, BlocksUncut
    <3>5. QED BY <2>1, <3>4, TurnGoesOn
  <2>3. CASE ~fork
    BY <1>2, <2>1, <2>3, TurnEnds DEF Inspect, Refuse
  <2>4. QED BY <2>2, <2>3
<1>3. CASE Probe
  <2> DEFINE mid == (at + to) \div 2
  <2>1. /\ pc = "probe" /\ online /\ tip = NodeTip
        /\ UNCHANGED nodeVars /\ UNCHANGED <<cursor, indexRows>>
        /\ pc \notin IndexStages \cup CommitmentsUncut /\ pc \notin IndexStages
        /\ at < to /\ to <= cursor.height
        /\ at >= 0 => ancestor[cursor.hash][at] = ancestor[best][at]
        /\ ancestor[cursor.hash][to] # ancestor[best][to]
        /\ to <= tip /\ to \in Heights /\ at \in Heights \cup {-1}
    BY <1>0, <1>3
    DEF Probe, PassOfOneChain, SearchInv, TurnInv, IInv, TypeOK, PassInv, IndexStages,
        CommitmentsUncut, EpochsUncut, TxsUncut, BlocksUncut
  <2>2. CASE to - at > 1
    <3>1. mid \in Int /\ at < mid /\ mid < to
      BY <1>0, <2>2
    <3>2. mid \in Heights /\ mid <= cursor.height /\ mid <= tip /\ mid >= 0
      BY <1>0, <2>1, <3>1
    <3>3. blockRows[mid] = ancestor[cursor.hash][mid] /\ NodeHash(mid) = ancestor[best][mid]
      BY <2>1, <3>2, StoredBlocks DEF NodeHash
    <3>4. CASE Refuse
      BY <2>1, <3>4, TurnEnds DEF Refuse
    <3>5. CASE ~Refuse
      <4>1. /\ IF blockRows[mid] = NodeHash(mid)
               THEN at' = mid /\ UNCHANGED to
               ELSE to' = mid /\ UNCHANGED at
            /\ UNCHANGED <<pc, tip>>
        BY <1>3, <2>2, <3>5 DEF Probe
      <4> HIDE DEF mid
      <4>2. /\ UNCHANGED pc /\ UNCHANGED tip /\ UNCHANGED best /\ UNCHANGED online
            /\ UNCHANGED cursor
        BY <2>1, <4>1 DEF nodeVars
      <4>3. PassOfOneChain' /\ pc' \notin IndexStages
        BY <2>1, <4>2
        DEF PassOfOneChain, NodeTip, IndexStages, MemoryUncut, DiffCursorUncut,
            EventsUncut, RoundsUncut, CommitmentsUncut, EpochsUncut, TxsUncut,
            BlocksUncut
      <4>4. SearchInv'
        BY <2>1, <3>2, <3>3, <4>1, <4>2 DEF SearchInv
      <4>5. QED BY <2>1, <4>3, <4>4, TurnGoesOn
    <3>6. QED BY <3>4, <3>5
  <2>3. CASE ~(to - at > 1)
    <3>1. at + 1 = to
      BY <1>0, <2>1, <2>3
    <3>2. CASE Refuse
      BY <2>1, <3>2, TurnEnds DEF Refuse
    <3>3. CASE ~Refuse
      <4>1. at >= 0 /\ pc' = "move_cursor" /\ UNCHANGED at /\ UNCHANGED tip
        BY <1>3, <2>3, <3>3 DEF Probe, Goto, jobVars
      <4>2. /\ UNCHANGED best /\ UNCHANGED online /\ UNCHANGED cursor
        BY <2>1 DEF nodeVars
      <4>3. PassOfOneChain' /\ pc' \notin IndexStages
        BY <2>1, <4>1, <4>2
        DEF PassOfOneChain, NodeTip, IndexStages, MemoryUncut, DiffCursorUncut,
            EventsUncut, RoundsUncut, CommitmentsUncut, EpochsUncut, TxsUncut,
            BlocksUncut
      <4>4. ASSUME NEW h \in Heights, at < h, h < cursor.height
            PROVE  ancestor[cursor.hash][h] # ancestor[best][h]
        <5>1. to <= h /\ h \in Int
          BY <1>0, <3>1, <4>4
        <5>2. SUFFICES ASSUME ancestor[cursor.hash][h] = ancestor[best][h] PROVE FALSE
          OBVIOUS
        <5>3. CASE h <= heightOf[best]
          <6>1. /\ cursor.hash \in Blocks /\ h <= heightOf[cursor.hash]
            BY <1>0, <4>4, <5>1, CursorBlock
          <6>2. ancestor[cursor.hash][to] = ancestor[best][to]
            BY <1>0, <2>1, <5>1, <5>2, <5>3, <6>1, AgreeBelow
          <6>3. QED BY <2>1, <6>2
        <5>4. CASE h > heightOf[best]
          <6>1. cursor.hash \in Blocks /\ h <= heightOf[cursor.hash]
            BY <1>0, <4>4, <5>1, CursorBlock
          <6>2. ancestor[cursor.hash][h] \in Blocks
            BY <6>1, ChainBelow
          <6>3. ancestor[best][h] = None
            BY <1>0, <5>4, TreeAssumption
          <6>4. QED BY <5>2, <6>2, <6>3, TreeAssumption
        <5>5. QED BY <1>0, <5>1, <5>3, <5>4
      <4>5. SearchInv'
        BY <2>1, <4>1, <4>2, <4>4 DEF SearchInv
      <4>6. QED BY <2>1, <4>3, <4>5, TurnGoesOn
    <3>4. QED BY <3>2, <3>3
  <2>4. QED BY <2>2, <2>3
<1>4. QED BY <1>1, <1>2, <1>3 DEF ConfirmRewind

\* A stage of a rewind goes on to the next one, or ends, at its own height.
LEMMA RewindPlace ==
    ASSUME TurnInv, pc \in MemoryUncut, UNCHANGED <<cursor, nodeVars>>,
           \/ /\ UNCHANGED jobVars /\ pc' \in MemoryUncut \cup {"resume"}
           \/ pc' = "idle"
    PROVE  PassOfOneChain' /\ SearchInv'
<1>1. /\ pc # "idle" /\ PassOfOneChain
      /\ online /\ tip = NodeTip /\ at = cursor.height /\ cursor.hash = ancestor[best][at]
  BY DEF TurnInv, IndexInTurns, PassOfOneChain, MemoryUncut, DiffCursorUncut,
         EventsUncut, RoundsUncut, CommitmentsUncut, EpochsUncut, TxsUncut, BlocksUncut
<1>2. /\ pc' \notin IndexStages /\ pc' \notin {"walk", "move_cursor", "probe"}
      /\ pc' # "idle" => UNCHANGED <<at, tip>>
  BY DEF jobVars, IndexStages, MemoryUncut, DiffCursorUncut,
         EventsUncut, RoundsUncut, CommitmentsUncut, EpochsUncut, TxsUncut, BlocksUncut
<1>3. UNCHANGED best /\ UNCHANGED online /\ UNCHANGED cursor
  BY DEF nodeVars
<1>4. PassOfOneChain'
  <2>1. (pc # "idle" => online /\ tip = NodeTip)'
    BY <1>1, <1>2, <1>3 DEF NodeTip
  <2>2. (pc \in MemoryUncut \cup {"resume"} =>
           at = cursor.height /\ cursor.hash = ancestor[best][at])'
    <3>1. pc' \in MemoryUncut \cup {"resume"} => pc' # "idle"
      BY DEF MemoryUncut, DiffCursorUncut, EventsUncut, RoundsUncut,
             CommitmentsUncut, EpochsUncut, TxsUncut, BlocksUncut
    <3>2. QED BY <1>1, <1>2, <1>3, <3>1 DEF MemoryUncut
  <2>3. QED BY <1>2, <2>1, <2>2 DEF PassOfOneChain
<1>5. SearchInv'
  BY <1>2 DEF SearchInv
<1>6. QED BY <1>4, <1>5

\* What a rewind cuts it cuts above the block the cursor now names.
LEMMA RewindInTurns == ASSUME TurnInv, Rewind PROVE IndexInTurns'
<1> USE HeightsAreIntegers
<1>0. /\ best \in Blocks /\ heightOf[best] \in Int /\ heightOf[best] \in Heights
      /\ cursor.height \in Int /\ at \in Int
      /\ NodeTip = heightOf[best] /\ IndexMatches /\ PassOfOneChain /\ SearchInv
      /\ txRows \in [Txs -> BlockOrNone] /\ epochRows \in [Boundaries -> BlockOrNone]
      /\ commitmentRows \in [Quorums -> BlockOrNone]
      /\ nextRows \in [Heights -> BlockOrNone] /\ blockRows \in [Heights -> BlockOrNone]
  BY TurnTypes DEF TurnInv, NodeTip, IndexInTurns
<1> DEFINE n == cursor.height
           c == cursor.hash
<1>m. pc \in RewindStages \ {"move_cursor"} =>
        /\ pc \in MemoryUncut /\ at = n /\ n >= 0
        /\ n \in Heights /\ c \in Blocks /\ heightOf[c] = n
  BY <1>0, CursorBlock
  DEF TurnInv, IInv, TypeOK, PassInv, RewindStages, MemoryUncut, DiffCursorUncut, EventsUncut,
      RoundsUncut, CommitmentsUncut, EpochsUncut, TxsUncut, BlocksUncut
<1>f. pc \notin IndexStages =>
        /\ CursorNamesBlock
        /\ BlocksMatch(c, n) /\ (pc \notin BlocksUncut => BlocksEnd(n))
        /\ LinksMatch(c, n)
        /\ Matches(txRows, txsIn, Txs, c, n) /\ (pc \notin TxsUncut => Ends(txRows, Txs, n))
        /\ EpochsPlaced /\ EpochsMatch(c, n) /\ (pc \notin EpochsUncut => EpochsEnd(n))
        /\ Matches(commitmentRows, quorumsIn, Quorums, c, n)
        /\ (pc \notin CommitmentsUncut => Ends(commitmentRows, Quorums, n))
  BY <1>0 DEF IndexMatches, Chain, UpTo
<1>g. pc \notin IndexStages => BlocksMatch(c, n) /\ EpochsMatch(c, n) /\ LinksMatch(c, n)
  BY <1>f
\* The same of the stage it goes on to, which is no stage of a batch either.
<1>t. ASSUME pc' \notin IndexStages, CursorNamesBlock', UNCHANGED cursor,
             (\A h \in Heights : h <= n => blockRows'[h] = ancestor[c][h]),
             pc' \notin BlocksUncut => (\A h \in Heights : h > n => blockRows'[h] = None),
             (\A h \in Heights : h < n => nextRows'[h] = ancestor[c][h + 1]),
             Matches(txRows', txsIn, Txs, c, n), pc' \notin TxsUncut => Ends(txRows', Txs, n),
             (\A h \in Boundaries : epochRows'[h] # None => heightOf[epochRows'[h]] = h),
             (\A h \in Boundaries : h <= n => epochRows'[h] = ancestor[c][h]),
             pc' \notin EpochsUncut => (\A h \in Boundaries : h > n => epochRows'[h] = None),
             Matches(commitmentRows', quorumsIn, Quorums, c, n),
             pc' \notin CommitmentsUncut => Ends(commitmentRows', Quorums, n)
      PROVE  IndexMatches'
  BY <1>t
  DEF IndexMatches, Chain, UpTo, BlocksMatch, BlocksEnd, LinksMatch,
      EpochsPlaced, EpochsMatch, EpochsEnd, Matches, Ends
<1> USE DEF BlocksMatch, BlocksEnd, LinksMatch, EpochsPlaced, EpochsMatch, EpochsEnd
<1> HIDE DEF n, c
<1>n. n = cursor.height /\ c = cursor.hash
  BY DEF n, c
<1>1. CASE MoveCursor
  <2>1. /\ pc = "move_cursor" /\ pc' = "drop_blocks"
        /\ cursor' = [height |-> at, hash |-> NodeHash(at)]
        /\ UNCHANGED <<at, tip, nodeVars, indexRows>>
        /\ pc' \notin IndexStages /\ pc \notin IndexStages
        /\ pc \notin CommitmentsUncut /\ pc \notin EpochsUncut /\ pc \notin TxsUncut
        /\ pc \notin BlocksUncut
    BY <1>1
    DEF MoveCursor, Goto, jobVars, IndexStages, CommitmentsUncut, EpochsUncut, TxsUncut, BlocksUncut
  <2>2. /\ at \in Heights /\ at <= n /\ n \in Heights
        /\ online /\ tip = NodeTip /\ NodeHash(at) = ancestor[best][at]
        /\ ancestor[c][at] = ancestor[best][at]
        /\ c \in Blocks /\ heightOf[c] = n
    BY <1>0, <1>n, <2>1, CursorBlock
    DEF TurnInv, IInv, PassInv, PassOfOneChain, SearchInv, NodeHash
  <2>3. /\ ancestor[c][at] \in Blocks /\ heightOf[ancestor[c][at]] = at
        /\ \A h \in Heights : h <= at => ancestor[ancestor[c][at]][h] = ancestor[c][h]
    BY <2>2, ChainBelow
  <2> DEFINE d == ancestor[c][at]
  <2>4. /\ Matches(txRows, txsIn, Txs, d, at)
        /\ Matches(commitmentRows, quorumsIn, Quorums, d, at)
    BY <1>0, <1>f, <2>1, <2>2, <2>3, MatchesShorter, <1>n
  <2>5. /\ \A h \in Heights : h <= at => blockRows[h] = ancestor[d][h]
        /\ \A h \in Boundaries : h <= at => epochRows[h] = ancestor[d][h]
        /\ \A h \in Heights : h < at => nextRows[h] = ancestor[d][h + 1]
    <3>0. /\ \A h \in Heights : h <= n => blockRows[h] = ancestor[c][h]
          /\ \A h \in Boundaries : h <= n => epochRows[h] = ancestor[c][h]
          /\ \A h \in Heights : h < n => nextRows[h] = ancestor[c][h + 1]
          /\ \A h \in Heights : h <= at => h <= n
          /\ Boundaries \subseteq Heights
      <4>1. /\ \A h \in Heights : h <= n => blockRows[h] = ancestor[c][h]
            /\ \A h \in Boundaries : h <= n => epochRows[h] = ancestor[c][h]
            /\ \A h \in Heights : h < n => nextRows[h] = ancestor[c][h + 1]
        BY <1>g, <2>1
      <4>2. \A h \in Heights : h <= at => h <= n
        <5>1. at \in Int /\ n \in Int /\ at <= n
          BY <1>0, <1>n, <2>2
        <5>2. QED BY <5>1, HeightsAreIntegers
      <4>3. Boundaries \subseteq Heights
        BY ContentAssumption
      <4>4. QED BY <4>1, <4>2, <4>3
    <3>1. \A h \in Heights : h <= at => blockRows[h] = ancestor[d][h]
      BY <2>3, <3>0
    <3>2. \A h \in Boundaries : h <= at => epochRows[h] = ancestor[d][h]
      BY <2>3, <3>0
    <3>3. ASSUME NEW h \in Heights, h < at PROVE nextRows[h] = ancestor[d][h + 1]
      <4>1. h + 1 \in Heights /\ h + 1 <= at /\ h < n
        BY <1>0, <1>n, <2>2, <3>3
      <4>2. QED BY <2>3, <3>0, <4>1
    <3>4. QED BY <3>1, <3>2, <3>3
  <2> HIDE DEF d
  <2>6. /\ cursor'.height = at /\ cursor'.hash = d /\ d \in Blocks /\ heightOf[d] = at /\ at # -1
    BY <2>1, <2>2, <2>3 DEF d
  <2>7. CursorNamesBlock'
    BY <2>6 DEF CursorNamesBlock
  <2>8. IndexMatches'
    <3>1. Chain' = d /\ (\A W : (IF pc \in IndexStages THEN IF pc \in W THEN at ELSE at - 1
                                 ELSE cursor.height)' = at)
      BY <2>1, <2>6 DEF Chain
    <3>2. /\ pc' \in BlocksUncut /\ pc' \in TxsUncut /\ pc' \in EpochsUncut
          /\ pc' \in CommitmentsUncut
      BY <2>1 DEF CommitmentsUncut, EpochsUncut, TxsUncut, BlocksUncut
    <3>3. /\ UNCHANGED blockRows /\ UNCHANGED nextRows
          /\ UNCHANGED txRows /\ UNCHANGED epochRows /\ UNCHANGED commitmentRows
      BY <2>1 DEF indexRows
    <3>4. /\ UpTo(BlockWritten)' = at /\ UpTo(LinkWritten)' = at
          /\ UpTo(TxsWritten)' = at /\ UpTo(EpochWritten)' = at
          /\ UpTo(CommitmentsWritten)' = at
      BY <2>1, <2>6 DEF UpTo
    <3>5. EpochsPlaced
      BY <1>f, <2>1
    <3>6. QED
      BY <2>4, <2>5, <2>7, <3>1, <3>2, <3>3, <3>4, <3>5 DEF IndexMatches, Matches, Ends
  <2>9. PassOfOneChain' /\ SearchInv'
    <3>1. pc' = "drop_blocks" /\ UNCHANGED best /\ UNCHANGED online /\ UNCHANGED at /\ tip' = NodeTip
      BY <2>1, <2>2 DEF nodeVars
    <3>2. cursor'.hash = ancestor[best][at]
      BY <2>1, <2>2
    <3>3. QED
      BY <2>2, <2>6, <3>1, <3>2
      DEF PassOfOneChain, SearchInv, NodeTip, IndexStages, MemoryUncut, DiffCursorUncut,
          EventsUncut, RoundsUncut, CommitmentsUncut, EpochsUncut, TxsUncut, BlocksUncut
  <2>10. QED BY <2>8, <2>9 DEF IndexInTurns
<1>2. CASE DropBlocks
  <2>1. /\ pc = "drop_blocks" /\ pc' = "drop_txs" /\ UNCHANGED <<cursor, nodeVars>>
        /\ UNCHANGED jobVars
        /\ UNCHANGED txRows /\ UNCHANGED epochRows /\ UNCHANGED commitmentRows
        /\ blockRows' = [h \in Heights |-> IF h > at THEN None ELSE blockRows[h]]
        /\ nextRows' = [h \in Heights |-> IF h > at THEN None ELSE nextRows[h]]
        /\ pc \in RewindStages \ {"move_cursor"} /\ pc \notin IndexStages
        /\ pc' \notin IndexStages /\ pc' \in MemoryUncut
        /\ pc' \in TxsUncut /\ pc' \in EpochsUncut /\ pc' \in CommitmentsUncut
    BY <1>2
    DEF DropBlocks, Goto, RewindStages, IndexStages, MemoryUncut, DiffCursorUncut,
        EventsUncut, RoundsUncut, CommitmentsUncut, EpochsUncut, TxsUncut, BlocksUncut
  <2>2. /\ \A h \in Heights : h <= n => blockRows'[h] = ancestor[c][h]
        /\ \A h \in Heights : h > n => blockRows'[h] = None
        /\ \A h \in Heights : h < n => nextRows'[h] = ancestor[c][h + 1]
    BY <1>0, <1>m, <1>f, <1>n, <2>1
  <2>3. IndexMatches'
    BY <1>f, <1>t, <2>1, <2>2 DEF CursorNamesBlock
  <2>4. QED BY <1>m, <2>1, <2>3, RewindPlace DEF IndexInTurns
<1>3. CASE DropTransactions
  <2>1. /\ pc = "drop_txs" /\ pc' = "drop_epochs" /\ UNCHANGED <<cursor, nodeVars>>
        /\ UNCHANGED jobVars
        /\ UNCHANGED blockRows /\ UNCHANGED nextRows /\ UNCHANGED epochRows
        /\ UNCHANGED commitmentRows
        /\ txRows' = [t \in Txs |-> CutAbove(txRows[t], at)]
        /\ pc \in RewindStages \ {"move_cursor"} /\ pc \notin IndexStages
        /\ pc \notin BlocksUncut /\ pc' \notin IndexStages /\ pc' \in MemoryUncut
        /\ pc' \in EpochsUncut /\ pc' \in CommitmentsUncut
    BY <1>3
    DEF DropTransactions, Goto, RewindStages, IndexStages, MemoryUncut, DiffCursorUncut,
        EventsUncut, RoundsUncut, CommitmentsUncut, EpochsUncut, TxsUncut, BlocksUncut
  <2>2. Matches(txRows', txsIn, Txs, c, n) /\ Ends(txRows', Txs, n)
    BY <1>0, <1>m, <1>f, <1>n, <2>1, MatchesCut
  <2>3. IndexMatches'
    BY <1>f, <1>t, <2>1, <2>2 DEF CursorNamesBlock
  <2>4. QED BY <1>m, <2>1, <2>3, RewindPlace DEF IndexInTurns
<1>4. CASE DropEpochs
  <2>1. /\ pc = "drop_epochs" /\ pc' = "drop_commitments" /\ UNCHANGED <<cursor, nodeVars>>
        /\ UNCHANGED jobVars
        /\ UNCHANGED blockRows /\ UNCHANGED nextRows /\ UNCHANGED txRows
        /\ UNCHANGED commitmentRows
        /\ epochRows' = [h \in Boundaries |-> CutAbove(epochRows[h], at)]
        /\ pc \in RewindStages \ {"move_cursor"} /\ pc \notin IndexStages
        /\ pc \notin BlocksUncut /\ pc \notin TxsUncut
        /\ pc' \notin IndexStages /\ pc' \in MemoryUncut /\ pc' \in CommitmentsUncut
    BY <1>4
    DEF DropEpochs, Goto, RewindStages, IndexStages, MemoryUncut, DiffCursorUncut,
        EventsUncut, RoundsUncut, CommitmentsUncut, EpochsUncut, TxsUncut, BlocksUncut
  <2>2. \A h \in Boundaries :
          /\ h \in Int
          /\ epochRows'[h] = IF epochRows[h] # None /\ heightOf[epochRows[h]] > n
                             THEN None ELSE epochRows[h]
          /\ epochRows[h] # None => heightOf[epochRows[h]] = h
          /\ h <= n => epochRows[h] = ancestor[c][h]
    BY <1>m, <1>f, <1>n, <2>1, ContentAssumption DEF CutAbove
  <2>3. /\ \A h \in Boundaries : epochRows'[h] # None => heightOf[epochRows'[h]] = h
        /\ \A h \in Boundaries : h <= n => epochRows'[h] = ancestor[c][h]
        /\ \A h \in Boundaries : h > n => epochRows'[h] = None
    BY <1>0, <1>n, <2>2
  <2>4. IndexMatches'
    BY <1>f, <1>t, <2>1, <2>3 DEF CursorNamesBlock
  <2>5. QED BY <1>m, <2>1, <2>4, RewindPlace DEF IndexInTurns
<1>5. CASE DropCommitments
  <2>1. /\ pc = "drop_commitments" /\ pc' = "reset_rounds" /\ UNCHANGED <<cursor, nodeVars>>
        /\ UNCHANGED jobVars
        /\ UNCHANGED blockRows /\ UNCHANGED nextRows /\ UNCHANGED txRows
        /\ UNCHANGED epochRows
        /\ commitmentRows' = [q \in Quorums |-> CutAbove(commitmentRows[q], at)]
        /\ pc \in RewindStages \ {"move_cursor"} /\ pc \notin IndexStages
        /\ pc \notin BlocksUncut /\ pc \notin TxsUncut /\ pc \notin EpochsUncut
        /\ pc' \notin IndexStages /\ pc' \in MemoryUncut
    BY <1>5
    DEF DropCommitments, Goto, RewindStages, IndexStages, MemoryUncut, DiffCursorUncut,
        EventsUncut, RoundsUncut, CommitmentsUncut, EpochsUncut, TxsUncut, BlocksUncut
  <2>2. Matches(commitmentRows', quorumsIn, Quorums, c, n) /\ Ends(commitmentRows', Quorums, n)
    BY <1>0, <1>m, <1>f, <1>n, <2>1, MatchesCut
  <2>3. IndexMatches'
    BY <1>f, <1>t, <2>1, <2>2 DEF CursorNamesBlock
  <2>4. QED BY <1>m, <2>1, <2>3, RewindPlace DEF IndexInTurns
<1>6. CASE ClearSuccessor
  <2>1. /\ pc = "clear_successor" /\ pc' = "drop_events" /\ UNCHANGED <<cursor, nodeVars>>
        /\ UNCHANGED jobVars
        /\ UNCHANGED blockRows /\ UNCHANGED txRows /\ UNCHANGED epochRows
        /\ UNCHANGED commitmentRows
        /\ nextRows' = [nextRows EXCEPT ![at] = None]
        /\ pc \in RewindStages \ {"move_cursor"} /\ pc \notin IndexStages
        /\ pc \notin BlocksUncut /\ pc \notin TxsUncut /\ pc \notin EpochsUncut
        /\ pc \notin CommitmentsUncut
        /\ pc' \notin IndexStages /\ pc' \in MemoryUncut
    BY <1>6
    DEF ClearSuccessor, Goto, RewindStages, IndexStages, MemoryUncut, DiffCursorUncut,
        EventsUncut, RoundsUncut, CommitmentsUncut, EpochsUncut, TxsUncut, BlocksUncut
  <2>2. \A h \in Heights : h < n => nextRows'[h] = ancestor[c][h + 1]
    BY <1>0, <1>m, <1>f, <1>n, <2>1
  <2>3. IndexMatches'
    BY <1>f, <1>t, <2>1, <2>2 DEF CursorNamesBlock
  <2>4. QED BY <1>m, <2>1, <2>3, RewindPlace DEF IndexInTurns
<1>7. CASE ResetRounds \/ DropEvents \/ LowerDiffCursor \/ ResetWalker
  <2>1. /\ UNCHANGED nodeVars /\ UNCHANGED <<cursor, indexRows>>
        /\ \/ /\ UNCHANGED jobVars /\ pc' \in MemoryUncut \cup {"resume"}
           \/ pc' = "idle"
        /\ pc \in RewindStages \ {"move_cursor"}
        /\ pc \notin IndexStages \cup CommitmentsUncut /\ pc' \notin IndexStages
    BY <1>7
    DEF ResetRounds, DropEvents, LowerDiffCursor, ResetWalker, Goto, Forget, RewindStages,
        IndexStages, MemoryUncut, DiffCursorUncut, EventsUncut, RoundsUncut,
        CommitmentsUncut, EpochsUncut, TxsUncut, BlocksUncut
  <2>2. PassOfOneChain' /\ SearchInv'
    BY <1>m, <2>1, RewindPlace
  <2>3. QED BY <2>1, <2>2, TurnGoesOn
<1>8. QED BY <1>1, <1>2, <1>3, <1>4, <1>5, <1>6, <1>7 DEF Rewind

\* A batch is between the cursor and the node's tip, which is on one chain with
\* the cursor and answers.
LEMMA BatchStands ==
    ASSUME TurnInv, pc \in IndexStages
    PROVE  /\ best \in Blocks /\ heightOf[best] \in Heights /\ heightOf[best] \in Int
           /\ online /\ tip = heightOf[best] /\ NodeTip = heightOf[best]
           /\ at \in Heights /\ at \in Int /\ to \in Int /\ at <= to /\ to <= tip
           /\ at <= heightOf[best]
           /\ ancestor[best][at] \in Blocks /\ heightOf[ancestor[best][at]] = at
           /\ NodeHash(at) = ancestor[best][at] /\ NodeHash(at) # None
           /\ pc # "progress" =>
                expected \in {None, IF at = 0 THEN None ELSE ancestor[best][at - 1]}
           /\ pc = "progress" => expected = ancestor[best][at]
           /\ pc \notin {"fetch", "progress"} => blk = ancestor[best][at]
           /\ cursor.height < at
<1>1. /\ best \in Blocks /\ heightOf[best] \in Heights /\ heightOf[best] \in Int
      /\ at \in Int /\ to \in Int
  BY TurnTypes DEF TurnInv
<1>2. /\ pc # "idle" /\ at \in Heights /\ at <= to /\ cursor.height < at
  BY DEF TurnInv, IInv, TypeOK, PassInv, IndexStages
<1>3. /\ online /\ tip = heightOf[best] /\ to <= tip
      /\ pc # "progress" =>
                expected \in {None, IF at = 0 THEN None ELSE ancestor[best][at - 1]}
      /\ pc = "progress" => expected = ancestor[best][at]
      /\ pc \notin {"fetch", "progress"} => blk = ancestor[best][at]
  BY <1>2 DEF TurnInv, IndexInTurns, PassOfOneChain, NodeTip
<1>4. at <= heightOf[best]
  BY <1>1, <1>2, <1>3
<1>5. ancestor[best][at] \in Blocks /\ heightOf[ancestor[best][at]] = at
  BY <1>1, <1>2, <1>4, ChainBelow
<1>6. NodeHash(at) = ancestor[best][at] /\ NodeHash(at) # None /\ NodeTip = heightOf[best]
  BY <1>3, <1>5, TreeAssumption DEF NodeHash, NodeTip
<1>7. QED BY <1>1, <1>2, <1>3, <1>4, <1>5, <1>6

\* The next stage for the same height.
LEMMA BatchPlace ==
    ASSUME TurnInv, pc \in IndexStages \ {"progress"}, UNCHANGED nodeVars,
           UNCHANGED <<cursor, at, to, tip, expected>>,
           pc' \in IndexStages \ {"fetch", "progress"}, blk' = ancestor[best][at]
    PROVE  PassOfOneChain' /\ SearchInv'
<1>1. /\ UNCHANGED best /\ UNCHANGED online /\ UNCHANGED cursor /\ UNCHANGED at
      /\ UNCHANGED to /\ UNCHANGED tip /\ UNCHANGED expected
      /\ pc # "idle" /\ PassOfOneChain
      /\ pc' \notin MemoryUncut \cup {"resume"}
      /\ pc' \notin {"idle", "walk", "move_cursor", "probe"}
  BY DEF nodeVars, TurnInv, IndexInTurns, IndexStages, MemoryUncut, DiffCursorUncut,
         EventsUncut, RoundsUncut, CommitmentsUncut, EpochsUncut, TxsUncut, BlocksUncut
<1>2. PassOfOneChain'
  BY <1>1 DEF PassOfOneChain, NodeTip
<1>3. SearchInv'
  BY <1>1 DEF SearchInv
<1>4. QED BY <1>2, <1>3

\* What the collections hold at a stage of a batch, and how far they
\* are to be at the next one.
LEMMA BatchHolds ==
    ASSUME TurnInv, pc \in IndexStages
    PROVE  LET up(written) == IF pc \in written THEN at ELSE at - 1
           IN /\ CursorNamesBlock
              /\ BlocksMatch(best, up(BlockWritten)) /\ BlocksEnd(up(BlockWritten))
              /\ LinksMatch(best, up(LinkWritten))
              /\ Matches(txRows, txsIn, Txs, best, up(TxsWritten))
              /\ Ends(txRows, Txs, up(TxsWritten))
              /\ EpochsPlaced
              /\ EpochsMatch(best, up(EpochWritten)) /\ EpochsEnd(up(EpochWritten))
              /\ Matches(commitmentRows, quorumsIn, Quorums, best, up(CommitmentsWritten))
              /\ Ends(commitmentRows, Quorums, up(CommitmentsWritten))
BY DEF TurnInv, IndexInTurns, IndexMatches, Chain, UpTo, IndexStages, CommitmentsUncut,
       EpochsUncut, TxsUncut, BlocksUncut

\* How far the collections are to be at the next stage.
LEMMA BatchNext ==
    ASSUME pc' \in IndexStages, UNCHANGED best, UNCHANGED cursor, CursorNamesBlock
    PROVE  /\ CursorNamesBlock' /\ Chain' = best
           /\ \A W \in {BlockWritten, LinkWritten, TxsWritten, EpochWritten, CommitmentsWritten} :
                UpTo(W)' = IF pc' \in W THEN at' ELSE at' - 1
           /\ pc' \notin BlocksUncut /\ pc' \notin TxsUncut /\ pc' \notin EpochsUncut
           /\ pc' \notin CommitmentsUncut
BY DEF CursorNamesBlock, Chain, UpTo, IndexStages, CommitmentsUncut, EpochsUncut, TxsUncut, BlocksUncut

\* The stages up to the block's own row.
LEMMA BatchInTurns ==
    ASSUME TurnInv, \/ FetchHash \/ FetchBlock \/ WriteCommitments \/ WriteEpoch
                    \/ WriteTransactions \/ UpsertBlock
    PROVE  IndexInTurns'
<1> USE HeightsAreIntegers
<1> USE DEF BlocksMatch, BlocksEnd, LinksMatch, EpochsPlaced, EpochsMatch, EpochsEnd
<1>0. /\ txRows \in [Txs -> BlockOrNone] /\ epochRows \in [Boundaries -> BlockOrNone]
      /\ commitmentRows \in [Quorums -> BlockOrNone]
      /\ nextRows \in [Heights -> BlockOrNone] /\ blockRows \in [Heights -> BlockOrNone]
  BY TurnTypes DEF TurnInv
<1>s. pc \in IndexStages \ {"progress"}
  BY DEF FetchHash, FetchBlock, WriteCommitments, WriteEpoch, WriteTransactions, UpsertBlock,
         IndexStages
<1>1. CASE FetchHash \/ FetchBlock
  <2>1. /\ pc \in {"fetch", "getblock"} /\ pc' \in {"getblock", "commitments"}
        /\ blk' = ancestor[best][at]
        /\ UNCHANGED <<cursor, indexRows, tip, at, to, expected>> /\ UNCHANGED nodeVars
    BY <1>1, <1>s, BatchStands DEF FetchHash, FetchBlock, IndexStages
  <2>2. PassOfOneChain' /\ SearchInv'
    BY <1>s, <2>1, BatchPlace DEF IndexStages
  <2>3. UNCHANGED <<best, blockRows, nextRows, txRows, epochRows, commitmentRows>>
    BY <2>1 DEF nodeVars, indexRows
  <2>4. /\ pc' \in IndexStages /\ pc' \notin CommitmentsWritten /\ pc \notin CommitmentsWritten
        /\ pc' \notin EpochWritten /\ pc \notin EpochWritten
        /\ pc' \notin TxsWritten /\ pc \notin TxsWritten
        /\ pc' \notin BlockWritten /\ pc \notin BlockWritten
        /\ pc' \notin LinkWritten /\ pc \notin LinkWritten
    BY <2>1 DEF IndexStages, LinkWritten, BlockWritten, TxsWritten, EpochWritten, CommitmentsWritten
  <2>5. IndexMatches'
    <3> DEFINE n == at - 1
    <3>1. BlocksMatch(best, n) /\ BlocksEnd(n) /\ LinksMatch(best, n)
          /\ Matches(txRows, txsIn, Txs, best, n) /\ Ends(txRows, Txs, n)
          /\ EpochsPlaced /\ EpochsMatch(best, n) /\ EpochsEnd(n)
          /\ Matches(commitmentRows, quorumsIn, Quorums, best, n)
          /\ Ends(commitmentRows, Quorums, n) /\ CursorNamesBlock
      BY <1>s, <2>4, BatchHolds
    <3>2. n = at' - 1
      BY <2>1
    <3> HIDE DEF n
    <3>3. /\ UpTo(BlockWritten)' = n /\ UpTo(LinkWritten)' = n /\ UpTo(TxsWritten)' = n
          /\ UpTo(EpochWritten)' = n /\ UpTo(CommitmentsWritten)' = n
          /\ Chain' = best /\ CursorNamesBlock'
      BY <2>1, <2>3, <2>4, <3>1, <3>2, BatchNext
    <3>4. QED BY <2>3, <3>1, <3>3 DEF IndexMatches, Matches, Ends
  <2>6. QED BY <2>2, <2>5 DEF IndexInTurns
<1>2. CASE WriteCommitments
  <2>1. /\ pc = "commitments" /\ pc' = "epoch" /\ UNCHANGED jobVars /\ UNCHANGED nodeVars
        /\ UNCHANGED <<cursor, blockRows, nextRows, txRows, epochRows>>
        /\ commitmentRows' =
             [q \in Quorums |-> IF q \in quorumsIn[blk] /\ commitmentRows[q] = None
                                THEN blk ELSE commitmentRows[q]]
    BY <1>2 DEF WriteCommitments, Goto
  <2>2. /\ blk = ancestor[best][at] /\ UNCHANGED blk /\ at \in Heights /\ at \in Int
        /\ best \in Blocks /\ at <= heightOf[best]
        /\ blk \in Blocks /\ heightOf[blk] = at /\ UNCHANGED at
    BY <1>s, <2>1, BatchStands DEF jobVars
  <2>3. PassOfOneChain' /\ SearchInv'
    BY <1>s, <2>1, <2>2, BatchPlace DEF IndexStages, jobVars
  <2>4. UNCHANGED <<best, blockRows, nextRows, txRows, epochRows>>
    BY <2>1 DEF nodeVars
  <2>5. /\ pc' \in IndexStages /\ pc' \in CommitmentsWritten /\ pc \notin CommitmentsWritten
        /\ pc' \notin EpochWritten /\ pc \notin EpochWritten
        /\ pc' \notin TxsWritten /\ pc \notin TxsWritten
        /\ pc' \notin BlockWritten /\ pc \notin BlockWritten
        /\ pc' \notin LinkWritten /\ pc \notin LinkWritten
    BY <2>1 DEF IndexStages, LinkWritten, BlockWritten, TxsWritten, EpochWritten, CommitmentsWritten
  <2> DEFINE n == at - 1
  <2>6. BlocksMatch(best, n) /\ BlocksEnd(n) /\ LinksMatch(best, n)
        /\ Matches(txRows, txsIn, Txs, best, n) /\ Ends(txRows, Txs, n)
        /\ EpochsPlaced /\ EpochsMatch(best, n) /\ EpochsEnd(n)
        /\ Matches(commitmentRows, quorumsIn, Quorums, best, at - 1)
        /\ Ends(commitmentRows, Quorums, at - 1) /\ CursorNamesBlock
    BY <1>s, <2>5, BatchHolds
  <2>7. Matches(commitmentRows', quorumsIn, Quorums, best, at)
        /\ Ends(commitmentRows', Quorums, at)
    <3>1. \A q \in quorumsIn[blk] : commitmentRows[q] = None
      <4> TAKE q \in quorumsIn[blk]
      <4>1. q \in Quorums /\ quorumsIn[blk] \subseteq Quorums
        BY <2>2, ContentAssumption
      <4>2. SUFFICES ASSUME commitmentRows[q] # None PROVE FALSE
        OBVIOUS
      <4>3. heightOf[commitmentRows[q]] \in Int /\ heightOf[commitmentRows[q]] <= at - 1
            /\ heightOf[commitmentRows[q]] \in Heights
        BY <1>0, <2>6, <4>1, <4>2, TreeAssumption DEF Ends, BlockOrNone
      <4>4. /\ commitmentRows[q] = ancestor[best][heightOf[commitmentRows[q]]]
            /\ q \in quorumsIn[commitmentRows[q]]
        BY <2>6, <4>1, <4>2, <4>3 DEF Matches
      <4>5. /\ heightOf[commitmentRows[q]] \in 0..heightOf[best] /\ at \in 0..heightOf[best]
            /\ heightOf[commitmentRows[q]] # at
        BY <2>2, <4>3, TreeAssumption
      <4>6. quorumsIn[commitmentRows[q]] \cap quorumsIn[blk] = {}
        BY <2>2, <4>4, <4>5, ConsensusAssumption
      <4>7. QED BY <4>4, <4>6
    <3>2. \A q \in Quorums :
            commitmentRows'[q] = IF q \in quorumsIn[ancestor[best][at]]
                                 THEN ancestor[best][at] ELSE commitmentRows[q]
      BY <2>1, <2>2, <3>1
    <3>3. commitmentRows' \in [Quorums -> BlockOrNone]
      BY <1>0, <2>1, <2>2 DEF BlockOrNone
    <3>4. \A h, k \in 0..heightOf[best] :
            h # k => quorumsIn[ancestor[best][h]] \cap quorumsIn[ancestor[best][k]] = {}
      BY <2>2, ConsensusAssumption
    <3>5. /\ quorumsIn \in [Blocks -> SUBSET Quorums]
          /\ commitmentRows \in [Quorums -> BlockOrNone]
          /\ Matches(commitmentRows, quorumsIn, Quorums, best, at - 1)
          /\ Ends(commitmentRows, Quorums, at - 1)
          /\ best \in Blocks /\ at \in Heights /\ at <= heightOf[best]
      BY <1>0, <2>2, <2>6, ContentAssumption
    <3>6. QED BY ONLY <3>2, <3>3, <3>4, <3>5, MatchesExtend
  <2>8. n = at' - 1 /\ at' = at
    BY <2>2
  <2> HIDE DEF n
  <2>9. /\ UpTo(BlockWritten)' = n /\ UpTo(LinkWritten)' = n /\ UpTo(TxsWritten)' = n
        /\ UpTo(EpochWritten)' = n /\ UpTo(CommitmentsWritten)' = at
        /\ Chain' = best /\ CursorNamesBlock'
    BY <2>1, <2>4, <2>5, <2>6, <2>8, BatchNext
  <2>10. IndexMatches'
    BY <2>4, <2>6, <2>7, <2>9 DEF IndexMatches, Matches, Ends
  <2>11. QED BY <2>3, <2>10 DEF IndexInTurns
<1>3. CASE WriteEpoch
  <2>1. /\ pc = "epoch" /\ pc' = "txs" /\ UNCHANGED jobVars /\ UNCHANGED nodeVars
        /\ UNCHANGED <<cursor, blockRows, nextRows, txRows, commitmentRows>>
        /\ epochRows' = [h \in Boundaries |-> IF h = at /\ epochRows[h] = None
                                              THEN blk ELSE epochRows[h]]
    BY <1>3 DEF WriteEpoch, Goto
  <2>2. /\ blk = ancestor[best][at] /\ UNCHANGED blk /\ at \in Heights /\ at \in Int
        /\ blk \in Blocks /\ heightOf[blk] = at /\ UNCHANGED at
    BY <1>s, <2>1, BatchStands DEF jobVars
  <2>3. PassOfOneChain' /\ SearchInv'
    BY <1>s, <2>1, <2>2, BatchPlace DEF IndexStages, jobVars
  <2>4. UNCHANGED <<best, blockRows, nextRows, txRows, commitmentRows>>
    BY <2>1 DEF nodeVars
  <2>5. /\ pc' \in IndexStages /\ pc' \in CommitmentsWritten /\ pc \in CommitmentsWritten
        /\ pc' \in EpochWritten /\ pc \notin EpochWritten
        /\ pc' \notin TxsWritten /\ pc \notin TxsWritten
        /\ pc' \notin BlockWritten /\ pc \notin BlockWritten
        /\ pc' \notin LinkWritten /\ pc \notin LinkWritten
    BY <2>1 DEF IndexStages, LinkWritten, BlockWritten, TxsWritten, EpochWritten, CommitmentsWritten
  <2> DEFINE n == at - 1
  <2>6. BlocksMatch(best, n) /\ BlocksEnd(n) /\ LinksMatch(best, n)
        /\ Matches(txRows, txsIn, Txs, best, n) /\ Ends(txRows, Txs, n)
        /\ EpochsPlaced /\ EpochsMatch(best, at - 1) /\ EpochsEnd(at - 1)
        /\ Matches(commitmentRows, quorumsIn, Quorums, best, at)
        /\ Ends(commitmentRows, Quorums, at) /\ CursorNamesBlock
    BY <1>s, <2>5, BatchHolds
  <2>7. \A h \in Boundaries : /\ epochRows'[h] # None => heightOf[epochRows'[h]] = h
                              /\ h <= at => epochRows'[h] = ancestor[best][h]
                              /\ h > at => epochRows'[h] = None
    <3> TAKE h \in Boundaries
    <3>1. h \in Int
      BY ContentAssumption
    <3>2. CASE h = at
      <4>1. epochRows[h] = None
        BY <2>2, <2>6, <3>1, <3>2
      <4>2. QED BY <2>1, <2>2, <3>2, <4>1
    <3>3. CASE h # at
      <4>1. epochRows'[h] = epochRows[h]
        BY <2>1, <3>3
      <4>2. (h <= at <=> h <= at - 1) /\ (h > at => h > at - 1)
        BY <2>2, <3>1, <3>3
      <4>3. QED BY <2>6, <4>1, <4>2
    <3>4. QED BY <3>2, <3>3
  <2>8. n = at' - 1 /\ at' = at
    BY <2>2
  <2> HIDE DEF n
  <2>9. /\ UpTo(BlockWritten)' = n /\ UpTo(LinkWritten)' = n /\ UpTo(TxsWritten)' = n
        /\ UpTo(EpochWritten)' = at /\ UpTo(CommitmentsWritten)' = at
        /\ Chain' = best /\ CursorNamesBlock'
    BY <2>1, <2>4, <2>5, <2>6, <2>8, BatchNext
  <2>10. IndexMatches'
    BY <2>4, <2>6, <2>7, <2>9 DEF IndexMatches, Matches, Ends
  <2>11. QED BY <2>3, <2>10 DEF IndexInTurns
<1>4. CASE WriteTransactions
  <2>1. /\ pc = "txs" /\ pc' = "upsert" /\ UNCHANGED jobVars /\ UNCHANGED nodeVars
        /\ UNCHANGED <<cursor, blockRows, nextRows, epochRows, commitmentRows>>
        /\ txRows' = [t \in Txs |-> IF t \in txsIn[blk] THEN blk ELSE txRows[t]]
    BY <1>4 DEF WriteTransactions, Goto
  <2>2. /\ blk = ancestor[best][at] /\ UNCHANGED blk /\ at \in Heights /\ at \in Int
        /\ best \in Blocks /\ at <= heightOf[best]
        /\ blk \in Blocks /\ heightOf[blk] = at /\ UNCHANGED at
    BY <1>s, <2>1, BatchStands DEF jobVars
  <2>3. PassOfOneChain' /\ SearchInv'
    BY <1>s, <2>1, <2>2, BatchPlace DEF IndexStages, jobVars
  <2>4. UNCHANGED <<best, blockRows, nextRows, epochRows, commitmentRows>>
    BY <2>1 DEF nodeVars
  <2>5. /\ pc' \in IndexStages /\ pc' \in CommitmentsWritten /\ pc \in CommitmentsWritten
        /\ pc' \in EpochWritten /\ pc \in EpochWritten
        /\ pc' \in TxsWritten /\ pc \notin TxsWritten
        /\ pc' \notin BlockWritten /\ pc \notin BlockWritten
        /\ pc' \notin LinkWritten /\ pc \notin LinkWritten
    BY <2>1 DEF IndexStages, LinkWritten, BlockWritten, TxsWritten, EpochWritten, CommitmentsWritten
  <2> DEFINE n == at - 1
  <2>6. BlocksMatch(best, n) /\ BlocksEnd(n) /\ LinksMatch(best, n)
        /\ Matches(txRows, txsIn, Txs, best, at - 1) /\ Ends(txRows, Txs, at - 1)
        /\ EpochsPlaced /\ EpochsMatch(best, at) /\ EpochsEnd(at)
        /\ Matches(commitmentRows, quorumsIn, Quorums, best, at)
        /\ Ends(commitmentRows, Quorums, at) /\ CursorNamesBlock
    BY <1>s, <2>5, BatchHolds
  <2>7. Matches(txRows', txsIn, Txs, best, at) /\ Ends(txRows', Txs, at)
    <3>1. \A t \in Txs : txRows'[t] = IF t \in txsIn[ancestor[best][at]]
                                      THEN ancestor[best][at] ELSE txRows[t]
      BY <2>1, <2>2
    <3>2. txRows' \in [Txs -> BlockOrNone]
      BY <1>0, <2>1, <2>2 DEF BlockOrNone
    <3>3. \A h, k \in 0..heightOf[best] :
            h # k => txsIn[ancestor[best][h]] \cap txsIn[ancestor[best][k]] = {}
      BY <2>2, ConsensusAssumption
    <3>4. /\ txsIn \in [Blocks -> SUBSET Txs] /\ txRows \in [Txs -> BlockOrNone]
          /\ Matches(txRows, txsIn, Txs, best, at - 1) /\ Ends(txRows, Txs, at - 1)
          /\ best \in Blocks /\ at \in Heights /\ at <= heightOf[best]
      BY <1>0, <2>2, <2>6, ContentAssumption
    <3>5. QED BY ONLY <3>1, <3>2, <3>3, <3>4, MatchesExtend
  <2>8. n = at' - 1 /\ at' = at
    BY <2>2
  <2> HIDE DEF n
  <2>9. /\ UpTo(BlockWritten)' = n /\ UpTo(LinkWritten)' = n /\ UpTo(TxsWritten)' = at
        /\ UpTo(EpochWritten)' = at /\ UpTo(CommitmentsWritten)' = at
        /\ Chain' = best /\ CursorNamesBlock'
    BY <2>1, <2>4, <2>5, <2>6, <2>8, BatchNext
  <2>10. IndexMatches'
    BY <2>4, <2>6, <2>7, <2>9 DEF IndexMatches, Matches, Ends
  <2>11. QED BY <2>3, <2>10 DEF IndexInTurns
\* No row is in the way: the height is above the indexed ones.
<1>5. CASE UpsertBlock
  <2>1. pc = "upsert"
    BY <1>5 DEF UpsertBlock
  <2>2. /\ blk = ancestor[best][at] /\ at \in Heights /\ at \in Int
        /\ blk \in Blocks /\ heightOf[blk] = at
    BY <1>s, <2>1, BatchStands
  <2> DEFINE n == at - 1
  <2>3. BlocksMatch(best, at - 1) /\ BlocksEnd(at - 1) /\ LinksMatch(best, at - 1)
        /\ Matches(txRows, txsIn, Txs, best, at) /\ Ends(txRows, Txs, at)
        /\ EpochsPlaced /\ EpochsMatch(best, at) /\ EpochsEnd(at)
        /\ Matches(commitmentRows, quorumsIn, Quorums, best, at)
        /\ Ends(commitmentRows, Quorums, at) /\ CursorNamesBlock
    BY <1>s, <2>1, BatchHolds
    DEF LinkWritten, BlockWritten, TxsWritten, EpochWritten, CommitmentsWritten
  <2>4. blockRows[at] = None
    BY <2>2, <2>3
  <2>5. /\ pc' = "link" /\ UNCHANGED jobVars /\ UNCHANGED nodeVars
        /\ UNCHANGED <<cursor, txRows, epochRows, commitmentRows>>
        /\ blockRows' = [blockRows EXCEPT ![at] = blk]
        /\ nextRows' = [nextRows EXCEPT ![at] = succ]
    BY <1>5, <2>4 DEF UpsertBlock, Goto
  <2>6. PassOfOneChain' /\ SearchInv'
    BY <1>s, <2>2, <2>5, BatchPlace DEF IndexStages, jobVars
  <2>7. UNCHANGED <<best, txRows, epochRows, commitmentRows>> /\ at' = at
    BY <2>5 DEF nodeVars, jobVars
  <2>8. /\ pc' \in IndexStages /\ pc' \in CommitmentsWritten /\ pc' \in EpochWritten
        /\ pc' \in TxsWritten /\ pc' \in BlockWritten /\ pc' \notin LinkWritten
    BY <2>5 DEF IndexStages, LinkWritten, BlockWritten, TxsWritten, EpochWritten, CommitmentsWritten
  <2>9. \A h \in Heights : /\ h <= at => blockRows'[h] = ancestor[best][h]
                           /\ h > at => blockRows'[h] = None
                           /\ h < n => nextRows'[h] = ancestor[best][h + 1]
    <3> TAKE h \in Heights
    <3>1. h \in Int
      OBVIOUS
    <3>2. CASE h = at
      BY <1>0, <2>2, <2>5, <3>1, <3>2
    <3>3. CASE h # at
      <4>1. blockRows'[h] = blockRows[h] /\ nextRows'[h] = nextRows[h]
        BY <1>0, <2>5, <3>3
      <4>2. (h <= at <=> h <= at - 1) /\ (h > at => h > at - 1)
        BY <2>2, <3>1, <3>3
      <4>3. QED BY <2>3, <4>1, <4>2
    <3>4. QED BY <3>2, <3>3
  <2>10. n = at' - 1
    BY <2>7
  <2> HIDE DEF n
  <2>11. /\ UpTo(BlockWritten)' = at /\ UpTo(LinkWritten)' = n /\ UpTo(TxsWritten)' = at
         /\ UpTo(EpochWritten)' = at /\ UpTo(CommitmentsWritten)' = at
         /\ Chain' = best /\ CursorNamesBlock'
    BY <2>3, <2>5, <2>7, <2>8, <2>10, BatchNext
  <2>12. IndexMatches'
    BY <2>3, <2>7, <2>9, <2>11 DEF IndexMatches, Matches, Ends
  <2>13. QED BY <2>6, <2>12 DEF IndexInTurns
<1>6. QED BY <1>1, <1>2, <1>3, <1>4, <1>5

\* The predecessor gets its successor, and the link check cannot fail on the one
\* chain; then the next height, or the checkpoint.
LEMMA LinkInTurns == ASSUME TurnInv, LinkBlock PROVE IndexInTurns'
<1> USE HeightsAreIntegers
<1> USE DEF BlocksMatch, BlocksEnd, LinksMatch, EpochsPlaced, EpochsMatch, EpochsEnd
<1>1. /\ pc = "link" /\ pc \in IndexStages /\ nextRows' = SuccessorRecorded
      /\ UNCHANGED nodeVars /\ UNCHANGED <<cursor, blockRows, txRows, epochRows, commitmentRows>>
  BY DEF LinkBlock, IndexStages
<1>2. /\ best \in Blocks /\ at \in Heights /\ at \in Int /\ to \in Int /\ at <= to
      /\ at <= heightOf[best] /\ blk = ancestor[best][at] /\ blk \in Blocks
      /\ heightOf[blk] = at /\ to <= tip /\ online /\ tip = heightOf[best]
      /\ expected \in {None, IF at = 0 THEN None ELSE ancestor[best][at - 1]}
      /\ nextRows \in [Heights -> BlockOrNone] /\ cursor.height < at
  BY <1>1, BatchStands, TurnTypes DEF TurnInv
<1>3. at # 0 => /\ PreviousOf(blk) = ancestor[best][at - 1] /\ at - 1 \in Heights
                /\ PreviousOf(blk) \in Blocks
  <2>1. SUFFICES ASSUME at # 0 PROVE /\ PreviousOf(blk) = ancestor[best][at - 1]
                                     /\ at - 1 \in Heights
                                     /\ PreviousOf(blk) \in Blocks
    OBVIOUS
  <2>2. at - 1 \in Heights /\ at - 1 <= heightOf[best] /\ PreviousOf(blk) = ancestor[best][at - 1]
    BY <1>2, <2>1, PreviousOnChain, TreeAssumption
  <2>3. QED BY <1>2, <2>2, ChainBelow
<1>4. BlocksMatch(best, at) /\ BlocksEnd(at) /\ LinksMatch(best, at - 1)
      /\ Matches(txRows, txsIn, Txs, best, at) /\ Ends(txRows, Txs, at)
      /\ EpochsPlaced /\ EpochsMatch(best, at) /\ EpochsEnd(at)
      /\ Matches(commitmentRows, quorumsIn, Quorums, best, at)
      /\ Ends(commitmentRows, Quorums, at) /\ CursorNamesBlock
  BY <1>1, BatchHolds
  DEF LinkWritten, BlockWritten, TxsWritten, EpochWritten, CommitmentsWritten
<1>5. \A h \in Heights : h < at => nextRows'[h] = ancestor[best][h + 1]
  <2> SUFFICES ASSUME NEW h \in Heights, h < at PROVE nextRows'[h] = ancestor[best][h + 1]
    OBVIOUS
  <2>1. at # 0 /\ at > 0 /\ h \in Int
    BY <1>2
  <2>2. /\ blockRows[at - 1] = PreviousOf(blk) /\ PreviousOf(blk) # None
        /\ at - 1 <= at
    BY <1>2, <1>3, <1>4, <2>1, TreeAssumption
  <2>3. nextRows' = [nextRows EXCEPT ![at - 1] = blk]
    BY <1>1, <2>1, <2>2 DEF SuccessorRecorded
  <2>4. CASE h = at - 1
    <3>1. nextRows'[h] = blk /\ h + 1 = at
      BY <1>2, <2>3, <2>4
    <3>2. QED BY <1>2, <3>1
  <2>5. CASE h # at - 1
    <3>1. nextRows'[h] = nextRows[h] /\ h < at - 1
      BY <1>2, <2>1, <2>3, <2>5
    <3>2. QED BY <1>4, <3>1
  <2>6. QED BY <2>4, <2>5
<1>6. ~(expected # None /\ PreviousOf(blk) # expected)
  BY <1>2, <1>3
<1>7. /\ expected' = blk /\ UNCHANGED <<tip, to>>
      /\ \/ pc' = "progress" /\ UNCHANGED at
         \/ pc' = "fetch" /\ at' = at + 1 /\ at # to
  BY <1>6 DEF LinkBlock, AtCheckpoint
<1>8. /\ UNCHANGED best /\ UNCHANGED online /\ UNCHANGED cursor /\ UNCHANGED blockRows
      /\ UNCHANGED txRows /\ UNCHANGED epochRows /\ UNCHANGED commitmentRows
      /\ pc' \in IndexStages
  BY <1>1, <1>7 DEF nodeVars, IndexStages
<1>9. /\ UpTo(BlockWritten)' = at /\ UpTo(LinkWritten)' = at /\ UpTo(TxsWritten)' = at
      /\ UpTo(EpochWritten)' = at /\ UpTo(CommitmentsWritten)' = at
      /\ Chain' = best /\ CursorNamesBlock'
  <2>1. CASE pc' = "progress" /\ UNCHANGED at
    BY <1>4, <1>8, <2>1, BatchNext
    DEF LinkWritten, BlockWritten, TxsWritten, EpochWritten, CommitmentsWritten
  <2>2. CASE pc' = "fetch" /\ at' = at + 1
    <3>1. at' - 1 = at
      BY <1>2, <2>2
    <3>2. QED
      BY <1>4, <1>8, <2>2, <3>1, BatchNext
      DEF LinkWritten, BlockWritten, TxsWritten, EpochWritten, CommitmentsWritten
  <2>3. QED BY <1>7, <2>1, <2>2
<1>10. IndexMatches'
  BY <1>4, <1>5, <1>8, <1>9 DEF IndexMatches, Matches, Ends
<1>11. PassOfOneChain' /\ SearchInv'
  <2>1. cursor.height >= 0 => ancestor[best][cursor.height] = cursor.hash
    BY <1>1 DEF TurnInv, IndexInTurns, PassOfOneChain
  <2>2. pc' = "fetch" => expected' = ancestor[best][at' - 1] /\ at' # 0
    <3>1. SUFFICES ASSUME pc' = "fetch" PROVE at' - 1 = at /\ at' # 0
      BY <1>2, <1>7
    <3>2. at' = at + 1
      BY <1>7, <3>1
    <3>3. QED BY <1>2, <3>2
  <2>3. pc' = "progress" => expected' = ancestor[best][at']
    BY <1>2, <1>7
  <2>4. tip' = NodeTip' /\ to' <= tip'
    BY <1>2, <1>7, <1>8 DEF NodeTip
  <2>5. pc' \in {"progress", "fetch"} /\ pc' \notin MemoryUncut \cup {"resume"}
    BY <1>7
    DEF MemoryUncut, DiffCursorUncut, EventsUncut, RoundsUncut, CommitmentsUncut,
        EpochsUncut, TxsUncut, BlocksUncut
  <2>6. PassOfOneChain'
    BY <1>2, <1>8, <2>1, <2>2, <2>3, <2>4, <2>5 DEF PassOfOneChain
  <2>7. SearchInv'
    BY <2>5 DEF SearchInv
  <2>8. QED BY <2>6, <2>7
<1>12. QED BY <1>10, <1>11 DEF IndexInTurns

\* The cursor takes the height and the hash of the block just linked: the node's
\* chain up to it is that block's.
LEMMA ProgressInTurns == ASSUME TurnInv, SaveProgress PROVE IndexInTurns'
<1> USE HeightsAreIntegers
<1> USE DEF BlocksMatch, BlocksEnd, LinksMatch, EpochsPlaced, EpochsMatch, EpochsEnd
<1>1. /\ pc = "progress" /\ pc \in IndexStages
      /\ cursor' = [height |-> at, hash |-> expected]
      /\ UNCHANGED nodeVars /\ UNCHANGED indexRows
      /\ \/ Forget
         \/ pc' = "fetch" /\ at' = at + 1 /\ at # to /\ UNCHANGED <<tip, to, expected>>
  BY DEF SaveProgress, IndexStages
<1>2. /\ best \in Blocks /\ at \in Heights /\ at \in Int /\ to \in Int /\ at <= to
      /\ at <= heightOf[best] /\ to <= tip /\ online /\ tip = heightOf[best]
      /\ expected = ancestor[best][at] /\ expected \in Blocks /\ heightOf[expected] = at
      /\ txRows \in [Txs -> BlockOrNone] /\ commitmentRows \in [Quorums -> BlockOrNone]
      /\ at >= 0
  BY <1>1, BatchStands, TurnTypes DEF TurnInv
<1>3. /\ BlocksMatch(best, at) /\ BlocksEnd(at) /\ LinksMatch(best, at)
      /\ Matches(txRows, txsIn, Txs, best, at) /\ Ends(txRows, Txs, at)
      /\ EpochsPlaced /\ EpochsMatch(best, at) /\ EpochsEnd(at)
      /\ Matches(commitmentRows, quorumsIn, Quorums, best, at)
      /\ Ends(commitmentRows, Quorums, at)
  BY <1>1, BatchHolds
  DEF LinkWritten, BlockWritten, TxsWritten, EpochWritten, CommitmentsWritten
<1>4. \A h \in Heights : h <= at => ancestor[expected][h] = ancestor[best][h]
  BY <1>2, ChainBelow
<1>5. /\ UNCHANGED best /\ UNCHANGED online /\ UNCHANGED blockRows /\ UNCHANGED nextRows
      /\ UNCHANGED txRows /\ UNCHANGED epochRows /\ UNCHANGED commitmentRows
      /\ cursor'.height = at /\ cursor'.hash = expected
  BY <1>1 DEF nodeVars, indexRows
<1>6. CursorNamesBlock'
  BY <1>2, <1>5 DEF CursorNamesBlock
<1>7. CASE Forget
  <2>1. /\ pc' = "idle" /\ pc' \notin IndexStages
    BY <1>7 DEF Forget, IndexStages
  <2>2. /\ UpTo(BlockWritten)' = at /\ UpTo(LinkWritten)' = at /\ UpTo(TxsWritten)' = at
        /\ UpTo(EpochWritten)' = at /\ UpTo(CommitmentsWritten)' = at
        /\ Chain' = expected
    BY <1>5, <2>1 DEF UpTo, Chain
  <2>3. /\ Matches(txRows, txsIn, Txs, expected, at)
        /\ Matches(commitmentRows, quorumsIn, Quorums, expected, at)
    BY <1>2, <1>3, <1>4, MatchesShorter
  <2>4. /\ BlocksMatch(expected, at) /\ EpochsMatch(expected, at)
    BY <1>3, <1>4, ContentAssumption
  <2>5. LinksMatch(expected, at)
    <3>1. SUFFICES ASSUME NEW h \in Heights, h < at
                   PROVE  nextRows[h] = ancestor[expected][h + 1]
      OBVIOUS
    <3>2. h + 1 \in Heights /\ h + 1 <= at
      BY <1>2, <3>1
    <3>3. QED BY <1>3, <1>4, <3>1, <3>2
  <2>6. IndexMatches'
    BY <1>3, <1>5, <1>6, <2>2, <2>3, <2>4, <2>5 DEF IndexMatches, Matches, Ends
  <2>7. PassOfOneChain' /\ SearchInv'
    BY <2>1
    DEF PassOfOneChain, SearchInv, IndexStages, MemoryUncut, DiffCursorUncut,
        EventsUncut, RoundsUncut, CommitmentsUncut, EpochsUncut, TxsUncut, BlocksUncut
  <2>8. QED BY <2>6, <2>7 DEF IndexInTurns
<1>8. CASE pc' = "fetch" /\ at' = at + 1 /\ at # to /\ UNCHANGED <<tip, to, expected>>
  <2>1. /\ pc' \in IndexStages /\ at' - 1 = at /\ at' # 0
    BY <1>2, <1>8 DEF IndexStages
  <2>2. /\ UpTo(BlockWritten)' = at /\ UpTo(LinkWritten)' = at /\ UpTo(TxsWritten)' = at
        /\ UpTo(EpochWritten)' = at /\ UpTo(CommitmentsWritten)' = at
        /\ Chain' = best
    BY <1>5, <1>8, <2>1
    DEF UpTo, Chain, LinkWritten, BlockWritten, TxsWritten, EpochWritten, CommitmentsWritten
  <2>3. IndexMatches'
    BY <1>3, <1>5, <1>6, <2>2 DEF IndexMatches, Matches, Ends
  <2>4. tip' = NodeTip' /\ to' <= tip'
    BY <1>2, <1>5, <1>8 DEF NodeTip
  <2>5. pc' \notin MemoryUncut \cup {"resume"} /\ pc' \notin {"idle", "progress"}
    BY <1>8
    DEF MemoryUncut, DiffCursorUncut, EventsUncut, RoundsUncut, CommitmentsUncut,
        EpochsUncut, TxsUncut, BlocksUncut
  <2>6. PassOfOneChain'
    BY <1>2, <1>5, <1>8, <2>1, <2>4, <2>5 DEF PassOfOneChain
  <2>7. SearchInv'
    BY <1>8 DEF SearchInv
  <2>8. QED BY <2>3, <2>6, <2>7 DEF IndexInTurns
<1>9. QED BY <1>1, <1>7, <1>8

-----------------------------------------------------------------------------
(***************************************************************************)
(* The index in turns                                                      *)
(***************************************************************************)

LEMMA IndexInit == Init => IndexInTurns
<1> SUFFICES ASSUME Init PROVE IndexInTurns
  OBVIOUS
<1>1. /\ pc = "idle" /\ cursor.height = -1 /\ cursor.hash = None
      /\ blockRows = [h \in Heights |-> None] /\ nextRows = [h \in Heights |-> None]
      /\ txRows = [t \in Txs |-> None] /\ epochRows = [h \in Boundaries |-> None]
      /\ commitmentRows = [q \in Quorums |-> None]
  BY DEF Init, StoreInit, IndexerMemoryInit
<1>2. /\ pc \notin IndexStages /\ pc \notin MemoryUncut /\ pc \notin {"resume"}
      /\ pc \notin {"walk", "move_cursor", "probe"}
  BY <1>1
  DEF IndexStages, MemoryUncut, DiffCursorUncut, EventsUncut, RoundsUncut,
      CommitmentsUncut, EpochsUncut, TxsUncut, BlocksUncut
<1>3. PassOfOneChain /\ SearchInv
  BY <1>1, <1>2 DEF PassOfOneChain, SearchInv
<1>4. /\ Chain = None
      /\ UpTo(BlockWritten) = -1 /\ UpTo(LinkWritten) = -1 /\ UpTo(TxsWritten) = -1
      /\ UpTo(EpochWritten) = -1 /\ UpTo(CommitmentsWritten) = -1
  BY <1>1, <1>2 DEF Chain, UpTo
<1>5. /\ Matches(txRows, txsIn, Txs, None, -1) /\ Ends(txRows, Txs, -1)
      /\ Matches(commitmentRows, quorumsIn, Quorums, None, -1)
      /\ Ends(commitmentRows, Quorums, -1)
  <2>1. /\ txRows \in [Txs -> BlockOrNone] /\ \A t \in Txs : txRows[t] = None
        /\ commitmentRows \in [Quorums -> BlockOrNone]
        /\ \A q \in Quorums : commitmentRows[q] = None
    BY <1>1 DEF BlockOrNone
  <2>2. QED BY <2>1, MatchesNothing
<1>6. /\ BlocksMatch(None, -1) /\ BlocksEnd(-1) /\ LinksMatch(None, -1)
      /\ EpochsPlaced /\ EpochsMatch(None, -1) /\ EpochsEnd(-1)
  BY <1>1, HeightsAreIntegers, ContentAssumption
  DEF BlocksMatch, BlocksEnd, LinksMatch, EpochsPlaced, EpochsMatch, EpochsEnd
<1>7. CursorNamesBlock
  BY <1>1 DEF CursorNamesBlock
<1>8. QED BY <1>3, <1>4, <1>5, <1>6, <1>7 DEF IndexInTurns, IndexMatches

\* What a follower's step leaves alone.
LEMMA FollowersLeave ==
    /\ WalkerStep => UNCHANGED walkerReads /\ UNCHANGED <<indexerVars, roundVars, followers>>
    /\ CollectorStep => UNCHANGED collectorReads /\ UNCHANGED <<indexerVars, walkerVars, followers>>
BY DEF WalkerStep, WalkNext, WalkBegins, ReadDiffCursor, AskSeed, TakeSeed, LookUp,
       AskDiff, TakeDiff, WriteEvents, AfterWrite, SaveDiffCursor,
       CollectorStep, CollectNext, CollectBegins, ObserveQuorums, CountMasternodes,
       RemovePlaceholders, PlanRounds, JudgeRound, LookUpMined, WriteFormed,
       StampResolved, RecomputeStreaks

\* No other step of the behaviours in turns has a pass of the indexer under it,
\* or begins one, or writes what the indexer writes.
LEMMA OthersLeaveIndex ==
    ASSUME TurnInv, pc = "idle",
           \/ WalkerStep \/ CollectorStep \/ ProcessCrash \/ NodeStep(NodeMoves)
    PROVE  IndexInTurns' /\ UNCHANGED <<cursor, indexRows>> /\ pc' = "idle"
<1>1. pc' = "idle" /\ UNCHANGED <<cursor, indexRows>>
  BY FollowersLeave
  DEF walkerReads, collectorReads, indexerVars, ProcessCrash, Forget, NodeStep
<1>2. /\ pc \notin IndexStages \cup CommitmentsUncut /\ pc' \notin IndexStages
      /\ pc' \notin MemoryUncut \cup {"resume"}
      /\ pc' \notin {"walk", "move_cursor", "probe"}
  BY <1>1
  DEF IndexStages, MemoryUncut, DiffCursorUncut, EventsUncut, RoundsUncut,
      CommitmentsUncut, EpochsUncut, TxsUncut, BlocksUncut
<1>3. PassOfOneChain' /\ SearchInv'
  BY <1>1, <1>2 DEF PassOfOneChain, SearchInv
<1>4. QED BY <1>1, <1>2, <1>3, TurnGoesOn

\* A step of the behaviours in turns is the indexer's, or finds it idle.
LEMMA StepInTurns ==
    ASSUME ServicesNext
    PROVE  \/ walkPc = "idle" /\ roundPc = "idle" /\ IndexerStep
           \/ pc = "idle" /\ roundPc = "idle" /\ WalkerStep
           \/ pc = "idle" /\ walkPc = "idle" /\ CollectorStep
           \/ pc = "idle" /\ ProcessCrash
           \/ pc = "idle" /\ NodeStep(NodeMoves)
BY DEF ServicesNext, NodeStep, NodeSettles, NodeGrows

LEMMA IndexStep ==
    ASSUME ServicesInv, IndexInTurns, [ServicesNext]_serviceVars
    PROVE  IndexInTurns'
<1>0. TurnInv
  BY DEF ServicesInv, TurnInv
<1>1. CASE IndexerStep
  BY <1>0, <1>1, TickInTurns, RewindInTurns, BatchInTurns, LinkInTurns, ProgressInTurns,
     ConfirmInTurns
  DEF IndexerStep, Tick, IndexBlock
<1>2. CASE /\ pc = "idle"
           /\ WalkerStep \/ CollectorStep \/ ProcessCrash \/ NodeStep(NodeMoves)
  BY <1>0, <1>2, OthersLeaveIndex
<1>3. CASE UNCHANGED serviceVars
  BY <1>3
  DEF serviceVars, vars, nodeVars, indexRows, indexerVars, jobVars, IndexInTurns, PassOfOneChain,
      SearchInv, IndexMatches, CursorNamesBlock, BlocksMatch, BlocksEnd, LinksMatch,
      EpochsPlaced, EpochsMatch, EpochsEnd, Matches, Ends, Chain, UpTo, NodeTip
<1>4. QED BY <1>1, <1>2, <1>3, StepInTurns

\* Whatever the node does between passes and wherever a follower's process
\* dies, each collection of the index follows the chain its pass builds on as
\* far as that pass has written it, and ends where no cut is outstanding.
THEOREM IndexFollowsChain == ServicesSpec => [](ServicesInv /\ IndexInTurns)
<1>1. ServicesInit({{}, Followers}) => IndexInTurns
  BY IndexInit DEF ServicesInit
<1>2. ServicesInv /\ IndexInTurns /\ [ServicesNext]_serviceVars => IndexInTurns'
  BY IndexStep
<1>3. QED BY <1>1, <1>2, ServicesInvariant, PTL DEF ServicesSpec

\* The stored blocks between passes.
LEMMA IdleIndex ==
    ASSUME ServicesInv, IndexInTurns, pc = "idle", cursor.height >= 0
    PROVE  /\ cursor.height \in Heights /\ cursor.height \in Int
           /\ cursor.hash \in Blocks /\ heightOf[cursor.hash] = cursor.height
           /\ ancestor[cursor.hash][cursor.height] = cursor.hash
           /\ \A h \in Heights : h <= cursor.height =>
                /\ blockRows[h] = ancestor[cursor.hash][h]
                /\ blockRows[h] \in Blocks /\ heightOf[blockRows[h]] = h
<1>1. TurnInv /\ pc \notin IndexStages
  BY DEF TurnInv, ServicesInv, IndexStages
<1>2. /\ cursor.height \in Heights /\ cursor.height \in Int
      /\ cursor.hash \in Blocks /\ heightOf[cursor.hash] = cursor.height
      /\ ancestor[cursor.hash][cursor.height] = cursor.hash
  BY <1>1, CursorBlock, HeightsAreIntegers
<1>3. QED BY <1>1, <1>2, StoredBlocks, ChainBelow

\* Between passes the stored chain is one chain, linked both ways, up to the
\* block the cursor names.
THEOREM IndexLinked == ServicesSpec => []LinkedIndex
<1>1. ASSUME ServicesInv, IndexInTurns PROVE LinkedIndex
  <2>1. SUFFICES ASSUME pc = "idle", cursor.height >= 0
                 PROVE  /\ cursor.hash = blockRows[cursor.height]
                        /\ \A h \in 1..cursor.height :
                             /\ PreviousOf(blockRows[h]) = blockRows[h - 1]
                             /\ nextRows[h - 1] = blockRows[h]
    BY DEF LinkedIndex
  <2>2. cursor.hash = blockRows[cursor.height]
    BY <1>1, <2>1, IdleIndex
  <2>3. ASSUME NEW h \in 1..cursor.height
        PROVE  /\ PreviousOf(blockRows[h]) = blockRows[h - 1]
               /\ nextRows[h - 1] = blockRows[h]
    <3>1. /\ cursor.height \in Heights /\ cursor.height \in Int /\ h \in Int
          /\ h \in Heights /\ h - 1 \in Heights /\ h # 0
          /\ h <= cursor.height /\ h - 1 <= cursor.height /\ h - 1 < cursor.height
      BY <1>1, <2>1, IdleIndex, HeightsAreIntegers
    <3>2. /\ blockRows[h] = ancestor[cursor.hash][h]
          /\ blockRows[h - 1] = ancestor[cursor.hash][h - 1]
          /\ cursor.hash \in Blocks /\ heightOf[cursor.hash] = cursor.height
      BY <1>1, <2>1, <3>1, IdleIndex
    <3>3. PreviousOf(blockRows[h]) = blockRows[h - 1]
      BY <3>1, <3>2, PreviousOnChain
    <3>4. LinksMatch(cursor.hash, cursor.height)
      BY <1>1, <2>1 DEF IndexInTurns, IndexMatches, Chain, UpTo, IndexStages
    <3>5. nextRows[h - 1] = ancestor[cursor.hash][(h - 1) + 1] /\ (h - 1) + 1 = h
      BY <3>1, <3>4 DEF LinksMatch
    <3>6. QED BY <3>2, <3>3, <3>5
  <2>4. QED BY <2>2, <2>3
<1>2. QED BY <1>1, IndexFollowsChain, PTL

\* A collection that follows the stored chain to its end holds exactly the rows
\* of its blocks.
LEMMA RowsOfChain ==
    ASSUME ServicesInv, IndexInTurns, pc = "idle",
           NEW items, NEW rows \in [items -> BlockOrNone], NEW contents,
           Matches(rows, contents, items, cursor.hash, cursor.height),
           Ends(rows, items, cursor.height), NEW i \in items
    PROVE  IF \E h \in 0..cursor.height : i \in contents[blockRows[h]]
           THEN /\ rows[i] # None /\ OnStoredChain(rows[i]) /\ i \in contents[rows[i]]
           ELSE rows[i] = None
<1> USE HeightsAreIntegers
<1>0. cursor.height \in Int /\ cursor.height \in Heights \cup {-1} /\ cursor.height >= -1
  BY TurnTypes DEF ServicesInv
<1>1. ASSUME NEW h \in 0..cursor.height, i \in contents[blockRows[h]]
      PROVE  /\ rows[i] # None /\ OnStoredChain(rows[i]) /\ i \in contents[rows[i]]
  <2>1. cursor.height >= 0 /\ h \in Heights /\ h <= cursor.height
    BY <1>0
  <2>2. /\ blockRows[h] = ancestor[cursor.hash][h] /\ blockRows[h] \in Blocks
        /\ heightOf[blockRows[h]] = h
    BY <2>1, IdleIndex
  <2>3. rows[i] = blockRows[h]
    BY <1>1, <2>1, <2>2 DEF Matches
  <2>4. QED BY <1>1, <2>1, <2>2, <2>3, TreeAssumption DEF OnStoredChain
<1>2. ASSUME rows[i] # None
      PROVE  \E h \in 0..cursor.height : i \in contents[blockRows[h]]
  <2>1. /\ rows[i] \in Blocks /\ heightOf[rows[i]] \in Heights
        /\ heightOf[rows[i]] <= cursor.height
    BY <1>2, TreeAssumption DEF Ends, BlockOrNone
  <2>2. /\ rows[i] = ancestor[cursor.hash][heightOf[rows[i]]] /\ i \in contents[rows[i]]
    BY <1>2, <2>1 DEF Matches
  <2>3. cursor.height >= 0 /\ heightOf[rows[i]] \in 0..cursor.height
    BY <1>0, <2>1
  <2>4. blockRows[heightOf[rows[i]]] = rows[i]
    BY <2>1, <2>2, <2>3, IdleIndex
  <2>5. QED BY <2>2, <2>3, <2>4
<1>3. QED BY <1>1, <1>2

\* Between passes no row of a derived collection names an abandoned block, and
\* no stored block lacks its rows.
THEOREM DerivedRowsExact == ServicesSpec => []DerivedRowsMatch
<1>1. ASSUME ServicesInv, IndexInTurns PROVE DerivedRowsMatch
  <2> SUFFICES ASSUME pc = "idle" PROVE DerivedRowsMatch
    BY DEF DerivedRowsMatch
  <2>1. /\ Matches(txRows, txsIn, Txs, cursor.hash, cursor.height)
        /\ Ends(txRows, Txs, cursor.height)
        /\ Matches(commitmentRows, quorumsIn, Quorums, cursor.hash, cursor.height)
        /\ Ends(commitmentRows, Quorums, cursor.height)
        /\ EpochsMatch(cursor.hash, cursor.height) /\ EpochsEnd(cursor.height)
    BY <1>1 DEF IndexInTurns, IndexMatches, Chain, UpTo, IndexStages, CommitmentsUncut,
                EpochsUncut, TxsUncut, BlocksUncut
  <2>2. /\ txRows \in [Txs -> BlockOrNone] /\ commitmentRows \in [Quorums -> BlockOrNone]
        /\ cursor.height \in Int
    BY <1>1, TurnTypes DEF ServicesInv
  <2>3. \A q \in Quorums :
          IF \E h \in 0..cursor.height : q \in quorumsIn[blockRows[h]]
          THEN /\ commitmentRows[q] # None /\ OnStoredChain(commitmentRows[q])
               /\ q \in quorumsIn[commitmentRows[q]]
          ELSE commitmentRows[q] = None
    BY <1>1, <2>1, <2>2, RowsOfChain
  <2>4. \A t \in Txs :
          IF \E h \in 0..cursor.height : t \in txsIn[blockRows[h]]
          THEN /\ txRows[t] # None /\ OnStoredChain(txRows[t]) /\ t \in txsIn[txRows[t]]
          ELSE txRows[t] = None
    BY <1>1, <2>1, <2>2, RowsOfChain
  <2>5. \A h \in Boundaries :
          epochRows[h] = IF h <= cursor.height THEN blockRows[h] ELSE None
    <3> TAKE h \in Boundaries
    <3>1. h \in Heights /\ h \in Int /\ h >= 0
      BY ContentAssumption, HeightsAreIntegers
    <3>2. CASE h <= cursor.height
      <4>1. cursor.height >= 0
        BY <2>2, <3>1, <3>2
      <4>2. blockRows[h] = ancestor[cursor.hash][h]
        BY <1>1, <3>1, <3>2, <4>1, IdleIndex
      <4>3. QED BY <2>1, <3>2, <4>2 DEF EpochsMatch
    <3>3. CASE ~(h <= cursor.height)
      BY <2>1, <2>2, <3>1, <3>3 DEF EpochsEnd
    <3>4. QED BY <3>2, <3>3
  <2>6. QED BY <2>3, <2>4, <2>5 DEF DerivedRowsMatch
<1>2. QED BY <1>1, IndexFollowsChain, PTL

\* Both rewinds stop at the highest height where the index and the node agree.
THEOREM RewindStopsAtFork == ServicesSpec => []RewindsToForkPoint
<1>1. ASSUME ServicesInv, IndexInTurns PROVE RewindsToForkPoint
  <2>1. SUFFICES ASSUME pc = "move_cursor"
                 PROVE  /\ blockRows[at] = NodeHash(at)
                        /\ \A h \in Heights : at < h /\ h < cursor.height
                                               => blockRows[h] # ancestor[best][h]
    BY DEF RewindsToForkPoint
  <2>2. /\ TurnInv /\ pc \notin IndexStages /\ pc # "idle"
    BY <1>1, <2>1 DEF TurnInv, ServicesInv, IndexStages
  <2>3. /\ at \in Heights /\ at <= cursor.height /\ cursor.height \in Int /\ online
    BY <2>1, <2>2, TurnTypes, HeightsAreIntegers
    DEF TurnInv, IInv, TypeOK, PassInv, RewindStages, IndexInTurns, PassOfOneChain
  <2>4. \A h \in Heights : h < cursor.height => h <= cursor.height
    BY <2>3, HeightsAreIntegers
  <2>5. QED
    BY <2>1, <2>2, <2>3, <2>4, StoredBlocks DEF TurnInv, IndexInTurns, SearchInv, NodeHash
<1>2. QED BY <1>1, IndexFollowsChain, PTL

\* Beside followers as without them an automatic rewind is shallow.
THEOREM ServicesShallow == ServicesSpec => AutomaticRewindIsShallow
<1>1. ServicesInv /\ [ServicesNext]_serviceVars =>
        [cursor'.height < cursor.height =>
           IF actor = "tick"
           THEN cursor.height - cursor'.height <= MaxRollbackDepth
           ELSE cursor.height - cursor'.height > MaxRollbackDepth]_vars
  <2> SUFFICES ASSUME ServicesInv, [ServicesNext]_serviceVars, cursor'.height < cursor.height
               PROVE  IF actor = "tick"
                      THEN cursor.height - cursor'.height <= MaxRollbackDepth
                      ELSE cursor.height - cursor'.height > MaxRollbackDepth
    OBVIOUS
  <2>1. CASE Tick \/ ConfirmRewind
    BY <2>1, ShallowStep DEF Next, ServicesInv
  <2>2. CASE UNCHANGED cursor
    <3>1. cursor.height \in Int
      BY TurnTypes DEF ServicesInv
    <3>2. QED BY <2>2, <3>1
  <2>3. QED
    BY <2>1, <2>2, StepInTurns, FollowersLeave
    DEF IndexerStep, walkerReads, collectorReads, ProcessCrash, NodeStep, serviceVars, vars
<1>2. QED BY <1>1, ServicesInvariant, PTL DEF ServicesSpec, AutomaticRewindIsShallow

-----------------------------------------------------------------------------
(***************************************************************************)
(* In turns: the rounds                                                    *)
(***************************************************************************)

\* No two passes are in flight.
OneAtATime ==
    /\ pc = "idle" \/ (walkPc = "idle" /\ roundPc = "idle")
    /\ walkPc = "idle" \/ roundPc = "idle"

\* A block of the indexed chain.
OnIndexedChain(b) == heightOf[b] <= cursor.height => b = ancestor[cursor.hash][heightOf[b]]

\* What a listing says of a round is a block that carries its commitment, and a
\* height that was looked up is that block's on the indexed chain.
ListedInTurns ==
    /\ \A s \in Slots : listed[s] # None => Commits(listed[s], s)
    /\ roundPc = "write" /\ minedAt # None =>
         /\ minedAt = heightOf[listed[First]]
         /\ minedAt <= cursor.height /\ OnIndexedChain(listed[First])

\* A complete round can be found again by a rewind: it carries the height of the
\* block it names, that block is on the indexed chain unless it is above the
\* cursor, and then a rewind that has yet to reset the rounds is under way.
FormedInTurns ==
    \A s \in Slots :
        LET row == roundRows[s]
        IN row.status = "formed" /\ row.complete =>
             /\ row.minedBlock \in Blocks /\ Commits(row.minedBlock, s)
             /\ row.minedHeight = heightOf[row.minedBlock]
             /\ OnIndexedChain(row.minedBlock)
             /\ pc \notin RoundsUncut => row.minedHeight <= cursor.height

RoundsInTurns == OneAtATime /\ ListedInTurns /\ FormedInTurns

\* One pass at a time, by what each step asks for.
LEMMA OneStep ==
    ASSUME OneAtATime, [ServicesNext]_serviceVars PROVE OneAtATime'
<1>1. CASE UNCHANGED serviceVars
  BY <1>1 DEF OneAtATime, serviceVars, vars, indexerVars, walkerVars, roundVars
<1>2. CASE walkPc = "idle" /\ roundPc = "idle" /\ IndexerStep
  BY <1>2 DEF OneAtATime, IndexerStep, walkerVars, roundVars
<1>3. CASE pc = "idle" /\ roundPc = "idle" /\ WalkerStep
  BY <1>3 DEF OneAtATime, WalkerStep, indexerVars, roundVars
<1>4. CASE pc = "idle" /\ walkPc = "idle" /\ CollectorStep
  BY <1>4 DEF OneAtATime, CollectorStep, indexerVars, walkerVars
<1>5. CASE ProcessCrash
  BY <1>5 DEF OneAtATime, ProcessCrash, Forget, WalkerForgets
<1>6. CASE NodeStep(NodeMoves)
  BY <1>6 DEF OneAtATime, NodeStep, indexerVars, walkerVars, roundVars
<1>7. QED BY <1>1, <1>2, <1>3, <1>4, <1>5, <1>6, StepInTurns

\* A block a listing names carries the commitment it is listed for.
LEMMA ListingCommits ==
    ASSUME NEW b \in Blocks, NEW s \in Slots, Listing(b)[s] # None
    PROVE  Commits(Listing(b)[s], s)
<1>1. Listing(b)[s] = MinedIn(b, s) /\ s \in Committed(b)
  BY DEF Listing, MinedIn
<1>2. QED BY <1>1, MinedInChain

\* What was listed stays what it is, and the lookup reads the indexed chain.
LEMMA ListedStep ==
    ASSUME ServicesInv, IndexInTurns, OneAtATime, ListedInTurns,
           [ServicesNext]_serviceVars
    PROVE  ListedInTurns'
<1> USE HeightsAreIntegers
<1>1. CASE UNCHANGED <<roundVars, cursor>>
  BY <1>1 DEF ListedInTurns, OnIndexedChain, roundVars, First
<1>2. CASE roundPc = "idle" /\ UNCHANGED roundVars
  BY <1>2 DEF ListedInTurns, roundVars
<1>3. CASE pc = "idle" /\ CollectorStep
  <2>1. UNCHANGED <<cursor, indexRows>> /\ pc' = pc /\ best \in Blocks /\ roundTip \in Heights
        /\ listed \in [Slots -> BlockOrNone]
    BY <1>3, FollowersLeave
    DEF collectorReads, indexerVars, ServicesInv, ServicesTypeOK, TypeOK, StoreTypeOK,
        CollectorTypeOK
  <2>2. CASE ObserveQuorums
    <3> DEFINE h == ObservationHeight(roundTip)
    <3>1. CASE online /\ h <= NodeTip
      <4>1. listed' = Listing(ancestor[best][h]) /\ roundPc' = "count"
        BY <2>2, <3>1 DEF ObserveQuorums
      <4>2. h \in Heights
        BY <2>1, ScheduleAssumption DEF ObservationHeight
      <4>3. ancestor[best][h] \in Blocks
        BY <2>1, <3>1, <4>2, ChainBelow DEF NodeTip
      <4>4. \A s \in Slots : listed'[s] # None => Commits(listed'[s], s)
        BY <4>1, <4>3, ListingCommits
      <4>5. QED BY <4>1, <4>4 DEF ListedInTurns
    <3>2. CASE ~(online /\ h <= NodeTip)
      <4>1. listed' = NothingListed /\ roundPc' = "idle"
        BY <2>2, <3>2 DEF ObserveQuorums, CollectorForgets
      <4>2. QED BY <4>1 DEF ListedInTurns, NothingListed
    <3>3. QED BY <3>1, <3>2
  <2>3. CASE LookUpMined
    <3> DEFINE b == listed[First]
    <3>1. /\ plan # {} /\ b # None /\ plan \subseteq Slots
      BY <2>3 DEF LookUpMined, ServicesInv, ServicesTypeOK, CollectorTypeOK
    <3>2. b \in Blocks /\ heightOf[b] \in Heights
      BY <2>1, <3>1, FirstOfPlan, TreeAssumption DEF BlockOrNone
    <3>3. /\ UNCHANGED listed /\ UNCHANGED plan /\ First' = First
          /\ minedAt' = IF blockRows[heightOf[b]] = b THEN heightOf[b] ELSE None
      BY <2>3 DEF LookUpMined, First
    <3>4. ASSUME minedAt' # None
          PROVE  minedAt' = heightOf[b] /\ heightOf[b] <= cursor.height /\ OnIndexedChain(b)
      <4>1. minedAt' = heightOf[b] /\ blockRows[heightOf[b]] = b
        BY <3>3, <3>4
      <4>2. BlocksEnd(cursor.height) /\ BlocksMatch(cursor.hash, cursor.height)
        BY <1>3 DEF IndexInTurns, IndexMatches, Chain, UpTo, IndexStages, BlocksUncut
      <4>3. cursor.height \in Int
        BY TurnTypes DEF ServicesInv
      <4>4. heightOf[b] <= cursor.height
        BY <3>1, <3>2, <4>1, <4>2, <4>3 DEF BlocksEnd
      <4>5. QED BY <3>2, <4>1, <4>2, <4>4 DEF BlocksMatch, OnIndexedChain
    <3>5. UNCHANGED cursor
      BY <2>1
    <3> HIDE DEF b
    <3>6. /\ \A s \in Slots : listed'[s] # None => Commits(listed'[s], s)
          /\ b = listed'[First']
      BY <3>3 DEF ListedInTurns, b
    <3>7. QED BY <3>4, <3>5, <3>6 DEF ListedInTurns, OnIndexedChain
  <2>4. CASE ~ObserveQuorums /\ ~LookUpMined
    <3>1. /\ roundPc' # "write" \/ UNCHANGED <<roundPc, listed, plan, minedAt>>
          /\ UNCHANGED listed \/ listed' = NothingListed
      BY <1>3, <2>4
      DEF CollectorStep, CollectNext, CollectBegins, CountMasternodes, RemovePlaceholders,
          PlanRounds, JudgeRound, WriteFormed, StampResolved, RecomputeStreaks,
          CollectorForgets
    <3>2. UNCHANGED cursor
      BY <2>1
    <3>3. QED
      BY <3>1, <3>2 DEF ListedInTurns, NothingListed, OnIndexedChain, First
  <2>5. QED BY <2>2, <2>3, <2>4
<1>4. CASE ProcessCrash
  <2>1. listed' = NothingListed /\ roundPc' = "idle"
    BY <1>4 DEF ProcessCrash, CollectorForgets
  <2>2. QED BY <2>1 DEF ListedInTurns, NothingListed
<1>5. QED
  BY <1>1, <1>2, <1>3, <1>4, StepInTurns
  DEF IndexerStep, WalkerStep, NodeStep, serviceVars, vars

\* The indexer moves the cursor at the start of a rewind and at a checkpoint,
\* and writes the rounds in one stage of a rewind.
LEMMA IndexerElsewhere ==
    ASSUME IndexerStep, ~MoveCursor, ~ResetRounds, ~SaveProgress
    PROVE  /\ UNCHANGED <<cursor, roundRows>>
           /\ pc \in RoundsUncut => pc' \in RoundsUncut
<1>1. UNCHANGED <<cursor, roundRows>>
  BY DEF IndexerStep, Tick, TickFails, TickBegins, TickChecks, Walk, Resume, Rewind,
         IndexBlock, Abandon, DropBlocks, DropTransactions, DropEpochs,
         DropCommitments, ClearSuccessor, DropEvents,
         LowerDiffCursor, ResetWalker, FetchHash, FetchBlock, WriteCommitments,
         WriteEpoch, WriteTransactions, UpsertBlock, LinkBlock,
         ConfirmRewind, OperatorConfirms, Inspect, Probe, sharedRest
<1>2. pc \in RoundsUncut => DropBlocks \/ DropTransactions \/ DropEpochs \/ DropCommitments
  BY DEF IndexerStep, Tick, TickFails, TickBegins, TickChecks, Walk, Resume, Rewind,
         IndexBlock, ClearSuccessor, DropEvents, ResetRounds,
         LowerDiffCursor, ResetWalker, FetchHash, FetchBlock, WriteCommitments,
         WriteEpoch, WriteTransactions, UpsertBlock, LinkBlock,
         ConfirmRewind, OperatorConfirms, Inspect, Probe,
         RoundsUncut, CommitmentsUncut, EpochsUncut, TxsUncut, BlocksUncut
<1>3. pc \in RoundsUncut => pc' \in RoundsUncut
  BY <1>2
  DEF DropBlocks, DropTransactions, DropEpochs, DropCommitments, Goto,
      RoundsUncut, CommitmentsUncut, EpochsUncut, TxsUncut, BlocksUncut
<1>4. QED BY <1>1, <1>3

\* A complete round was written from a block of the indexed chain at or below
\* the cursor; the cursor leaves that chain only where a rewind begins, which
\* resets what is above it before it ends.
LEMMA FormedStep ==
    ASSUME ServicesInv, IndexInTurns, RoundsInTurns, [ServicesNext]_serviceVars
    PROVE  FormedInTurns'
<1> USE HeightsAreIntegers
<1>0. /\ TurnInv /\ FormedInTurns /\ cursor.height \in Int
      /\ \A b \in Blocks : heightOf[b] \in Heights /\ heightOf[b] \in Int
      /\ roundRows \in [Slots -> RoundRow]
      /\ \A s \in Slots : s \in Int
  BY TurnTypes, TreeAssumption, ContentAssumption
  DEF RoundsInTurns, TurnInv, ServicesInv, IInv, TypeOK, StoreTypeOK
<1>1. CASE UNCHANGED <<cursor, roundRows>> /\ (pc \in RoundsUncut => pc' \in RoundsUncut)
  BY <1>0, <1>1 DEF FormedInTurns, OnIndexedChain
<1>2. CASE MoveCursor /\ UNCHANGED roundRows
  <2>1. /\ pc = "move_cursor" /\ pc' \in RoundsUncut
        /\ cursor' = [height |-> at, hash |-> NodeHash(at)]
    BY <1>2
    DEF MoveCursor, Goto, RoundsUncut, CommitmentsUncut, EpochsUncut, TxsUncut, BlocksUncut
  <2>2. /\ at \in Heights /\ at <= cursor.height /\ online
        /\ ancestor[cursor.hash][at] = ancestor[best][at]
        /\ pc \notin RoundsUncut
    BY <1>0, <2>1
    DEF TurnInv, IInv, TypeOK, PassInv, IndexInTurns, PassOfOneChain, SearchInv, RewindStages,
        RoundsUncut, CommitmentsUncut, EpochsUncut, TxsUncut, BlocksUncut
  <2>3. cursor.height >= 0
    BY <1>0, <2>2
  <2>4. /\ cursor.hash \in Blocks /\ heightOf[cursor.hash] = cursor.height
        /\ cursor'.height = at /\ cursor'.hash = ancestor[cursor.hash][at]
    BY <1>0, <2>1, <2>2, <2>3, CursorBlock DEF NodeHash
  <2>5. \A h \in Heights : h <= at => ancestor[cursor'.hash][h] = ancestor[cursor.hash][h]
    BY <2>2, <2>4, ChainBelow
  <2>6. \A b \in Blocks : OnIndexedChain(b) => (OnIndexedChain(b))'
    BY <1>0, <2>2, <2>4, <2>5 DEF OnIndexedChain
  <2>7. QED BY <1>0, <1>2, <2>1, <2>6 DEF FormedInTurns
<1>3. CASE ResetRounds
  <2>1. /\ pc = "reset_rounds" /\ UNCHANGED cursor
        /\ roundRows' = [s \in Slots |-> ResetRound(s, roundRows[s], at)]
    BY <1>3 DEF ResetRounds
  <2>2. at = cursor.height
    BY <1>0, <2>1 DEF TurnInv, IInv, PassInv, RewindStages
  <2>3. ASSUME NEW s \in Slots, roundRows'[s].status = "formed", roundRows'[s].complete
        PROVE  /\ roundRows'[s] = roundRows[s]
               /\ roundRows[s].minedHeight \in Int => roundRows[s].minedHeight <= cursor.height
    <3>1. roundRows'[s] = ResetRound(s, roundRows[s], at)
      BY <2>1
    <3>2. roundRows'[s] = roundRows[s]
      BY <2>3, <3>1 DEF ResetRound
    <3>3. ~(roundRows[s].minedHeight # None /\ roundRows[s].minedHeight > at)
      BY <2>3, <3>1, <3>2 DEF ResetRound
    <3>4. roundRows[s].minedBlock \in Blocks
           /\ roundRows[s].minedHeight = heightOf[roundRows[s].minedBlock]
      BY <1>0, <2>3, <3>2 DEF FormedInTurns
    <3>5. QED BY <1>0, <2>2, <3>2, <3>3, <3>4, TreeAssumption
  <2>4. QED BY <1>0, <2>1, <2>3 DEF FormedInTurns, OnIndexedChain
<1>4. CASE SaveProgress /\ UNCHANGED roundRows
  <2>1. /\ pc = "progress" /\ pc \in IndexStages /\ pc \notin RoundsUncut
        /\ cursor' = [height |-> at, hash |-> expected]
    BY <1>4
    DEF SaveProgress, IndexStages, RoundsUncut, CommitmentsUncut, EpochsUncut, TxsUncut, BlocksUncut
  <2>2. /\ best \in Blocks /\ at \in Heights /\ at \in Int /\ at <= heightOf[best]
        /\ expected = ancestor[best][at] /\ cursor.height < at
    BY <1>0, <2>1, BatchStands
  <2>3. cursor.height >= 0 => ancestor[best][cursor.height] = cursor.hash
    BY <1>0, <2>1 DEF TurnInv, IndexInTurns, PassOfOneChain
  <2>4. ASSUME NEW h \in Heights, h <= cursor.height
        PROVE  ancestor[cursor'.hash][h] = ancestor[cursor.hash][h]
    <3>1. cursor.height >= 0 /\ cursor.height \in Heights /\ cursor.height <= heightOf[best]
      BY <1>0, <2>2, <2>4, CursorBlock
    <3>2. \A k \in Heights : k <= cursor.height =>
            ancestor[ancestor[best][cursor.height]][k] = ancestor[best][k]
      BY <2>2, <3>1, ChainBelow
    <3>3. ancestor[cursor.hash][h] = ancestor[best][h]
      BY <2>3, <2>4, <3>1, <3>2
    <3>4. \A k \in Heights : k <= at => ancestor[expected][k] = ancestor[best][k]
      BY <2>2, ChainBelow
    <3>5. h <= at /\ cursor'.hash = expected
      BY <1>0, <2>1, <2>2, <2>4
    <3>6. QED BY <3>3, <3>4, <3>5
  <2>5. \A s \in Slots :
          LET row == roundRows[s]
          IN row.status = "formed" /\ row.complete =>
               /\ row.minedHeight = heightOf[row.minedBlock] /\ row.minedBlock \in Blocks
               /\ row.minedHeight <= cursor.height
               /\ row.minedBlock = ancestor[cursor'.hash][heightOf[row.minedBlock]]
               /\ row.minedHeight <= cursor'.height
    BY <1>0, <2>1, <2>2, <2>4 DEF FormedInTurns, OnIndexedChain
  <2>6. QED BY <1>0, <1>4, <2>5 DEF FormedInTurns, OnIndexedChain
<1>5. CASE pc = "idle" /\ CollectorStep
  <2>1. UNCHANGED cursor /\ UNCHANGED pc /\ pc \notin RoundsUncut
    BY <1>5, FollowersLeave
    DEF collectorReads, indexerVars, RoundsUncut, CommitmentsUncut, EpochsUncut, TxsUncut,
        BlocksUncut
  <2>2. ASSUME NEW s \in Slots, roundRows'[s].status = "formed", roundRows'[s].complete
        PROVE  \/ /\ roundRows[s].status = "formed" /\ roundRows[s].complete
                  /\ roundRows'[s].minedBlock = roundRows[s].minedBlock
                  /\ roundRows'[s].minedHeight = roundRows[s].minedHeight
               \/ /\ WriteFormed /\ s = First /\ minedAt # None
                  /\ roundRows'[s].minedBlock = listed[s]
                  /\ roundRows'[s].minedHeight = minedAt
    <3>1. roundRows[s] \in RoundRow
      BY <1>0
    <3>2. CASE RemovePlaceholders
      BY <2>2, <3>2 DEF RemovePlaceholders, NoRound
    <3>3. CASE JudgeRound
      <4>1. CASE UNCHANGED roundRows
        BY <2>2, <4>1
      <4>2. CASE /\ listed[First] = None
                 /\ LET status == ClassifyRound(First, EnabledAt(First))
                    IN roundRows' = [roundRows EXCEPT ![First] =
                         [@ EXCEPT !.status = status, !.minedBlock = None,
                                   !.minedHeight = None,
                                   !.complete = (status = "failed")]]
        <5>1. ClassifyRound(First, EnabledAt(First)) # "formed"
          BY <4>2 DEF ClassifyRound
        <5>2. CASE s = First
          BY <1>0, <2>2, <3>1, <4>2, <5>1, <5>2 DEF RoundRow
        <5>3. CASE s # First
          BY <1>0, <2>2, <4>2, <5>3
        <5>4. QED BY <5>2, <5>3
      <4>3. QED BY <3>3, <4>1, <4>2 DEF JudgeRound
    <3>4. CASE WriteFormed
      <4>1. roundRows' = [roundRows EXCEPT ![First] =
              [@ EXCEPT !.status = "formed", !.minedBlock = listed[First],
                        !.minedHeight = minedAt,
                        !.complete = described /\ minedAt # None]]
        BY <3>4 DEF WriteFormed
      <4>2. CASE s = First
        BY <1>0, <2>2, <3>1, <3>4, <4>1, <4>2 DEF RoundRow
      <4>3. CASE s # First
        BY <1>0, <2>2, <4>1, <4>3
      <4>4. QED BY <4>2, <4>3
    <3>5. CASE StampResolved
      BY <1>0, <2>2, <3>1, <3>5 DEF StampResolved, RoundRow
    <3>6. CASE RecomputeStreaks
      BY <1>0, <2>2, <3>1, <3>6 DEF RecomputeStreaks, RoundRow, NoRound
    <3>7. CASE UNCHANGED roundRows
      BY <2>2, <3>7
    <3>8. QED
      BY <1>5, <3>2, <3>3, <3>4, <3>5, <3>6, <3>7
      DEF CollectorStep, CollectNext, CollectBegins, ObserveQuorums, CountMasternodes,
          PlanRounds, LookUpMined
  <2>3. ASSUME NEW s \in Slots, WriteFormed, s = First, minedAt # None
        PROVE  /\ listed[s] \in Blocks /\ Commits(listed[s], s)
               /\ minedAt = heightOf[listed[s]]
               /\ OnIndexedChain(listed[s]) /\ minedAt <= cursor.height
    <3>1. /\ roundPc = "write" /\ listed[First] # None /\ listed[s] \in BlockOrNone
      BY <2>3 DEF WriteFormed, ServicesInv, ServicesTypeOK, CollectorTypeOK
    <3>2. QED BY <2>3, <3>1 DEF RoundsInTurns, ListedInTurns, BlockOrNone
  <2>4. QED BY <1>0, <2>1, <2>2, <2>3 DEF FormedInTurns, OnIndexedChain
<1>6. CASE WalkerStep \/ ProcessCrash \/ NodeStep(NodeMoves) \/ UNCHANGED serviceVars
  <2>1. UNCHANGED <<cursor, roundRows>>
    BY <1>6, FollowersLeave
    DEF walkerReads, ProcessCrash, NodeStep, sharedRest, serviceVars, vars
  <2>2. CASE pc = "idle"
    BY <1>1, <2>1, <2>2 DEF RoundsUncut, CommitmentsUncut, EpochsUncut, TxsUncut, BlocksUncut
  <2>3. CASE UNCHANGED serviceVars
    BY <1>1, <2>1, <2>3 DEF serviceVars, vars, indexerVars
  <2>4. CASE pc # "idle" /\ ~UNCHANGED serviceVars
    <3>1. IndexerStep
      BY <2>4, StepInTurns
    <3>2. UNCHANGED cursor /\ UNCHANGED roundRows
      BY <2>1
    <3>3. CASE MoveCursor
      BY <1>2, <3>2, <3>3
    <3>4. CASE SaveProgress
      BY <1>4, <3>2, <3>4
    <3>5. QED BY <1>1, <1>3, <3>1, <3>3, <3>4, IndexerElsewhere
  <2>5. QED BY <2>2, <2>3, <2>4
<1>7. CASE IndexerStep
  <2>1. MoveCursor \/ SaveProgress => UNCHANGED roundRows
    BY DEF MoveCursor, SaveProgress, sharedRest
  <2>2. QED BY <1>1, <1>2, <1>3, <1>4, <1>7, <2>1, IndexerElsewhere
<1>8. QED BY <1>5, <1>6, <1>7, StepInTurns

\* The whole of what the rounds rest on.
THEOREM RoundsFollowChain == ServicesSpec => [](ServicesInv /\ IndexInTurns /\ RoundsInTurns)
<1>1. ServicesInit({{}, Followers}) => RoundsInTurns
  <2> SUFFICES ASSUME ServicesInit({{}, Followers}) PROVE RoundsInTurns
    OBVIOUS
  <2>1. /\ pc = "idle" /\ walkPc = "idle" /\ roundPc = "idle"
        /\ listed = NothingListed /\ roundRows = [s \in Slots |-> NoRound]
    BY DEF ServicesInit, Init, StoreInit, IndexerMemoryInit, WalkerInit, CollectorInit
  <2>2. QED
    BY <2>1 DEF RoundsInTurns, OneAtATime, ListedInTurns, FormedInTurns, NothingListed, NoRound
<1>2. ASSUME ServicesInv, IndexInTurns, RoundsInTurns, [ServicesNext]_serviceVars
      PROVE  RoundsInTurns'
  BY <1>2, OneStep, ListedStep, FormedStep DEF RoundsInTurns
<1>3. QED BY <1>1, <1>2, IndexFollowsChain, PTL DEF ServicesSpec

\* Once the index is back at the node's tip no complete round names a block
\* that is not the one in which the node's chain mined its commitment.
THEOREM FormedRoundsOnChain == ServicesSpec => []FormedOnChain
<1>1. ASSUME ServicesInv, IndexInTurns, RoundsInTurns PROVE FormedOnChain
  <2>1. SUFFICES ASSUME pc = "idle", Indexed(best), NEW s \in Slots,
                        roundRows[s].status = "formed", roundRows[s].complete
                 PROVE  roundRows[s].minedBlock = MinedIn(best, s)
    BY DEF FormedOnChain, AllIdle
  <2> DEFINE b == roundRows[s].minedBlock
  <2>2. /\ best \in Blocks /\ heightOf[best] \in Heights
        /\ cursor.height = heightOf[best] /\ cursor.hash = best
        /\ pc \notin RoundsUncut
    BY <1>1, <2>1, TurnTypes
    DEF ServicesInv, Indexed, RoundsUncut, CommitmentsUncut, EpochsUncut, TxsUncut, BlocksUncut
  <2>3. /\ b \in Blocks /\ Commits(b, s) /\ heightOf[b] <= heightOf[best]
        /\ b = ancestor[best][heightOf[b]] /\ heightOf[b] \in Heights
    BY <1>1, <2>1, <2>2, TreeAssumption DEF RoundsInTurns, FormedInTurns, OnIndexedChain
  <2>4. heightOf[b] \in 0..heightOf[best]
    BY <2>2, <2>3, HeightsAreIntegers
  <2>5. s \in Committed(best)
    BY <2>3, <2>4 DEF Committed
  <2>6. PICK h \in 0..heightOf[best] : MinedIn(best, s) = ancestor[best][h]
    BY <2>2, <2>5, MinedInChain
  <2>7. Commits(ancestor[best][h], s)
    BY <2>2, <2>5, <2>6, MinedInChain
  <2>8. h = heightOf[b]
    BY <2>2, <2>3, <2>4, <2>7, CommitmentAssumption
  <2>9. QED BY <2>3, <2>6, <2>8
<1>2. QED BY <1>1, RoundsFollowChain, PTL

-----------------------------------------------------------------------------
(***************************************************************************)
(* In turns: the events                                                    *)
(***************************************************************************)

\* One chain wins.
OneWinner ==
    \A v, w \in Blocks : heightOf[v] = MaxHeight /\ heightOf[w] = MaxHeight => v = w

\* The heights at which the indexed chain is the node's.
Agreed ==
    {h \in Heights : /\ h <= cursor.height /\ h <= heightOf[best]
                     /\ ancestor[best][h] = ancestor[cursor.hash][h]}

\* With followers the node is not below the index, and where it has left the
\* indexed chain it has left it for the winning one.
NodeAhead ==
    /\ cursor.height <= heightOf[best]
    /\ \A h \in Heights : h <= cursor.height /\ h \notin Agreed => Wins(ancestor[best][h])

\* On the part of the indexed chain that is still the node's the record is what
\* that chain says; above it a walk may have recorded the other chain, and the
\* rewind that follows takes that away.
EventsInTurns ==
    /\ WalkPlace
    /\ EventsOf(cursor.hash, Agreed) /\ HandOf(cursor.hash, Agreed)
    /\ pc # "reset_walker" => MapKnown(cursor.hash, Agreed)
    /\ pc \notin EventsUncut => \A e \in eventRows : e.height <= cursor.height
    /\ pc \notin DiffCursorUncut => diffCursor <= cursor.height
    /\ followers = {} => eventRows = {} /\ diffCursor = -1 /\ ~seeded /\ walkPc = "idle"
    /\ followers # {} => NodeAhead

\* The indexed chain, as a block: any one will do before the first height.
LEMMA EventsOpen ==
    ASSUME ServicesInv, IndexInTurns, EventsInTurns
    PROVE  \E K \in Blocks :
             /\ cursor.height >= 0 => K = cursor.hash /\ heightOf[K] = cursor.height
             /\ PartOf(K, Agreed) /\ EventsOf(K, Agreed) /\ HandOf(K, Agreed)
             /\ pc # "reset_walker" => MapKnown(K, Agreed)
<1>0. /\ TurnInv /\ best \in Blocks /\ heightOf[best] \in Heights
      /\ cursor.height \in Int /\ Heights \subseteq Int
      /\ \A h \in Heights : 0 <= h
  BY TurnTypes, HeightsAreIntegers DEF TurnInv, ServicesInv, Heights
<1>1. CASE cursor.height >= 0
  <2>1. /\ cursor.height \in Heights /\ cursor.hash \in Blocks
        /\ heightOf[cursor.hash] = cursor.height
    BY <1>0, <1>1, CursorBlock
  <2>2. PartOf(cursor.hash, Agreed)
    <3>1. ASSUME NEW h \in Agreed, NEW k \in Heights, k <= h PROVE k \in Agreed
      <4>1. /\ h \in Heights /\ h <= cursor.height /\ h <= heightOf[best]
            /\ ancestor[best][h] = ancestor[cursor.hash][h]
        BY DEF Agreed
      <4>2. ancestor[best][k] = ancestor[cursor.hash][k]
        BY <1>0, <2>1, <3>1, <4>1, AgreeBelow
      <4>3. k <= cursor.height /\ k <= heightOf[best]
        BY <1>0, <3>1, <4>1
      <4>4. QED BY <4>2, <4>3 DEF Agreed
    <3>2. QED BY <2>1, <3>1 DEF PartOf, Agreed
  <2>3. QED BY <2>1, <2>2 DEF EventsInTurns
<1>2. CASE ~(cursor.height >= 0)
  <2>1. Agreed = {}
    <3>1. \A h \in Heights : ~(h <= cursor.height)
      BY <1>0, <1>2
    <3>2. QED BY <3>1 DEF Agreed
  <2>2. PartOf(best, {})
    BY DEF PartOf
  <2>3. EventsOf(best, {}) /\ HandOf(best, {})
    BY DEF EventsOf, HandOf
  <2>4. pc # "reset_walker" => MapKnown(best, {})
    BY DEF EventsInTurns, MapKnown
  <2>5. QED BY <1>0, <1>2, <2>1, <2>2, <2>3, <2>4
<1>3. QED BY <1>1, <1>2

\* And back.
LEMMA EventsClose ==
    ASSUME NEW K \in Blocks, NEW Good \in SUBSET Heights, Agreed' = Good,
           Good # {} => K = cursor'.hash,
           WalkPlace', EventsOf(K, Good)', HandOf(K, Good)',
           pc' # "reset_walker" => MapKnown(K, Good)',
           pc' \notin EventsUncut => \A e \in eventRows' : e.height <= cursor'.height,
           pc' \notin DiffCursorUncut => diffCursor' <= cursor'.height,
           followers' # {}, NodeAhead'
    PROVE  EventsInTurns'
<1>1. CASE Good # {}
  <2>1. K = cursor'.hash
    BY <1>1
  <2>2. EventsOf(cursor.hash, Agreed)'
    BY <2>1 DEF EventsOf, Rises
  <2>3. HandOf(cursor.hash, Agreed)'
    BY <2>1 DEF HandOf, Rises
  <2>4. pc' # "reset_walker" => MapKnown(cursor.hash, Agreed)'
    BY <2>1 DEF MapKnown
  <2>5. QED BY <2>2, <2>3, <2>4 DEF EventsInTurns
<1>2. CASE Good = {}
  <2>2. EventsOf(cursor.hash, Agreed)'
    BY <1>2 DEF EventsOf
  <2>3. HandOf(cursor.hash, Agreed)'
    BY <1>2 DEF HandOf
  <2>4. pc' # "reset_walker" => MapKnown(cursor.hash, Agreed)'
    BY <1>2 DEF MapKnown
  <2>5. QED BY <2>2, <2>3, <2>4 DEF EventsInTurns
<1>3. QED BY <1>1, <1>2

\* Without followers there is nothing on record.
LEMMA NothingFollowed ==
    ASSUME followers' = {}, eventRows' = {}, diffCursor' = -1, ~seeded', walkPc' = "idle",
           cursor'.height \in Heights \cup {-1}
    PROVE  EventsInTurns'
<1>1. WalkPlace'
  BY DEF WalkPlace, BetweenWalks, Batching
<1>2. Walked' = -1
  BY DEF Walked, BetweenWalks
<1>3. Agreed' \subseteq Int
  BY HeightsAreIntegers DEF Agreed
<1>4. EventsOf(cursor.hash, Agreed)'
  BY <1>2, <1>3 DEF EventsOf
<1>5. HandOf(cursor.hash, Agreed)' /\ MapKnown(cursor.hash, Agreed)'
  BY DEF HandOf, MapKnown
<1>6. QED BY <1>1, <1>4, <1>5, HeightsAreIntegers DEF EventsInTurns

\* Between passes of the indexer it is all of the walk.
LEMMA IdleWalk ==
    ASSUME EventsInTurns, pc = "idle",
           NEW K, EventsOf(K, Agreed), HandOf(K, Agreed), MapKnown(K, Agreed)
    PROVE  WalkOf(K, Agreed)
BY DEF EventsInTurns, WalkOf, RecordIndexed, EventsUncut, DiffCursorUncut, RoundsUncut,
       CommitmentsUncut, EpochsUncut, TxsUncut, BlocksUncut

\* What is of one chain is of another at the heights where they are the same.
LEMMA OtherChain ==
    ASSUME ServicesInv, NEW K, NEW L, NEW Good \in SUBSET Heights, NEW Fewer \in SUBSET Good,
           \A h \in Fewer : \A k \in Heights : k <= h => ancestor[L][k] = ancestor[K][k],
           EventsOf(K, Good), HandOf(K, Good)
    PROVE  /\ EventsOf(L, Fewer) /\ HandOf(L, Fewer)
           /\ MapKnown(K, Good) => MapKnown(L, Fewer)
<1>0. Heights \subseteq Int /\ Fewer \subseteq Heights
  BY HeightsAreIntegers
<1>1. \A h \in Fewer : ancestor[L][h] = ancestor[K][h]
  BY <1>0
<1>2. ASSUME NEW h \in Fewer, 2 <= h PROVE Rises(L, h) = Rises(K, h)
  <2>1. h - 1 \in Heights /\ h - 1 <= h
    BY <1>0, <1>2, TreeAssumption DEF Heights
  <2>2. QED BY <1>1, <2>1 DEF Rises
<1>3. EventsOf(L, Fewer)
  BY <1>2 DEF EventsOf
<1>4. HandOf(L, Fewer)
  <2>1. ASSUME walkPc = "write", walkAt + 1 \in Fewer PROVE changes = Rises(L, walkAt + 1)
    <3>1. changes = Rises(K, walkAt + 1)
      BY <2>1 DEF HandOf
    <3>2. 2 <= walkAt + 1
      <4>1. 1 <= walkAt /\ walkAt \in Heights
        BY <2>1 DEF ServicesInv, WalkInv, ServicesTypeOK, WalkerTypeOK
      <4>2. walkAt \in Int
        BY <1>0, <4>1
      <4>3. QED BY <4>1, <4>2
    <3>3. QED BY <1>2, <2>1, <3>1, <3>2
  <2>2. QED BY <1>1, <2>1 DEF HandOf
<1>5. MapKnown(K, Good) => MapKnown(L, Fewer)
  BY <1>1 DEF MapKnown
<1>6. QED BY <1>3, <1>4, <1>5

\* A walk, in turns.
LEMMA WalkInTurns ==
    ASSUME ServicesInv, IndexInTurns, EventsInTurns, pc = "idle", WalkerStep
    PROVE  EventsInTurns'
<1>1. /\ WalkNext /\ UNCHANGED cursor /\ UNCHANGED best /\ UNCHANGED pc /\ UNCHANGED followers
      /\ "walker" \in followers
  BY DEF WalkerStep, indexerVars, WalkNext, WalkBegins, ReadDiffCursor, AskSeed, TakeSeed,
         LookUp, AskDiff, TakeDiff, WriteEvents, AfterWrite, SaveDiffCursor, walkerReads,
         nodeVars
<1>2. PICK K \in Blocks :
        /\ cursor.height >= 0 => K = cursor.hash /\ heightOf[K] = cursor.height
        /\ PartOf(K, Agreed) /\ EventsOf(K, Agreed) /\ HandOf(K, Agreed)
        /\ pc # "reset_walker" => MapKnown(K, Agreed)
  BY EventsOpen
<1>3. PICK Good \in SUBSET Heights : Good = Agreed
  BY DEF Agreed
<1>4. WalkOf(K, Good)'
  <2>1. WalkOf(K, Agreed)
    BY <1>2, IdleWalk
  <2>2. QED BY <1>1, <1>2, <1>3, <2>1, WalkFollows
<1>5. Agreed' = Good /\ (Good # {} => K = cursor'.hash)
  <2>1. Agreed' = Agreed
    BY <1>1 DEF Agreed
  <2>2. Good # {} => cursor.height >= 0
    BY <1>3, HeightsAreIntegers DEF Agreed, ServicesInv, IInv, TypeOK, StoreTypeOK
  <2>3. QED BY <1>1, <1>2, <1>3, <2>1, <2>2
<1>6. /\ WalkPlace' /\ EventsOf(K, Good)' /\ HandOf(K, Good)' /\ MapKnown(K, Good)'
      /\ \A e \in eventRows' : e.height <= cursor'.height
      /\ diffCursor' <= cursor'.height
  BY <1>4 DEF WalkOf, RecordIndexed
<1>7. NodeAhead'
  BY <1>1, <1>3, <1>5 DEF EventsInTurns, NodeAhead
<1>8. QED BY <1>1, <1>5, <1>6, <1>7, EventsClose

\* A crash ends the walk and clears its map.
LEMMA CrashInTurns ==
    ASSUME ServicesInv, IndexInTurns, EventsInTurns, pc = "idle", ProcessCrash
    PROVE  EventsInTurns'
<1>1. /\ WalkerForgets /\ ~seeded' /\ pc' = "idle" /\ walkPc' = "idle"
      /\ UNCHANGED cursor /\ UNCHANGED best /\ UNCHANGED followers
      /\ UNCHANGED eventRows /\ UNCHANGED diffCursor
  BY DEF ProcessCrash, Forget, WalkerForgets, nodeVars
<1>2. PICK K \in Blocks :
        /\ cursor.height >= 0 => K = cursor.hash /\ heightOf[K] = cursor.height
        /\ PartOf(K, Agreed) /\ EventsOf(K, Agreed) /\ HandOf(K, Agreed)
        /\ pc # "reset_walker" => MapKnown(K, Agreed)
  BY EventsOpen
<1>3. PICK Good \in SUBSET Heights : Good = Agreed
  BY DEF Agreed
<1>4. WalkOf(K, Good)'
  <2>1. WalkOf(K, Agreed)
    BY <1>2, IdleWalk
  <2>2. QED BY <1>1, <1>3, <2>1, WalkRests
<1>5. Agreed' = Good /\ (Good # {} => K = cursor'.hash)
  <2>1. Agreed' = Agreed
    BY <1>1 DEF Agreed
  <2>2. Good # {} => cursor.height >= 0
    BY <1>3, HeightsAreIntegers DEF Agreed, ServicesInv, IInv, TypeOK, StoreTypeOK
  <2>3. QED BY <1>1, <1>2, <1>3, <2>1, <2>2
<1>6. /\ WalkPlace' /\ EventsOf(K, Good)' /\ HandOf(K, Good)' /\ MapKnown(K, Good)'
      /\ \A e \in eventRows' : e.height <= cursor'.height
      /\ diffCursor' <= cursor'.height
  BY <1>4 DEF WalkOf, RecordIndexed
<1>7. CASE followers # {}
  <2>1. NodeAhead'
    BY <1>1, <1>3, <1>5, <1>7 DEF EventsInTurns, NodeAhead
  <2>2. QED BY <1>1, <1>5, <1>6, <1>7, <2>1, EventsClose
<1>8. CASE followers = {}
  BY <1>1, <1>8, NothingFollowed DEF EventsInTurns, ServicesInv, IInv, TypeOK, StoreTypeOK
<1>9. QED BY <1>7, <1>8

\* What the node leaves of the indexed chain it leaves for the winning one, so
\* it never comes back to what it has left.
LEMMA NodeInTurns ==
    ASSUME OneWinner, ServicesInv, IndexInTurns, EventsInTurns, pc = "idle",
           followers # {}, NodeStep(NodeSettles)
    PROVE  EventsInTurns'
<1>1. /\ UNCHANGED cursor /\ UNCHANGED pc /\ UNCHANGED followers
      /\ UNCHANGED eventRows /\ UNCHANGED diffCursor
      /\ UNCHANGED walkerVars /\ UNCHANGED walkerMemory
      /\ NodeSettles \/ best' = best
  BY DEF NodeStep, NodeToggles, sharedRest, indexerVars
<1>2. PICK K \in Blocks :
        /\ cursor.height >= 0 => K = cursor.hash /\ heightOf[K] = cursor.height
        /\ PartOf(K, Agreed) /\ EventsOf(K, Agreed) /\ HandOf(K, Agreed)
        /\ pc # "reset_walker" => MapKnown(K, Agreed)
  BY EventsOpen
<1>3. /\ best \in Blocks /\ best' \in Blocks /\ Heights \subseteq Int
      /\ heightOf[best] \in Int /\ heightOf[best'] \in Int /\ cursor.height \in Int
      /\ heightOf[best] \in Heights
      /\ heightOf[best'] \in Heights
      /\ cursor.height <= heightOf[best]
  BY <1>1, HeightsAreIntegers, TreeAssumption
  DEF ServicesInv, IInv, TypeOK, StoreTypeOK, NodeSettles, NodeGrows, NodeMoves,
      EventsInTurns, NodeAhead
<1>4. heightOf[best'] >= heightOf[best]
  BY <1>1, <1>3 DEF NodeSettles, NodeGrows
<1>5. ASSUME NEW h \in Heights, h <= cursor.height, h \notin Agreed
      PROVE  ancestor[best'][h] = ancestor[best][h] /\ Wins(ancestor[best][h])
  <2>1. Wins(ancestor[best][h]) /\ h <= heightOf[best]
    BY <1>3, <1>5 DEF EventsInTurns, NodeAhead
  <2>2. heightOf[ancestor[best][h]] = h
    BY <1>3, <2>1, ChainBelow
  <2>3. PICK w \in Blocks : heightOf[w] = MaxHeight /\ ancestor[w][h] = ancestor[best][h]
    BY <2>1, <2>2 DEF Wins
  <2>4. CASE best' = best
    BY <2>1, <2>4
  <2>5. CASE NodeSettles /\ Wins(best')
    <3>1. PICK v \in Blocks : heightOf[v] = MaxHeight /\ ancestor[v][heightOf[best']] = best'
      BY <2>5 DEF Wins
    <3>2. v = w
      BY <2>3, <3>1 DEF OneWinner
    <3>3. heightOf[best'] <= heightOf[v] /\ h <= heightOf[best']
      BY <1>3, <1>4, <2>1, <3>1, TreeAssumption DEF Heights
    <3>4. ancestor[best'][h] = ancestor[v][h]
      BY <1>3, <3>1, <3>3, ChainBelow
    <3>5. QED BY <2>1, <2>3, <3>2, <3>4
  <2>6. CASE ancestor[best'][heightOf[best]] = best
    <3>1. ancestor[best][h] = ancestor[best'][h]
      BY <1>3, <1>4, <2>1, <2>6, ChainBelow
    <3>2. QED BY <2>1, <3>1
  <2>7. QED BY <1>1, <2>4, <2>5, <2>6 DEF NodeSettles
<1>6. PICK Good \in SUBSET Heights : Good = Agreed'
  BY DEF Agreed
<1>7. Good \subseteq Agreed
  <2>1. SUFFICES ASSUME NEW h \in Good, h \notin Agreed PROVE FALSE
    OBVIOUS
  <2>2. h \in Heights /\ h <= cursor.height /\ ancestor[best'][h] = ancestor[cursor.hash][h]
    BY <1>1, <1>6, <2>1 DEF Agreed
  <2>3. ancestor[best][h] = ancestor[cursor.hash][h] /\ h <= heightOf[best]
    BY <1>3, <1>5, <2>1, <2>2
  <2>4. QED BY <2>1, <2>2, <2>3 DEF Agreed
<1>8. EventsOf(K, Good) /\ HandOf(K, Good) /\ MapKnown(K, Good)
  <2>1. Agreed \in SUBSET Heights /\ Good \in SUBSET Agreed /\ pc # "reset_walker"
    BY <1>7 DEF Agreed
  <2>2. QED BY <1>2, <2>1, OtherChain
<1>9. /\ EventsOf(K, Good)' /\ HandOf(K, Good)' /\ MapKnown(K, Good)' /\ WalkPlace'
  <2>1. /\ UNCHANGED <<walkPc, walkTarget, walkAt, walkLast, answered, changes>>
        /\ UNCHANGED <<seeded, penalties, overtaken, eventRows, diffCursor, cursor>>
    BY <1>1 DEF walkerVars, walkerMemory
  <2>2. Walked' = Walked /\ MapHeight' = MapHeight
    BY <2>1 DEF Walked, MapHeight
  <2>3. WalkPlace'
    BY <2>1 DEF EventsInTurns, WalkPlace
  <2>4. EventsOf(K, Good)' /\ HandOf(K, Good)' /\ MapKnown(K, Good)'
    BY <1>8, <2>1, <2>2 DEF EventsOf, HandOf, MapKnown, Rises
  <2>5. QED BY <2>3, <2>4
<1>10. NodeAhead'
  <2>1. cursor'.height <= heightOf[best']
    BY <1>1, <1>3, <1>4
  <2>2. ASSUME NEW h \in Heights, h <= cursor.height, h \notin Good
        PROVE  Wins(ancestor[best'][h])
    <3>1. CASE h \notin Agreed
      BY <1>5, <2>2, <3>1
    <3>2. CASE h \in Agreed
      <4>1. h <= heightOf[best] /\ ancestor[best][h] = ancestor[cursor.hash][h]
        BY <3>2 DEF Agreed
      <4>2. ancestor[best'][h] # ancestor[cursor.hash][h]
        BY <1>1, <1>3, <1>4, <1>6, <2>2, <4>1 DEF Agreed
      <4>3. NodeSettles /\ ancestor[best'][heightOf[best]] # best
        <5>1. best' # best
          BY <4>1, <4>2
        <5>2. ASSUME ancestor[best'][heightOf[best]] = best PROVE FALSE
          BY <1>3, <1>4, <4>1, <4>2, <5>2, ChainBelow
        <5>3. QED BY <1>1, <5>1, <5>2
      <4>4. PICK v \in Blocks : heightOf[v] = MaxHeight /\ ancestor[v][heightOf[best']] = best'
        BY <4>3 DEF NodeSettles, Wins
      <4>5. heightOf[best'] <= heightOf[v] /\ h <= heightOf[best']
        BY <1>3, <1>4, <4>1, <4>4, TreeAssumption DEF Heights
      <4>6. ancestor[best'][h] = ancestor[v][h] /\ heightOf[ancestor[best'][h]] = h
        BY <1>3, <4>4, <4>5, ChainBelow
      <4>7. QED BY <4>4, <4>6 DEF Wins
    <3>3. QED BY <3>1, <3>2
  <2>3. QED BY <1>1, <1>6, <2>1, <2>2 DEF NodeAhead
<1>11. Good # {} => K = cursor'.hash
  <2>1. \A h \in Good : h \in Heights /\ h <= cursor.height
    BY <1>1, <1>6 DEF Agreed
  <2>2. \A h \in Heights : 0 <= h
    BY DEF Heights
  <2>3. Good # {} => cursor.height >= 0
    <3>1. SUFFICES ASSUME NEW h \in Good PROVE cursor.height >= 0
      OBVIOUS
    <3>2. 0 <= h /\ h <= cursor.height /\ h \in Int /\ cursor.height \in Int
      BY <1>3, <2>1, <2>2
    <3>3. QED BY <3>2
  <2>4. QED BY <1>1, <1>2, <2>3
<1>12. /\ \A e \in eventRows' : e.height <= cursor'.height
       /\ diffCursor' <= cursor'.height
  BY <1>1
  DEF EventsInTurns, EventsUncut, DiffCursorUncut, RoundsUncut, CommitmentsUncut,
      EpochsUncut, TxsUncut, BlocksUncut
<1>13. QED
  BY <1>1, <1>6, <1>9, <1>10, <1>11, <1>12, EventsClose

\* The indexer while no walk is in flight: what is left of the record is of what
\* is left of the chain.
LEMMA RecordLeft ==
    ASSUME ServicesInv, walkPc = "idle", walkPc' = "idle",
           NEW K \in Blocks, NEW L \in Blocks, NEW Good \in SUBSET Heights,
           NEW Left \in SUBSET Heights, EventsOf(K, Good),
           eventRows' \subseteq eventRows, diffCursor' \in Int, diffCursor' <= diffCursor,
           \A e \in eventRows : e.height \in Left => e.height \in Good /\ e \in eventRows',
           \A h \in Left : h <= diffCursor' => h \in Good,
           \A h \in Left : h \in Good =>
               \A k \in Heights : k <= h => ancestor[L][k] = ancestor[K][k]
    PROVE  EventsOf(L, Left)' /\ HandOf(L, Left)' /\ WalkPlace'
<1>0. /\ diffCursor \in Int /\ Heights \subseteq Int
      /\ eventRows \subseteq [mn: Masternodes, height: Heights]
      /\ \A h \in Heights : 0 <= h
  BY HeightsAreIntegers DEF ServicesInv, IInv, TypeOK, StoreTypeOK, Heights
<1>1. Walked = diffCursor /\ Walked' = diffCursor'
  BY DEF Walked, BetweenWalks
<1>2. ASSUME NEW h \in Left, h \in Good, 2 <= h PROVE Rises(L, h) = Rises(K, h)
  <2>1. h \in Heights /\ h - 1 \in Heights /\ h - 1 <= h /\ h <= h
    BY <1>0, <1>2, TreeAssumption DEF Heights
  <2>2. ancestor[L][h] = ancestor[K][h] /\ ancestor[L][h - 1] = ancestor[K][h - 1]
    BY <1>2, <2>1
  <2>3. QED BY <2>2 DEF Rises
<1>3. ASSUME NEW e \in eventRows', e.height \in Left
      PROVE  e.height >= 2 /\ e.mn \in Rises(L, e.height)
  <2>1. e \in eventRows /\ e.height \in Good
    BY <1>3
  <2>2. e.height >= 2 /\ e.mn \in Rises(K, e.height)
    BY <2>1 DEF EventsOf
  <2>3. 2 <= e.height
    BY <1>0, <2>1, <2>2
  <2>4. QED BY <1>2, <1>3, <2>1, <2>2, <2>3
<1>4. ASSUME NEW h \in Left, 2 <= h, h <= diffCursor', NEW m \in Rises(L, h)
      PROVE  [mn |-> m, height |-> h] \in eventRows'
  <2>1. h \in Good /\ h \in Int
    BY <1>0, <1>4
  <2>2. m \in Rises(K, h) /\ h <= Walked
    BY <1>0, <1>1, <1>2, <1>4, <2>1
  <2>3. [mn |-> m, height |-> h] \in eventRows
    BY <1>4, <2>1, <2>2 DEF EventsOf
  <2>4. [mn |-> m, height |-> h].height = h
    OBVIOUS
  <2>5. QED BY <1>4, <2>3, <2>4
<1>5. EventsOf(L, Left)'
  BY <1>1, <1>3, <1>4 DEF EventsOf, Rises
<1>6. HandOf(L, Left)' /\ WalkPlace'
  BY DEF HandOf, WalkPlace, BetweenWalks, Batching
<1>7. QED BY <1>5, <1>6

\* A map that is kept stays that of the chain.
LEMMA MapLeft ==
    ASSUME walkPc = "idle", walkPc' = "idle", diffCursor \in Int,
           NEW K \in Blocks, NEW L \in Blocks, NEW Good \in SUBSET Heights,
           NEW Left \in SUBSET Heights, MapKnown(K, Good),
           UNCHANGED <<seeded, penalties, diffCursor>>,
           diffCursor \in Left => /\ diffCursor \in Good
                                  /\ ancestor[L][diffCursor] = ancestor[K][diffCursor]
    PROVE  MapKnown(L, Left)'
<1>1. CASE ~seeded'
  BY <1>1 DEF MapKnown
<1>2. CASE seeded'
  <2>1. walkPc \in BetweenWalks /\ walkPc' \in BetweenWalks /\ seeded
    BY <1>2 DEF BetweenWalks
  <2>2. diffCursor >= 1 /\ (MapHeight \in Good => MapOf(penalties, ancestor[K][MapHeight]))
    BY <2>1 DEF MapKnown
  <2>3. MapHeight = diffCursor /\ MapHeight' = diffCursor
    BY <2>1, <2>2 DEF MapHeight
  <2>4. diffCursor \in Left => MapOf(penalties', ancestor[L][diffCursor])
    BY <2>2, <2>3
  <2>5. QED BY <2>1, <2>2, <2>3, <2>4 DEF MapKnown
<1>3. QED BY <1>1, <1>2

\* What the steps of the indexer that neither move its cursor nor touch the
\* walker's state leave alone.
LEMMA IndexerKeepsRecord ==
    ASSUME IndexerStep, ~MoveCursor, ~DropEvents, ~LowerDiffCursor, ~ResetWalker, ~SaveProgress
    PROVE  /\ UNCHANGED cursor /\ UNCHANGED eventRows /\ UNCHANGED diffCursor
           /\ UNCHANGED seeded /\ UNCHANGED penalties
           /\ pc \in EventsUncut => pc' \in EventsUncut
           /\ pc \in DiffCursorUncut => pc' \in DiffCursorUncut
           /\ pc # "reset_walker"
<1>1. /\ UNCHANGED cursor /\ UNCHANGED eventRows /\ UNCHANGED diffCursor
      /\ UNCHANGED seeded /\ UNCHANGED penalties
  BY DEF IndexerStep, Tick, TickFails, TickBegins, TickChecks, Walk, Resume, Rewind,
         IndexBlock, Abandon, DropBlocks, DropTransactions, DropEpochs,
         DropCommitments, ClearSuccessor, ResetRounds, FetchHash, FetchBlock,
         WriteCommitments, WriteEpoch, WriteTransactions, UpsertBlock, LinkBlock,
         ConfirmRewind, OperatorConfirms, Inspect, Probe, sharedRest, walkerMemory
<1>2. /\ pc \in DiffCursorUncut =>
           \/ DropBlocks \/ DropTransactions \/ DropEpochs \/ DropCommitments
           \/ ResetRounds \/ ClearSuccessor
      /\ pc # "reset_walker"
  BY DEF IndexerStep, Tick, TickFails, TickBegins, TickChecks, Walk, Resume, Rewind,
         IndexBlock, FetchHash, FetchBlock, WriteCommitments,
         WriteEpoch, WriteTransactions, UpsertBlock, LinkBlock, MoveCursor, DropEvents,
         LowerDiffCursor, ResetWalker, SaveProgress, DropBlocks, DropTransactions, DropEpochs,
         DropCommitments, ResetRounds, ClearSuccessor,
         ConfirmRewind, OperatorConfirms, Inspect, Probe, DiffCursorUncut, EventsUncut,
         RoundsUncut, CommitmentsUncut, EpochsUncut, TxsUncut, BlocksUncut
<1>3. pc \in DiffCursorUncut => pc' \in EventsUncut
  BY <1>2
  DEF DropBlocks, DropTransactions, DropEpochs, DropCommitments, ResetRounds, ClearSuccessor,
      Goto, EventsUncut, RoundsUncut, CommitmentsUncut, EpochsUncut, TxsUncut, BlocksUncut
<1>4. QED BY <1>1, <1>2, <1>3 DEF DiffCursorUncut

\* A pass of the indexer: a rewind leaves of the record what is of the chain
\* that is left, and a batch adds heights of which nothing is recorded yet.
LEMMA PassInTurns ==
    ASSUME ServicesInv, IndexInTurns, EventsInTurns, walkPc = "idle", IndexerStep
    PROVE  EventsInTurns'
<1>0. /\ best \in Blocks /\ heightOf[best] \in Int /\ heightOf[best] \in Heights
      /\ cursor.height \in Heights \cup {-1} /\ cursor.height \in Int
      /\ diffCursor \in Int /\ diffCursor \in Heights \cup {-1} /\ Heights \subseteq Int
      /\ eventRows \subseteq [mn: Masternodes, height: Heights]
      /\ \A h \in Heights : 0 <= h
      /\ at \in Int /\ TurnInv
  BY TurnTypes, HeightsAreIntegers
  DEF ServicesInv, TurnInv, IInv, TypeOK, StoreTypeOK, Heights
<1>1. /\ UNCHANGED best /\ UNCHANGED followers /\ walkPc' = "idle"
  BY DEF IndexerStep, walkerVars, Tick, TickFails, TickBegins, TickChecks, Walk, Resume, Rewind,
         IndexBlock, MoveCursor, DropBlocks, DropTransactions, DropEpochs,
         DropCommitments, ClearSuccessor, ResetRounds, DropEvents, LowerDiffCursor, ResetWalker,
         FetchHash, FetchBlock, WriteCommitments, WriteEpoch, WriteTransactions, UpsertBlock,
         LinkBlock, SaveProgress, ConfirmRewind, OperatorConfirms, Inspect, Probe, nodeVars
<1>t. cursor'.height \in Heights \cup {-1}
  BY IndexerKeepsFollowers DEF ServicesInv, IInv, TypeOK, StoreTypeOK
<1>2. PICK K \in Blocks :
        /\ cursor.height >= 0 => K = cursor.hash /\ heightOf[K] = cursor.height
        /\ PartOf(K, Agreed) /\ EventsOf(K, Agreed) /\ HandOf(K, Agreed)
        /\ pc # "reset_walker" => MapKnown(K, Agreed)
  BY EventsOpen
<1>3. PICK Good \in SUBSET Heights : Good = Agreed
  BY DEF Agreed
<1>g. /\ \A h \in Good : h <= cursor.height
      /\ Good # {} => K = cursor.hash
  <2>1. \A h \in Good : h <= cursor.height
    BY <1>3 DEF Agreed
  <2>2. ASSUME NEW h \in Good PROVE cursor.height >= 0
    <3>1. h \in Int /\ 0 <= h /\ h <= cursor.height
      BY <1>0, <2>1
    <3>2. QED BY <1>0, <3>1
  <2>3. QED BY <1>2, <2>1, <2>2
<1>4. \A h \in Good : \A k \in Heights : k <= h => ancestor[K][k] = ancestor[K][k]
  OBVIOUS
<1>5. CASE followers = {}
  <2>1. eventRows = {} /\ diffCursor = -1 /\ ~seeded
    BY <1>5 DEF EventsInTurns
  <2>2. eventRows' = {}
    <3>1. CASE DropEvents
      BY <2>1, <3>1 DEF DropEvents
    <3>2. CASE LowerDiffCursor \/ ResetWalker \/ MoveCursor \/ SaveProgress
      BY <2>1, <3>2 DEF LowerDiffCursor, ResetWalker, MoveCursor, SaveProgress, sharedRest
    <3>3. QED BY <2>1, <3>1, <3>2, IndexerKeepsRecord
  <2>3. diffCursor' = -1
    <3>1. CASE LowerDiffCursor
      <4>1. at \in Heights
        BY <3>1 DEF LowerDiffCursor, ServicesInv, IInv, TypeOK, RewindStages
      <4>2. ~(diffCursor > at)
        BY <1>0, <2>1, <4>1
      <4>3. QED BY <2>1, <3>1, <4>2 DEF LowerDiffCursor
    <3>2. CASE DropEvents \/ ResetWalker \/ MoveCursor \/ SaveProgress
      BY <2>1, <3>2 DEF DropEvents, ResetWalker, MoveCursor, SaveProgress, sharedRest
    <3>3. QED BY <2>1, <3>1, <3>2, IndexerKeepsRecord
  <2>4. ~seeded'
    <3>2. CASE DropEvents \/ ResetWalker \/ MoveCursor \/ SaveProgress \/ LowerDiffCursor
      BY <2>1, <3>2
      DEF DropEvents, ResetWalker, MoveCursor, SaveProgress, LowerDiffCursor, sharedRest,
          walkerMemory
    <3>3. QED BY <2>1, <3>2, IndexerKeepsRecord
  <2>5. QED BY <1>1, <1>5, <1>t, <2>2, <2>3, <2>4, NothingFollowed
<1> DEFINE Known ==
      pc # "reset_walker" => MapKnown(K, Good)
<1>6. CASE followers # {} /\ ~MoveCursor /\ ~DropEvents /\ ~LowerDiffCursor /\ ~ResetWalker
           /\ ~SaveProgress
  <2>1. /\ UNCHANGED cursor /\ UNCHANGED eventRows /\ UNCHANGED diffCursor
        /\ UNCHANGED seeded /\ UNCHANGED penalties
        /\ pc \in EventsUncut => pc' \in EventsUncut
        /\ pc \in DiffCursorUncut => pc' \in DiffCursorUncut
        /\ pc # "reset_walker"
    BY <1>6, IndexerKeepsRecord
  <2>2. Agreed' = Good
    BY <1>1, <1>3, <2>1 DEF Agreed
  <2>3. EventsOf(K, Good)' /\ HandOf(K, Good)' /\ WalkPlace'
    BY <1>0, <1>1, <1>2, <1>3, <1>4, <2>1, RecordLeft
  <2>4. MapKnown(K, Good)'
    BY <1>0, <1>1, <1>2, <1>3, <2>1, MapLeft
  <2>5. NodeAhead'
    BY <1>1, <1>3, <1>6, <2>1, <2>2 DEF EventsInTurns, NodeAhead
  <2>6. /\ pc' \notin EventsUncut => \A e \in eventRows' : e.height <= cursor'.height
        /\ pc' \notin DiffCursorUncut => diffCursor' <= cursor'.height
    BY <2>1 DEF EventsInTurns
  <2>7. QED BY <1>1, <1>g, <1>6, <2>1, <2>2, <2>3, <2>4, <2>5, <2>6, EventsClose
<1>7. CASE followers # {} /\ DropEvents
  <2>1. /\ UNCHANGED cursor /\ UNCHANGED diffCursor /\ UNCHANGED seeded /\ UNCHANGED penalties
        /\ eventRows' = {e \in eventRows : e.height <= at}
        /\ pc # "reset_walker" /\ pc' \in DiffCursorUncut
    BY <1>7 DEF DropEvents, walkerMemory, Goto, DiffCursorUncut
  <2>2. at = cursor.height
    BY <1>7 DEF DropEvents, ServicesInv, IInv, PassInv, RewindStages
  <2>3. Agreed' = Good
    BY <1>1, <1>3, <2>1 DEF Agreed
  <2>4. EventsOf(K, Good)' /\ HandOf(K, Good)' /\ WalkPlace'
    <3>1. /\ eventRows' \subseteq eventRows
          /\ \A e \in eventRows : e.height \in Good => e \in eventRows'
      BY <1>g, <2>1, <2>2
    <3>2. QED BY <1>0, <1>1, <1>2, <1>3, <1>4, <2>1, <3>1, RecordLeft
  <2>5. MapKnown(K, Good)'
    BY <1>0, <1>1, <1>2, <1>3, <2>1, MapLeft
  <2>6. NodeAhead'
    BY <1>1, <1>3, <1>7, <2>1, <2>3 DEF EventsInTurns, NodeAhead
  <2>7. \A e \in eventRows' : e.height <= cursor'.height
    BY <2>1, <2>2
  <2>8. QED BY <1>1, <1>g, <1>7, <2>1, <2>3, <2>4, <2>5, <2>6, <2>7, EventsClose
<1>8. CASE followers # {} /\ LowerDiffCursor
  <2>1. /\ UNCHANGED cursor /\ UNCHANGED eventRows /\ pc = "lower_diff_cursor"
        /\ diffCursor' = IF diffCursor > at THEN at ELSE diffCursor
        /\ pc' = "reset_walker" /\ at = cursor.height
        /\ pc \notin EventsUncut
    BY <1>8
    DEF LowerDiffCursor, Goto, ServicesInv, IInv, PassInv, RewindStages, EventsUncut, RoundsUncut,
        CommitmentsUncut, EpochsUncut, TxsUncut, BlocksUncut
  <2>2. diffCursor' \in Int /\ diffCursor' <= diffCursor /\ diffCursor' <= cursor.height
    BY <1>0, <2>1
  <2>3. Agreed' = Good
    BY <1>1, <1>3, <2>1 DEF Agreed
  <2>4. EventsOf(K, Good)' /\ HandOf(K, Good)' /\ WalkPlace'
    BY <1>1, <1>2, <1>3, <1>4, <2>1, <2>2, RecordLeft
  <2>5. NodeAhead'
    BY <1>1, <1>3, <1>8, <2>1, <2>3 DEF EventsInTurns, NodeAhead
  <2>6. \A e \in eventRows' : e.height <= cursor'.height
    BY <2>1 DEF EventsInTurns
  <2>7. QED BY <1>1, <1>g, <1>8, <2>1, <2>2, <2>3, <2>4, <2>5, <2>6, EventsClose
<1>9. CASE followers # {} /\ ResetWalker
  <2>1. /\ UNCHANGED cursor /\ UNCHANGED eventRows /\ UNCHANGED diffCursor
        /\ pc = "reset_walker" /\ ~seeded'
        /\ pc \notin EventsUncut /\ pc \notin DiffCursorUncut
    BY <1>9
    DEF ResetWalker, DiffCursorUncut, EventsUncut, RoundsUncut, CommitmentsUncut, EpochsUncut,
        TxsUncut, BlocksUncut
  <2>2. Agreed' = Good
    BY <1>1, <1>3, <2>1 DEF Agreed
  <2>3. EventsOf(K, Good)' /\ HandOf(K, Good)' /\ WalkPlace'
    BY <1>0, <1>1, <1>2, <1>3, <1>4, <2>1, RecordLeft
  <2>4. MapKnown(K, Good)'
    BY <2>1 DEF MapKnown
  <2>5. NodeAhead'
    BY <1>1, <1>3, <1>9, <2>1, <2>2 DEF EventsInTurns, NodeAhead
  <2>6. (\A e \in eventRows' : e.height <= cursor'.height) /\ diffCursor' <= cursor'.height
    BY <2>1 DEF EventsInTurns
  <2>7. QED BY <1>1, <1>g, <1>9, <2>1, <2>2, <2>3, <2>4, <2>5, <2>6, EventsClose
<1>10. CASE followers # {} /\ MoveCursor
  <2>1. /\ cursor' = [height |-> at, hash |-> NodeHash(at)] /\ pc = "move_cursor"
        /\ UNCHANGED eventRows /\ UNCHANGED diffCursor /\ UNCHANGED seeded
        /\ UNCHANGED penalties /\ pc' \in EventsUncut /\ pc' \in DiffCursorUncut
    BY <1>10
    DEF MoveCursor, Goto, sharedRest, walkerMemory, DiffCursorUncut, EventsUncut, RoundsUncut,
        CommitmentsUncut, EpochsUncut, TxsUncut, BlocksUncut
  <2>2. /\ at <= cursor.height /\ 0 <= at /\ online
        /\ ancestor[cursor.hash][at] = ancestor[best][at]
    BY <2>1
    DEF ServicesInv, IInv, PassInv, IndexInTurns, PassOfOneChain, SearchInv
  <2>3. /\ cursor.hash \in Blocks /\ heightOf[cursor.hash] = cursor.height /\ K = cursor.hash
        /\ at \in Heights /\ at <= heightOf[best]
    BY <1>0, <1>2, <1>10, <2>1, <2>2, CursorBlock
    DEF EventsInTurns, NodeAhead, ServicesInv, IInv, TypeOK, RewindStages
  <2>4. PICK L \in Blocks : L = ancestor[best][at] /\ heightOf[L] = at
    BY <1>0, <2>3, ChainBelow
  <2>5. cursor'.height = at /\ cursor'.hash = L
    BY <2>1, <2>2, <2>4 DEF NodeHash
  <2>6. \A h \in Heights : h <= at =>
          ancestor[L][h] = ancestor[K][h] /\ ancestor[L][h] = ancestor[best][h]
    BY <1>0, <2>2, <2>3, <2>4, ChainBelow
  <2>7. PICK Left \in SUBSET Heights : Left = {h \in Heights : h <= at}
    OBVIOUS
  <2>8. Agreed' = Left
    <3>1. \A h \in Heights : h <= at => h <= heightOf[best]
      BY <1>0, <2>3
    <3>2. QED BY <1>1, <2>5, <2>6, <2>7, <3>1 DEF Agreed
  <2>9. \A h \in Left : h \in Good
    <3>1. ASSUME NEW h \in Heights, h <= at
          PROVE  h <= cursor.height /\ h <= heightOf[best]
      BY <1>0, <2>2, <2>3, <3>1
    <3>2. QED BY <1>3, <2>3, <2>6, <2>7, <3>1 DEF Agreed
  <2>10. \A h \in Left : \A k \in Heights : k <= h => ancestor[L][k] = ancestor[K][k]
    <3>1. ASSUME NEW h \in Left, NEW k \in Heights, k <= h PROVE k <= at
      BY <1>0, <2>7, <3>1
    <3>2. QED BY <2>6, <3>1
  <2>11. EventsOf(L, Left)' /\ HandOf(L, Left)' /\ WalkPlace'
    <3>1. /\ diffCursor' \in Int /\ diffCursor' <= diffCursor
          /\ \A e \in eventRows : e.height \in Left => e.height \in Good /\ e \in eventRows'
          /\ \A h \in Left : h <= diffCursor' => h \in Good
          /\ \A h \in Left : h \in Good =>
               \A k \in Heights : k <= h => ancestor[L][k] = ancestor[K][k]
          /\ EventsOf(K, Good) /\ eventRows' \subseteq eventRows
      <4>1. diffCursor' = diffCursor /\ eventRows' = eventRows
        BY <2>1
      <4>2. diffCursor' \in Int /\ diffCursor' <= diffCursor
        BY <1>0, <4>1
      <4>3. EventsOf(K, Good)
        BY <1>2, <1>3
      <4>4. QED BY <2>9, <2>10, <4>1, <4>2, <4>3
    <3>2. QED BY <1>1, <3>1, RecordLeft
  <2>12. MapKnown(L, Left)'
    <3>1. diffCursor \in Left => diffCursor \in Good /\ ancestor[L][diffCursor] = ancestor[K][diffCursor]
      BY <2>6, <2>7, <2>9
    <3>2. QED BY <1>0, <1>1, <1>2, <1>3, <2>1, <3>1, MapLeft
  <2>13. NodeAhead'
    BY <1>1, <2>3, <2>5, <2>7, <2>8 DEF NodeAhead
  <2>14. QED
    BY <1>1, <1>10, <2>1, <2>5, <2>8, <2>11, <2>12, <2>13, EventsClose
<1>11. CASE followers # {} /\ SaveProgress
  <2>1. /\ cursor' = [height |-> at, hash |-> expected] /\ pc = "progress"
        /\ UNCHANGED eventRows /\ UNCHANGED diffCursor /\ UNCHANGED seeded
        /\ UNCHANGED penalties /\ pc \in IndexStages /\ pc # "reset_walker"
    BY <1>11 DEF SaveProgress, sharedRest, walkerMemory, IndexStages
  <2>2. /\ at \in Heights /\ at <= heightOf[best] /\ expected = ancestor[best][at]
        /\ cursor.height < at
        /\ cursor.height >= 0 => ancestor[best][cursor.height] = cursor.hash
    BY <1>0, <2>1, BatchStands DEF IndexInTurns, PassOfOneChain
  <2>3. PICK L \in Blocks : L = ancestor[best][at] /\ heightOf[L] = at
    BY <1>0, <2>2, ChainBelow
  <2>4. cursor'.height = at /\ cursor'.hash = L
    BY <2>1, <2>2, <2>3
  <2>5. \A h \in Heights : h <= at => ancestor[L][h] = ancestor[best][h]
    BY <1>0, <2>2, <2>3, ChainBelow
  <2>6. ASSUME NEW h \in Heights, h <= cursor.height
        PROVE  h \in Good /\ h <= at /\ ancestor[K][h] = ancestor[best][h]
    <3>1. cursor.height >= 0 /\ cursor.height \in Heights /\ cursor.height <= heightOf[best]
          /\ h <= heightOf[best] /\ h <= at
      BY <1>0, <2>2, <2>6
    <3>2. K = cursor.hash /\ K = ancestor[best][cursor.height]
      BY <1>2, <2>2, <3>1
    <3>3. ancestor[K][h] = ancestor[best][h]
      BY <1>0, <2>6, <3>1, <3>2, ChainBelow
    <3>4. QED BY <1>3, <2>6, <3>1, <3>2, <3>3 DEF Agreed
  <2>7. PICK Left \in SUBSET Heights : Left = {h \in Heights : h <= at}
    OBVIOUS
  <2>8. Agreed' = Left
    <3>1. \A h \in Heights : h <= at => h <= heightOf[best]
      BY <1>0, <2>2
    <3>2. QED BY <1>1, <2>4, <2>5, <2>7, <3>1 DEF Agreed
  <2>9. \A h \in Left : h \in Good =>
          \A k \in Heights : k <= h => ancestor[L][k] = ancestor[K][k]
    <3>1. ASSUME NEW h \in Good, NEW k \in Heights, k <= h
          PROVE  k <= cursor.height
      BY <1>0, <1>g, <3>1
    <3>2. QED BY <2>5, <2>6, <3>1
  <2>10. /\ \A e \in eventRows : e.height <= cursor.height
         /\ diffCursor <= cursor.height
    BY <2>1
    DEF EventsInTurns, IndexStages, DiffCursorUncut, EventsUncut, RoundsUncut, CommitmentsUncut,
        EpochsUncut, TxsUncut, BlocksUncut
  <2>11. /\ \A e \in eventRows : e.height \in Left => e.height \in Good
         /\ \A h \in Left : h <= diffCursor => h \in Good
    <3>1. \A h \in Left : h <= diffCursor => h <= cursor.height
      BY <1>0, <2>10
    <3>2. QED BY <2>6, <2>10, <3>1
  <2>12. EventsOf(L, Left)' /\ HandOf(L, Left)' /\ WalkPlace'
    BY <1>0, <1>1, <1>2, <1>3, <2>1, <2>9, <2>11, RecordLeft
  <2>13. MapKnown(L, Left)'
    <3>1. diffCursor \in Left =>
            diffCursor \in Good /\ ancestor[L][diffCursor] = ancestor[K][diffCursor]
      BY <1>0, <2>9, <2>11
    <3>2. QED BY <1>0, <1>1, <1>2, <1>3, <2>1, <3>1, MapLeft
  <2>14. NodeAhead'
    BY <1>1, <2>2, <2>4, <2>7, <2>8 DEF NodeAhead
  <2>15. /\ \A e \in eventRows' : e.height <= cursor'.height
         /\ diffCursor' <= cursor'.height
    <3>1. \A e \in eventRows : e.height \in Int
      BY <1>0
    <3>2. QED BY <1>0, <2>1, <2>2, <2>4, <2>10, <3>1
  <2>16. QED
    BY <1>1, <1>11, <2>4, <2>8, <2>12, <2>13, <2>14, <2>15, EventsClose
<1>12. QED BY <1>5, <1>6, <1>7, <1>8, <1>9, <1>10, <1>11

\* What the events rest on, of every step.
LEMMA EventsStep ==
    ASSUME OneWinner, ServicesInv, IndexInTurns, EventsInTurns, [ServicesNext]_serviceVars
    PROVE  EventsInTurns'
<1>1. CASE pc = "idle" /\ WalkerStep
  BY <1>1, WalkInTurns
<1>2. CASE pc = "idle" /\ ProcessCrash
  BY <1>2, CrashInTurns
<1>3. CASE walkPc = "idle" /\ IndexerStep
  BY <1>3, PassInTurns
<1>4. CASE pc = "idle" /\ followers # {} /\ NodeStep(NodeSettles)
  BY <1>4, NodeInTurns
<1>5. CASE pc = "idle" /\ followers = {} /\ NodeStep(NodeMoves)
  <2>1. /\ UNCHANGED cursor /\ UNCHANGED followers /\ UNCHANGED eventRows
        /\ UNCHANGED diffCursor /\ UNCHANGED seeded /\ UNCHANGED walkPc
    BY <1>5 DEF NodeStep, sharedRest, walkerMemory, walkerVars
  <2>2. QED
    BY <1>5, <2>1, NothingFollowed DEF EventsInTurns, ServicesInv, IInv, TypeOK, StoreTypeOK
<1>6. CASE CollectorStep \/ UNCHANGED serviceVars
  <2>1. /\ UNCHANGED <<best, cursor, pc, followers, eventRows, diffCursor>>
        /\ UNCHANGED walkerVars /\ UNCHANGED <<seeded, penalties, overtaken>>
    BY <1>6
    DEF CollectorStep, CollectNext, CollectBegins, ObserveQuorums, CountMasternodes,
        RemovePlaceholders, PlanRounds, JudgeRound, LookUpMined, WriteFormed, StampResolved,
        RecomputeStreaks, collectorReads, serviceVars, vars, nodeVars, indexerVars, sharedRest,
        walkerMemory
  <2>2. QED
    BY <2>1
    DEF EventsInTurns, WalkPlace, EventsOf, HandOf, MapKnown, MapHeight, Walked, Agreed,
        NodeAhead, walkerVars
<1>7. \/ walkPc = "idle" /\ IndexerStep
      \/ pc = "idle" /\ WalkerStep
      \/ CollectorStep
      \/ pc = "idle" /\ ProcessCrash
      \/ pc = "idle" /\ followers # {} /\ NodeStep(NodeSettles)
      \/ pc = "idle" /\ followers = {} /\ NodeStep(NodeMoves)
      \/ UNCHANGED serviceVars
  <2>1. CASE pc = "idle" /\ NodeStep(IF followers = {} THEN NodeMoves
                                    ELSE NodeSettles /\ ShallowFork)
    BY <2>1 DEF NodeStep
  <2>2. QED BY <2>1 DEF ServicesNext
<1>8. QED BY <1>1, <1>2, <1>3, <1>4, <1>5, <1>6, <1>7

\* All that the events rest on.
THEOREM EventsFollowChain ==
    ASSUME OneWinner PROVE ServicesSpec => [](ServicesInv /\ IndexInTurns /\ EventsInTurns)
<1>1. ServicesInit({{}, Followers}) => EventsInTurns
  <2> SUFFICES ASSUME ServicesInit({{}, Followers}) PROVE EventsInTurns
    OBVIOUS
  <2>1. /\ walkPc = "idle" /\ ~seeded /\ eventRows = {} /\ diffCursor = -1
        /\ cursor.height = -1 /\ best \in Blocks /\ heightOf[best] = 0
    BY DEF ServicesInit, Init, StoreInit, WalkerMemoryInit, WalkerInit
  <2>2. Agreed = {} /\ \A h \in Heights : ~(h <= cursor.height)
    BY <2>1 DEF Agreed, Heights
  <2>3. QED
    BY <2>1, <2>2
    DEF EventsInTurns, WalkPlace, EventsOf, HandOf, MapKnown, NodeAhead, Walked, BetweenWalks,
        Batching
<1>2. ASSUME ServicesInv, IndexInTurns, EventsInTurns, [ServicesNext]_serviceVars
      PROVE  EventsInTurns'
  BY <1>2, EventsStep
<1>3. QED BY <1>1, <1>2, IndexFollowsChain, PTL DEF ServicesSpec

\* Between passes no event and no walk is above the index, and once the index
\* is at the node's tip the events up to the walker's cursor are the penalty
\* increases of that chain, none missing and none invented.
THEOREM EventsOnChain == ASSUME OneWinner PROVE ServicesSpec => []EventsAreTheChains
<1>1. ASSUME ServicesInv, IndexInTurns, EventsInTurns PROVE EventsAreTheChains
  <2>1. SUFFICES ASSUME AllIdle
                 PROVE  /\ diffCursor <= cursor.height
                        /\ \A e \in eventRows : e.height <= cursor.height
                        /\ Indexed(best) =>
                             {e \in eventRows : e.height <= diffCursor}
                               = Increases(best, diffCursor)
    BY DEF EventsAreTheChains
  <2>2. RecordIndexed
    BY <1>1, <2>1
    DEF AllIdle, EventsInTurns, RecordIndexed, DiffCursorUncut, EventsUncut, RoundsUncut,
        CommitmentsUncut, EpochsUncut, TxsUncut, BlocksUncut
  <2>3. SUFFICES ASSUME Indexed(best)
                 PROVE  {e \in eventRows : e.height <= diffCursor} = Increases(best, diffCursor)
    BY <2>2 DEF RecordIndexed
  <2>4. /\ cursor.height = heightOf[best] /\ cursor.hash = best /\ best \in Blocks
        /\ heightOf[best] \in Int /\ heightOf[best] \in Heights /\ diffCursor \in Int
        /\ eventRows \subseteq [mn: Masternodes, height: Heights] /\ Heights \subseteq Int
        /\ diffCursor <= heightOf[best]
    BY <1>1, <2>2, <2>3, HeightsAreIntegers, TreeAssumption
    DEF Indexed, ServicesInv, IInv, TypeOK, StoreTypeOK, RecordIndexed
  <2>5. \A h \in Heights : h <= heightOf[best] => h \in Agreed
    BY <2>4 DEF Agreed
  <2>6. Walked = diffCursor
    BY <2>1 DEF AllIdle, Walked, BetweenWalks
  <2>7. EventsOf(best, Agreed)
    BY <1>1, <2>4 DEF EventsInTurns
  <2>8. ASSUME NEW e \in eventRows, e.height <= diffCursor
        PROVE  e \in Increases(best, diffCursor)
    <3>1. e.height \in Heights /\ e.mn \in Masternodes /\ e = [mn |-> e.mn, height |-> e.height]
      BY <2>4
    <3>i. e.height \in Int /\ e.height <= heightOf[best]
      <4>1. e.height \in Int
        BY <2>4, <3>1
      <4>2. QED BY <2>4, <2>8, <4>1
    <3>2. e.height \in Agreed /\ e.height <= heightOf[best]
      BY <2>5, <3>i, <3>1
    <3>3. e.height >= 2 /\ e.mn \in Rises(best, e.height)
      BY <2>7, <3>2 DEF EventsOf
    <3>4. e \in [mn: Masternodes, height: 2..diffCursor]
      <4>1. e.height \in 2..diffCursor
        BY <2>4, <2>8, <3>3, <3>i
      <4>2. QED BY <3>1, <4>1
    <3>5. QED BY <3>2, <3>3, <3>4 DEF Increases, Rises
  <2>9. ASSUME NEW e \in Increases(best, diffCursor)
        PROVE  e \in eventRows /\ e.height <= diffCursor
    <3>1. /\ e.mn \in Masternodes /\ e.height \in 2..diffCursor
          /\ e = [mn |-> e.mn, height |-> e.height]
          /\ e.mn \in Rises(best, e.height)
      <4>1. /\ e \in [mn: Masternodes, height: 2..diffCursor]
            /\ penaltyOf[ancestor[best][e.height]][e.mn]
                 > penaltyOf[ancestor[best][e.height - 1]][e.mn]
        BY DEF Increases
      <4>2. e.mn \in Masternodes /\ e.height \in 2..diffCursor
            /\ e = [mn |-> e.mn, height |-> e.height]
        BY <4>1
      <4>3. QED BY <4>1, <4>2 DEF Rises
    <3>2. e.height \in Heights /\ 2 <= e.height /\ e.height <= diffCursor
          /\ e.height <= heightOf[best]
      <4>1. e.height \in Int /\ 2 <= e.height /\ e.height <= diffCursor
        BY <2>4, <3>1
      <4>2. MaxHeight \in Int /\ heightOf[best] <= MaxHeight
        BY <2>4, TreeAssumption DEF Heights
      <4>3. e.height <= heightOf[best] /\ e.height \in 0..MaxHeight
        BY <2>4, <4>1, <4>2
      <4>4. QED BY <4>1, <4>3 DEF Heights
    <3>3. [mn |-> e.mn, height |-> e.height] \in eventRows
      BY <2>5, <2>6, <2>7, <3>1, <3>2 DEF EventsOf
    <3>4. QED BY <3>1, <3>2, <3>3
  <2>10. QED BY <2>8, <2>9
<1>2. QED BY <1>1, EventsFollowChain, PTL
=============================================================================
