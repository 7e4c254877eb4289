------------------------ MODULE ChainServicesProofs ------------------------
(***************************************************************************)
(* Proofs about the three chain services in their one process, for every   *)
(* block tree, schedule and bound.  The invariant of the first part holds  *)
(* whatever overlaps, so it serves each of the three specifications.       *)
(***************************************************************************)
EXTENDS ChainServices, BlockIndexerProofs, WellFoundedInduction,
        NaturalsInduction, FiniteSetTheorems

-----------------------------------------------------------------------------
(***************************************************************************)
(* Operators                                                               *)
(***************************************************************************)

\* A nonempty set of natural numbers has a least element.
LEMMA LeastElement ==
    ASSUME NEW S \in SUBSET Nat, S # {}
    PROVE  \E i \in S : \A j \in S : i <= j
<1>1. \E x \in S : \A y \in S : ~(<<y, x>> \in OpToRel(<, Nat))
  BY NatLessThanWellFounded, WFMin
<1>2. PICK x \in S : \A y \in S : ~(<<y, x>> \in OpToRel(<, Nat))
  BY <1>1
<1>3. \A y \in S : ~(y < x)
  BY <1>2 DEF OpToRel
<1>4. QED BY <1>3

\* What a node's chain has at a height it has.
LEMMA ChainBlock ==
    ASSUME NEW b \in Blocks, NEW h \in Heights, h <= heightOf[b]
    PROVE  ancestor[b][h] \in Blocks /\ heightOf[ancestor[b][h]] = h
BY TreeAssumption

\* The first round of a plan is one of the plan.
LEMMA FirstOfPlan ==
    ASSUME plan \subseteq Slots, plan # {} PROVE First \in plan
<1>1. plan \in SUBSET Nat
  BY HeightsAreIntegers, ContentAssumption DEF Heights
<1>2. \E s \in plan : \A t \in plan : s <= t
  BY <1>1, LeastElement
<1>3. QED BY <1>2 DEF First

\* A commitment of the chain is mined in a block of it.
LEMMA MinedInChain ==
    ASSUME NEW b \in Blocks, NEW s \in Committed(b)
    PROVE  /\ Commits(MinedIn(b, s), s)
           /\ \E h \in 0..heightOf[b] : MinedIn(b, s) = ancestor[b][h]
<1>1. \E c \in {ancestor[b][h] : h \in 0..heightOf[b]} : Commits(c, s)
  BY DEF Committed
<1>2. MinedIn(b, s) = CHOOSE c \in {ancestor[b][h] : h \in 0..heightOf[b]} : Commits(c, s)
  BY DEF MinedIn
<1>3. QED BY <1>1, <1>2

\* What a listing names is a block, or nothing.
LEMMA MinedInType ==
    ASSUME NEW b \in Blocks, NEW s \in Slots PROVE MinedIn(b, s) \in BlockOrNone
<1>1. CASE s \in Committed(b)
  <2>1. PICK h \in 0..heightOf[b] : MinedIn(b, s) = ancestor[b][h]
    BY <1>1, MinedInChain
  <2>2. h \in Heights /\ h <= heightOf[b]
    BY HeightsAreIntegers, TreeAssumption DEF Heights
  <2>3. QED BY <2>1, <2>2, ChainBlock DEF BlockOrNone
<1>2. CASE s \notin Committed(b)
  BY <1>2 DEF MinedIn, BlockOrNone
<1>3. QED BY <1>1, <1>2

LEMMA ListingType ==
    ASSUME NEW b \in Blocks PROVE Listing(b) \in [Slots -> BlockOrNone]
BY MinedInType DEF Listing, BlockOrNone

\* Slots are finite, so a streak is a number.
LEMMA SlotsFinite ==
    /\ IsFiniteSet(Slots)
    /\ \A S \in SUBSET Slots : IsFiniteSet(S) /\ Cardinality(S) \in Nat
<1>1. IsFiniteSet(Heights)
  <2>1. 0 \in Int /\ MaxHeight \in Int
    BY TreeAssumption
  <2>2. QED BY <2>1, FS_Interval DEF Heights
<1>2. IsFiniteSet(Slots)
  BY <1>1, ContentAssumption, FS_Subset
<1>3. QED BY <1>2, FS_Subset, FS_CardinalityType

-----------------------------------------------------------------------------
(***************************************************************************)
(* Types, whatever overlaps                                                *)
(***************************************************************************)

\* A follower's step, or the node's, leaves the indexer's invariant alone.
LEMMA IndexerUndisturbed ==
    ASSUME IInv, UNCHANGED <<cursor, indexRows, indexerVars>>, StoreTypeOK'
    PROVE  IInv'
<1>1. TypeOK'
  BY DEF IInv, TypeOK, indexerVars, jobVars
<1>2. NoHolesBelowCursor' /\ PassInv'
  BY DEF IInv, NoHolesBelowCursor, PassInv, Floor, indexerVars, jobVars,
         indexRows, RewindStages, IndexStages
<1>3. QED BY <1>1, <1>2 DEF IInv

\* The indexer writes the walker's cursor, events and memory, and no more of it.
LEMMA IndexerKeepsFollowers ==
    ASSUME ServicesInv, IndexerStep PROVE ServicesInv'
<1>1. IInv'
  BY TickInvariant, RewindInvariant, IndexInvariant, ConfirmInvariant
  DEF ServicesInv, IndexerStep, Tick
<1>2. /\ UNCHANGED walkerVars /\ UNCHANGED roundVars /\ UNCHANGED followers
      /\ \/ UNCHANGED walkerMemory
         \/ seeded' = FALSE /\ penalties' = NoPenalties /\ overtaken' = TRUE
  BY DEF IndexerStep, Tick, TickFails, TickBegins, TickChecks, Walk, Resume,
         Rewind, IndexBlock, Abandon, MoveCursor, DropBlocks, DropTransactions,
         DropEpochs, DropCommitments, ResetRounds, ClearSuccessor, DropEvents,
         LowerDiffCursor, ResetWalker, FetchHash, FetchBlock,
         WriteCommitments, WriteEpoch, WriteTransactions, UpsertBlock,
         LinkBlock, SaveProgress, ConfirmRewind, OperatorConfirms, Inspect,
         Probe, sharedRest
<1>3. NoPenalties \in [Masternodes -> Nat \cup {-1}]
  BY DEF NoPenalties
<1>4. WalkerTypeOK' /\ WalkInv'
  BY <1>2, <1>3
  DEF ServicesInv, ServicesTypeOK, WalkerTypeOK, WalkInv, walkerVars, walkerMemory
<1>5. CollectorTypeOK'
  BY <1>2 DEF ServicesInv, ServicesTypeOK, CollectorTypeOK, roundVars, First
<1>6. QED
  BY <1>1, <1>2, <1>4, <1>5 DEF ServicesInv, ServicesTypeOK, IInv

\* What a diff makes of the map.
LEMMA PenaltiesAfterType ==
    ASSUME NEW from, NEW b \in Blocks, NEW previous \in [Masternodes -> Nat \cup {-1}]
    PROVE  PenaltiesAfter(from, b, previous) \in [Masternodes -> Nat \cup {-1}]
BY ContentAssumption DEF PenaltiesAfter, Listed

\* The walker's own types.
LEMMA WalkerKeepsTypes ==
    ASSUME ServicesInv, WalkNext
    PROVE  /\ WalkerTypeOK' /\ WalkInv'
           /\ eventRows' \subseteq [mn: Masternodes, height: Heights]
           /\ diffCursor' \in Heights \cup {-1}
<1> USE HeightsAreIntegers DEF WalkerStages, WalkerTypeOK, WalkInv, walkerMemory
<1>0. /\ WalkerTypeOK /\ WalkInv /\ best \in Blocks
      /\ cursor.height \in Heights \cup {-1}
      /\ eventRows \subseteq [mn: Masternodes, height: Heights]
      /\ diffCursor \in Heights \cup {-1}
      /\ DiffBatch \in Nat \ {0}
  BY WalkerAssumption DEF ServicesInv, ServicesTypeOK, IInv, TypeOK, StoreTypeOK
<1>a. NoPenalties \in [Masternodes -> Nat \cup {-1}] /\ 0 \in Heights
  BY DEF NoPenalties
<1>b. ASSUME WalkerForgets, penalties' \in [Masternodes -> Nat \cup {-1}],
             seeded' \in BOOLEAN, overtaken' \in BOOLEAN
      PROVE  WalkerTypeOK' /\ WalkInv'
  BY <1>0, <1>a, <1>b DEF WalkerForgets, BlockOrNone
<1>c. ASSUME WalkFails
      PROVE  /\ WalkerTypeOK' /\ WalkInv' /\ UNCHANGED <<eventRows, diffCursor>>
  BY <1>0, <1>a, <1>b, <1>c DEF WalkFails
<1>d. ASSUME NextHeight, walkPc \in {"answer", "next"}, UNCHANGED overtaken,
             penalties' \in [Masternodes -> Nat \cup {-1}], UNCHANGED seeded
      PROVE  WalkerTypeOK' /\ WalkInv'
  <2>1. CASE overtaken
    BY <1>0, <1>b, <1>d, <2>1 DEF NextHeight
  <2>2. CASE ~overtaken
    <3>1. /\ walkAt' = walkAt + 1 /\ walkPc' \in {"ask", "save"}
          /\ walkPc' = "ask" => walkAt + 1 < walkLast
          /\ answered' = None /\ changes' = {}
          /\ UNCHANGED <<walkTarget, walkLast>>
      BY <1>d, <2>2 DEF NextHeight
    <3>2. walkAt + 1 \in Heights /\ 1 <= walkAt + 1
      BY <1>0, <1>d
    <3>3. QED BY <1>0, <1>d, <3>1, <3>2 DEF BlockOrNone
  <2>3. QED BY <2>1, <2>2
<1>1. CASE WalkBegins
  BY <1>0, <1>1 DEF WalkBegins
<1>2. CASE ReadDiffCursor
  <2> DEFINE from == IF diffCursor < 1 THEN 1 ELSE diffCursor
  <2>1. CASE from >= walkTarget
    BY <1>0, <1>2, <2>1, <1>b DEF ReadDiffCursor
  <2>2. CASE ~(from >= walkTarget)
    <3>1. from \in Heights /\ 1 <= from /\ from < walkTarget
      BY <1>0, <2>2
    <3>2. /\ walkAt' = from /\ walkPc' \in {"lookup", "seed"}
          /\ UNCHANGED <<walkTarget, walkLast, answered, changes>>
          /\ UNCHANGED <<eventRows, diffCursor, walkerMemory>>
      BY <1>2, <2>2 DEF ReadDiffCursor
    <3> HIDE DEF from
    <3>3. QED BY <1>0, <3>1, <3>2
  <2>3. QED BY <2>1, <2>2
<1>3. CASE AskSeed
  <2>1. CASE Answers(walkAt)
    <3>1. ancestor[best][walkAt] \in Blocks /\ heightOf[ancestor[best][walkAt]] = walkAt
      BY <1>0, <2>1, ChainBlock DEF Answers, NodeTip
    <3>2. QED BY <1>0, <1>3, <2>1, <3>1 DEF AskSeed, BlockOrNone
  <2>2. CASE ~Answers(walkAt)
    BY <1>0, <1>3, <2>2, <1>c DEF AskSeed
  <2>3. QED BY <2>1, <2>2
<1>4. CASE TakeSeed
  <2>1. penalties' \in [Masternodes -> Nat \cup {-1}]
    BY <1>0, <1>4, <1>a, PenaltiesAfterType DEF TakeSeed
  <2>2. QED BY <1>0, <1>4, <2>1 DEF TakeSeed, BlockOrNone
<1>5. CASE LookUp
  <2> DEFINE last == IF walkAt + DiffBatch < walkTarget THEN walkAt + DiffBatch
                     ELSE walkTarget
  <2>1. walkAt < walkTarget /\ walkTarget \in Heights /\ walkAt \in Heights
        /\ 1 <= walkAt
    BY <1>0, <1>5 DEF LookUp
  <2>2. last \in Heights /\ walkAt < last
    BY <1>0, <2>1
  <2>3. /\ walkLast' = last /\ walkPc' = "ask" /\ overtaken' = FALSE
        /\ UNCHANGED <<walkTarget, walkAt, answered, changes, eventRows,
                       diffCursor, seeded, penalties>>
    BY <1>5 DEF LookUp
  <2> HIDE DEF last
  <2>4. QED BY <1>0, <2>1, <2>2, <2>3
<1>6. CASE AskDiff
  <2>1. CASE Answers(walkAt + 1)
    <3>1. walkAt + 1 \in Heights
      BY <1>0, <1>6 DEF AskDiff
    <3>2. /\ ancestor[best][walkAt + 1] \in Blocks
          /\ heightOf[ancestor[best][walkAt + 1]] = walkAt + 1
      BY <1>0, <2>1, <3>1, ChainBlock DEF Answers, NodeTip
    <3>3. QED BY <1>0, <1>6, <2>1, <3>2 DEF AskDiff, BlockOrNone
  <2>2. CASE ~Answers(walkAt + 1)
    BY <1>0, <1>6, <2>2, <1>c DEF AskDiff
  <2>3. QED BY <2>1, <2>2
<1>7. CASE TakeDiff
  <2>1. penalties' \in [Masternodes -> Nat \cup {-1}] /\ walkPc = "answer"
    BY <1>0, <1>7, PenaltiesAfterType DEF TakeDiff
  <2>2. UNCHANGED <<eventRows, diffCursor, seeded, overtaken>>
    BY <1>7 DEF TakeDiff
  <2>3. CASE NextHeight
    BY <1>0, <1>d, <2>1, <2>2, <2>3
  <2>4. CASE ~NextHeight
    <3>1. /\ walkPc' = "write" /\ changes' \subseteq Masternodes
          /\ UNCHANGED <<walkTarget, walkAt, walkLast, answered>>
      BY <1>7, <2>4 DEF TakeDiff, PenaltyUps, Listed
    <3>2. QED BY <1>0, <2>1, <2>2, <3>1
  <2>5. QED BY <2>3, <2>4
<1>8. CASE WriteEvents
  <2>1. walkAt + 1 \in Heights
    BY <1>0, <1>8 DEF WriteEvents
  <2>2. eventRows' \subseteq [mn: Masternodes, height: Heights]
    BY <1>0, <1>8, <2>1 DEF WriteEvents
  <2>3. QED BY <1>0, <1>8, <2>2 DEF WriteEvents
<1>9. CASE AfterWrite
  <2>1. /\ NextHeight /\ walkPc = "next"
        /\ UNCHANGED <<eventRows, diffCursor, seeded, penalties, overtaken>>
    BY <1>9 DEF AfterWrite
  <2>2. QED BY <1>0, <1>d, <2>1
<1>10. CASE SaveDiffCursor
  <2>1. /\ WalkerForgets /\ diffCursor' = walkAt
        /\ UNCHANGED <<eventRows, seeded, penalties, overtaken>>
    BY <1>10 DEF SaveDiffCursor
  <2>2. QED BY <1>0, <1>b, <2>1
<1>11. QED
  BY <1>1, <1>2, <1>3, <1>4, <1>5, <1>6, <1>7, <1>8, <1>9, <1>10 DEF WalkNext

\* A walk's step keeps the whole invariant.
LEMMA WalkerKeepsInvariant == ASSUME ServicesInv, WalkerStep PROVE ServicesInv'
<1>1. /\ WalkNext /\ UNCHANGED <<indexerVars, roundVars, followers>>
      /\ UNCHANGED walkerReads
  BY DEF WalkerStep, WalkNext, WalkBegins, ReadDiffCursor, AskSeed, TakeSeed,
         LookUp, AskDiff, TakeDiff, WriteEvents, AfterWrite, SaveDiffCursor
<1>2. WalkerTypeOK' /\ WalkInv'
  BY <1>1, WalkerKeepsTypes
<1>3. StoreTypeOK'
  BY <1>1, WalkerKeepsTypes
  DEF ServicesInv, IInv, TypeOK, StoreTypeOK, walkerReads, nodeVars, indexRows
<1>4. IInv'
  BY <1>1, <1>3, IndexerUndisturbed DEF ServicesInv, walkerReads
<1>5. CollectorTypeOK'
  BY <1>1 DEF ServicesInv, ServicesTypeOK, CollectorTypeOK, roundVars, First
<1>6. QED
  BY <1>1, <1>2, <1>4, <1>5 DEF ServicesInv, ServicesTypeOK, IInv

\* Rows of the collector, written out once.
LEMMA RoundFields ==
    ASSUME NEW row \in RoundRow
    PROVE  /\ row.status \in RoundStatus /\ row.minedBlock \in BlockOrNone
           /\ row.minedHeight \in Heights \cup {None} /\ row.complete \in BOOLEAN
           /\ row.resolved \in BOOLEAN /\ row.streak \in Nat
BY DEF RoundRow

LEMMA NoRoundType == NoRound \in RoundRow
BY DEF NoRound, RoundRow, RoundStatus, BlockOrNone

LEMMA ClassifyRoundType ==
    ASSUME NEW s, NEW n PROVE ClassifyRound(s, n) \in RoundStatus \ {"absent"}
BY DEF ClassifyRound, RoundStatus

\* A pass of the collector that is over.
LEMMA CollectorRests ==
    ASSUME CollectorForgets PROVE CollectorTypeOK'
<1>1. NothingListed \in [Slots -> BlockOrNone]
  BY DEF NothingListed, BlockOrNone
<1>2. 0 \in Heights
  BY HeightsAreIntegers
<1>3. QED
  BY <1>1, <1>2 DEF CollectorForgets, CollectorTypeOK, RoundStages

\* The collector's own types.
LEMMA CollectorKeepsTypes ==
    ASSUME ServicesInv, CollectNext
    PROVE  CollectorTypeOK' /\ roundRows' \in [Slots -> RoundRow]
<1> USE DEF RoundStages, CollectorTypeOK
<1>0. /\ CollectorTypeOK /\ best \in Blocks /\ roundRows \in [Slots -> RoundRow]
      /\ blockRows \in [Heights -> BlockOrNone]
  BY DEF ServicesInv, ServicesTypeOK, IInv, TypeOK, StoreTypeOK
<1>a. plan # {} => First \in plan /\ First \in Slots
  BY <1>0, FirstOfPlan
<1>1. CASE CollectBegins
  <2>1. NodeTip \in Heights
    BY <1>0, NodeTipType
  <2>2. QED BY <1>0, <1>1, <2>1 DEF CollectBegins
<1>2. CASE ObserveQuorums
  <2> DEFINE h == ObservationHeight(roundTip)
  <2>1. CASE online /\ h <= NodeTip
    <3>1. h \in Heights
      BY <1>0, ScheduleAssumption, HeightsAreIntegers DEF ObservationHeight
    <3>2. ancestor[best][h] \in Blocks
      BY <1>0, <2>1, <3>1, ChainBlock DEF NodeTip
    <3>3. Listing(ancestor[best][h]) \in [Slots -> BlockOrNone]
      BY <3>2, ListingType
    <3>4. /\ listed' = Listing(ancestor[best][h]) /\ roundPc' = "count"
          /\ UNCHANGED <<roundTip, fallback, plan, described, minedAt, roundRows>>
      BY <1>2, <2>1 DEF ObserveQuorums
    <3> HIDE DEF h
    <3>5. QED BY <1>0, <3>3, <3>4
  <2>2. CASE ~(online /\ h <= NodeTip)
    BY <1>0, <1>2, <2>2, CollectorRests DEF ObserveQuorums
  <2>3. QED BY <2>1, <2>2
<1>3. CASE CountMasternodes
  <2>1. enabledAt[NodeTip] \in Nat
    BY <1>0, NodeTipType, ScheduleAssumption
  <2>2. QED BY <1>0, <1>3, <2>1 DEF CountMasternodes
<1>4. CASE RemovePlaceholders
  BY <1>0, <1>4, NoRoundType DEF RemovePlaceholders
<1>5. CASE PlanRounds
  <2>1. plan' \subseteq Slots
    BY <1>5 DEF PlanRounds
  <2>2. QED BY <1>0, <1>5, <2>1 DEF PlanRounds
<1>6. CASE JudgeRound
  <2>1. plan # {} /\ First \in Slots /\ roundPc = "judge"
    BY <1>a, <1>6 DEF JudgeRound
  <2>2. plan \ {First} \subseteq Slots
    BY <1>0
  <2>3. CASE Unjudged(First)
    BY <1>0, <1>6, <2>1, <2>2, <2>3 DEF JudgeRound
  <2>4. CASE ~Unjudged(First) /\ listed[First] = None
    <3> DEFINE status == ClassifyRound(First, EnabledAt(First))
               row == [roundRows[First] EXCEPT !.status = status,
                         !.minedBlock = None, !.minedHeight = None,
                         !.complete = (status = "failed")]
    <3>1. status \in RoundStatus
      BY ClassifyRoundType
    <3>2. row \in RoundRow
      <4> HIDE DEF status
      <4>1. QED BY <1>0, <2>1, <3>1 DEF RoundRow, BlockOrNone
    <3>3. /\ roundRows' = [roundRows EXCEPT ![First] = row]
          /\ plan' = plan \ {First}
          /\ UNCHANGED <<roundPc, described, roundTip, listed, fallback, minedAt>>
      BY <1>6, <2>4 DEF JudgeRound
    <3> HIDE DEF row
    <3>4. QED BY <1>0, <2>1, <2>2, <3>2, <3>3
  <2>5. CASE ~Unjudged(First) /\ listed[First] # None
    <3>1. /\ described' \in BOOLEAN /\ roundPc' = "lookup"
          /\ UNCHANGED <<plan, roundRows, roundTip, listed, fallback, minedAt>>
      BY <1>6, <2>5 DEF JudgeRound, ServicesInv, IInv, TypeOK, StoreTypeOK
    <3>2. First' = First
      BY <3>1 DEF First
    <3>3. QED BY <1>0, <2>1, <2>5, <3>1, <3>2
  <2>6. QED BY <2>3, <2>4, <2>5
<1>7. CASE LookUpMined
  <2>1. plan # {} /\ First \in Slots /\ listed[First] \in Blocks
    BY <1>0, <1>a, <1>7 DEF LookUpMined, BlockOrNone
  <2>2. minedAt' \in Heights \cup {None}
    BY <1>7, <2>1, TreeAssumption DEF LookUpMined
  <2>3. First' = First
    BY <1>7 DEF LookUpMined, First
  <2>4. QED BY <1>0, <1>7, <2>2, <2>3 DEF LookUpMined
<1>8. CASE WriteFormed
  <2> DEFINE row == [roundRows[First] EXCEPT !.status = "formed",
                       !.minedBlock = listed[First], !.minedHeight = minedAt,
                       !.complete = described /\ minedAt # None]
  <2>1. plan # {} /\ First \in Slots /\ listed[First] \in BlockOrNone
    BY <1>0, <1>a, <1>8 DEF WriteFormed
  <2>2. row \in RoundRow
    BY <1>0, <2>1 DEF RoundRow, RoundStatus
  <2>3. /\ roundRows' = [roundRows EXCEPT ![First] = row]
        /\ plan' = plan \ {First} /\ roundPc' = "judge" /\ described' = FALSE
        /\ minedAt' = None /\ UNCHANGED <<roundTip, listed, fallback>>
    BY <1>8 DEF WriteFormed
  <2> HIDE DEF row
  <2>4. QED BY <1>0, <2>1, <2>2, <2>3
<1>9. CASE StampResolved
  <2>1. \A s \in Slots : [roundRows[s] EXCEPT !.resolved = TRUE] \in RoundRow
    BY <1>0 DEF RoundRow
  <2>2. roundRows' \in [Slots -> RoundRow]
    BY <1>0, <1>9, <2>1 DEF StampResolved
  <2>3. NothingListed \in [Slots -> BlockOrNone] /\ 0 \in Heights
    BY HeightsAreIntegers DEF NothingListed, BlockOrNone
  <2>4. QED BY <1>0, <1>9, <2>2, <2>3 DEF StampResolved
<1>10. CASE RecomputeStreaks
  <2>1. \A s \in Slots : FailuresBefore(s) \in Nat
    BY SlotsFinite DEF FailuresBefore
  <2>2. \A s \in Slots : [roundRows[s] EXCEPT !.streak = FailuresBefore(s)] \in RoundRow
    BY <1>0, <2>1 DEF RoundRow
  <2>3. roundRows' \in [Slots -> RoundRow]
    BY <1>0, <1>10, <2>2, NoRoundType DEF RecomputeStreaks
  <2>4. QED BY <1>10, <2>3, CollectorRests DEF RecomputeStreaks
<1>11. QED
  BY <1>1, <1>2, <1>3, <1>4, <1>5, <1>6, <1>7, <1>8, <1>9, <1>10 DEF CollectNext

\* A collection's step keeps the whole invariant.
LEMMA CollectorKeepsInvariant ==
    ASSUME ServicesInv, CollectorStep PROVE ServicesInv'
<1>1. /\ CollectNext /\ UNCHANGED <<indexerVars, walkerVars, followers>>
      /\ UNCHANGED collectorReads
  BY DEF CollectorStep, CollectNext, CollectBegins, ObserveQuorums,
         CountMasternodes, RemovePlaceholders, PlanRounds, JudgeRound,
         LookUpMined, WriteFormed, StampResolved, RecomputeStreaks
<1>2. CollectorTypeOK' /\ roundRows' \in [Slots -> RoundRow]
  BY <1>1, CollectorKeepsTypes
<1>3. StoreTypeOK'
  BY <1>1, <1>2
  DEF ServicesInv, IInv, TypeOK, StoreTypeOK, collectorReads, nodeVars, indexRows
<1>4. IInv'
  BY <1>1, <1>3, IndexerUndisturbed DEF ServicesInv, collectorReads
<1>5. WalkerTypeOK' /\ WalkInv'
  BY <1>1 DEF ServicesInv, ServicesTypeOK, WalkerTypeOK, WalkInv, walkerVars,
              collectorReads, walkerMemory
<1>6. QED
  BY <1>1, <1>2, <1>4, <1>5 DEF ServicesInv, ServicesTypeOK, IInv

\* A crash of the process clears every memory at once.
LEMMA ProcessCrashInvariant ==
    ASSUME ServicesInv, ProcessCrash PROVE ServicesInv'
<1>1. StoreTypeOK' /\ UNCHANGED <<cursor, blockRows>> /\ syncError' \in Errors
  BY DEF ProcessCrash, ServicesInv, IInv, TypeOK, StoreTypeOK, nodeVars, indexRows
<1>2. IInv'
  BY <1>1, ForgetInvariant DEF ProcessCrash, ServicesInv
<1>3. WalkerTypeOK' /\ WalkInv'
  <2>1. NoPenalties \in [Masternodes -> Nat \cup {-1}] /\ 0 \in Heights
    BY HeightsAreIntegers DEF NoPenalties
  <2>2. QED
    BY <2>1 DEF ProcessCrash, WalkerForgets, WalkerTypeOK, WalkInv, WalkerStages,
                BlockOrNone
<1>4. CollectorTypeOK'
  BY CollectorRests DEF ProcessCrash
<1>5. QED
  BY <1>2, <1>3, <1>4 DEF ProcessCrash, ServicesInv, ServicesTypeOK, IInv

\* Nor does the node, which writes nothing.
LEMMA NodeStepInvariant ==
    ASSUME ServicesInv, NodeStep(NodeMoves) PROVE ServicesInv'
<1>1. IInv'
  BY EnvironmentInvariant DEF NodeStep, Environment, ServicesInv
<1>2. WalkerTypeOK' /\ WalkInv'
  BY DEF NodeStep, ServicesInv, ServicesTypeOK, WalkerTypeOK, WalkInv,
         walkerVars, sharedRest, walkerMemory
<1>3. CollectorTypeOK'
  BY DEF NodeStep, ServicesInv, ServicesTypeOK, CollectorTypeOK, roundVars, First
<1>4. QED
  BY <1>1, <1>2, <1>3 DEF NodeStep, ServicesInv, ServicesTypeOK, IInv

LEMMA ServicesStutter ==
    ASSUME ServicesInv, UNCHANGED serviceVars PROVE ServicesInv'
<1>1. IInv'
  BY StutterInvariant DEF ServicesInv, serviceVars
<1>2. WalkerTypeOK' /\ WalkInv'
  BY DEF ServicesInv, ServicesTypeOK, WalkerTypeOK, WalkInv, serviceVars, vars,
         walkerVars, sharedRest, walkerMemory
<1>3. CollectorTypeOK'
  BY DEF ServicesInv, ServicesTypeOK, CollectorTypeOK, serviceVars, roundVars, First
<1>4. QED
  BY <1>1, <1>2, <1>3 DEF ServicesInv, ServicesTypeOK, IInv, serviceVars

LEMMA ServicesInitInvariant ==
    ASSUME NEW sets, \A set \in sets : set \subseteq Followers, ServicesInit(sets)
    PROVE  ServicesInv
<1>1. IInv
  BY InitInvariant DEF ServicesInit
<1>2. WalkerTypeOK /\ WalkInv
  <2>1. NoPenalties \in [Masternodes -> Nat \cup {-1}] /\ 0 \in Heights
    BY HeightsAreIntegers DEF NoPenalties
  <2>2. QED
    BY <2>1 DEF ServicesInit, Init, WalkerInit, WalkerMemoryInit, WalkerTypeOK,
                WalkInv, WalkerStages, BlockOrNone
<1>3. CollectorTypeOK
  <2>1. NothingListed \in [Slots -> BlockOrNone] /\ 0 \in Heights
    BY HeightsAreIntegers DEF NothingListed, BlockOrNone
  <2>2. QED
    BY <2>1 DEF ServicesInit, CollectorInit, CollectorTypeOK, RoundStages
<1>4. QED
  BY <1>1, <1>2, <1>3 DEF ServicesInv, ServicesTypeOK, ServicesInit, IInv

-----------------------------------------------------------------------------
\* Any of the three services, the process or the node, at any await.
AnyStep ==
    IndexerStep \/ WalkerStep \/ CollectorStep \/ ProcessCrash
    \/ NodeStep(NodeMoves)

LEMMA AnyStepInvariant ==
    ASSUME ServicesInv, [AnyStep]_serviceVars PROVE ServicesInv'
BY IndexerKeepsFollowers, WalkerKeepsInvariant, CollectorKeepsInvariant,
   ProcessCrashInvariant, NodeStepInvariant, ServicesStutter DEF AnyStep

LEMMA NextIsAnyStep ==
    /\ ServicesNext => AnyStep
    /\ RacingNext => AnyStep
    /\ OverlapNext => AnyStep
BY DEF ServicesNext, RacingNext, OverlapNext, AnyStep, NodeStep, NodeSettles,
       NodeGrows

\* Whatever overlaps and whoever dies, on any block tree, each service's
\* variables keep their types and what it has in hand is what it has read: the
\* same invariant serves the services in turns, racing and overlapping.
THEOREM ServicesInvariant ==
    /\ ServicesSpec => []ServicesInv
    /\ RacingSpec => []ServicesInv
    /\ OverlapSpec => []ServicesInv
<1>1. /\ \A set \in {{}, Followers} : set \subseteq Followers
      /\ \A set \in {{"walker"}, {"collector"}} : set \subseteq Followers
      /\ \A set \in {{"walker"}} : set \subseteq Followers
  BY DEF Followers
<1>2. /\ ServicesInit({{}, Followers}) => ServicesInv
      /\ ServicesInit({{"walker"}, {"collector"}}) => ServicesInv
      /\ ServicesInit({{"walker"}}) => ServicesInv
  BY <1>1, ServicesInitInvariant
<1>3. /\ ServicesInv /\ [ServicesNext]_serviceVars => ServicesInv'
      /\ ServicesInv /\ [RacingNext]_serviceVars => ServicesInv'
      /\ ServicesInv /\ [OverlapNext]_serviceVars => ServicesInv'
  BY AnyStepInvariant, NextIsAnyStep
<1>4. QED
  BY <1>2, <1>3, PTL DEF ServicesSpec, RacingSpec, OverlapSpec

\* The types of all three services, in turns.
THEOREM ServicesTypeCorrect == ServicesSpec => []ServicesTypeOK
<1>1. ServicesInv => ServicesTypeOK
  BY DEF ServicesInv
<1>2. QED BY <1>1, ServicesInvariant, PTL

\* With followers beside it, in turns or racing, the indexer still leaves no
\* hole below its cursor.
THEOREM ServicesNoHoles ==
    /\ ServicesSpec => []NoHolesBelowCursor
    /\ RacingSpec => []NoHolesBelowCursor
<1>1. ServicesInv => NoHolesBelowCursor
  BY DEF ServicesInv, IInv
<1>2. QED BY <1>1, ServicesInvariant, PTL

-----------------------------------------------------------------------------
(***************************************************************************)
(* A walk along a chain                                                    *)
(***************************************************************************)

\* The masternodes whose penalty rises at height h of the chain of b.
Rises(b, h) ==
    {m \in Masternodes : penaltyOf[ancestor[b][h]][m] > penaltyOf[ancestor[b][h - 1]][m]}

Batching == {"ask", "answer", "write", "next"}
BetweenWalks == {"idle", "cursor"}

\* How far the record is complete, and the height the walker's map is of.
Walked ==
    IF walkPc \in BetweenWalks THEN diffCursor
    ELSE IF walkPc = "next" THEN walkAt + 1 ELSE walkAt
MapHeight ==
    IF walkPc \in BetweenWalks THEN IF diffCursor < 1 THEN 1 ELSE diffCursor
    ELSE IF walkPc \in {"write", "next"} THEN walkAt + 1 ELSE walkAt

\* Where a walk is: above what it has persisted, up to a height that is indexed,
\* with a map, and not overtaken since it looked.
WalkPlace ==
    /\ walkPc # "idle" => walkTarget <= cursor.height
    /\ walkPc \notin BetweenWalks => diffCursor <= walkAt
    /\ walkPc \in Batching => walkLast <= walkTarget /\ ~overtaken
    /\ walkPc = "save" => walkAt <= walkTarget
    /\ walkPc \in Batching \cup {"lookup", "save"} => seeded

\* At the heights of `good`: what is on record is what rises on the chain of b,
\* all of it as far as the walk has come.
EventsOf(b, good) ==
    /\ \A e \in eventRows :
         e.height \in good => e.height >= 2 /\ e.mn \in Rises(b, e.height)
    /\ \A h \in good : 2 <= h /\ h <= Walked =>
         \A m \in Rises(b, h) : [mn |-> m, height |-> h] \in eventRows

\* What a walk has in hand at such a height is of that chain.
HandOf(b, good) ==
    /\ walkPc = "seeding" /\ walkAt \in good => answered = ancestor[b][walkAt]
    /\ walkPc \in {"answer", "write"} /\ walkAt + 1 \in good =>
         answered = ancestor[b][walkAt + 1]
    /\ walkPc = "write" /\ walkAt + 1 \in good => changes = Rises(b, walkAt + 1)

\* A map of the penalties as of block b: an entry it lacks is one that is 0.
MapOf(map, b) ==
    \A m \in Masternodes : \/ map[m] = penaltyOf[b][m]
                           \/ map[m] = -1 /\ penaltyOf[b][m] = 0

MapKnown(b, good) ==
    seeded => /\ walkPc \in BetweenWalks => diffCursor >= 1
              /\ MapHeight \in good => MapOf(penalties, ancestor[b][MapHeight])

\* Nothing is recorded above the indexed height.
RecordIndexed ==
    /\ diffCursor <= cursor.height
    /\ \A e \in eventRows : e.height <= cursor.height


\* All of it: a walk, its record and its map are of the chain of b at the
\* heights of `good`.
WalkOf(b, good) ==
    /\ WalkPlace /\ RecordIndexed
    /\ EventsOf(b, good) /\ HandOf(b, good) /\ MapKnown(b, good)

\* The chain below a block of a chain is that chain.
LEMMA ChainBelow ==
    ASSUME NEW b \in Blocks, NEW n \in Heights, n <= heightOf[b]
    PROVE  /\ ancestor[b][n] \in Blocks /\ heightOf[ancestor[b][n]] = n
           /\ \A h \in Heights : h <= n => ancestor[ancestor[b][n]][h] = ancestor[b][h]
BY TreeAssumption, HeightsAreIntegers DEF Heights

\* A block names the one before it on any chain it is on.
LEMMA PreviousOnChain ==
    ASSUME NEW b \in Blocks, NEW h \in Heights, h <= heightOf[b], h # 0
    PROVE  h - 1 \in Heights /\ PreviousOf(ancestor[b][h]) = ancestor[b][h - 1]
<1>1. h - 1 \in Heights /\ h - 1 <= h
  BY HeightsAreIntegers
<1>2. QED
  BY <1>1, ChainBelow DEF PreviousOf

\* The first diff of a map gives that of its last block: what it does not list
\* is 0, for nobody is punished at height 1.
LEMMA SeedGivesMap ==
    ASSUME NEW b \in Blocks, heightOf[b] >= 1,
           penalties' = PenaltiesAfter(ancestor[b][1], b, NoPenalties)
    PROVE  MapOf(penalties', b)
<1>1. ancestor[b][1] \in Blocks /\ heightOf[ancestor[b][1]] = 1
  BY ChainBelow, TreeAssumption, HeightsAreIntegers DEF Heights
<1>2. \A m \in Masternodes : penaltyOf[ancestor[b][1]][m] = 0
  BY <1>1, ConsensusAssumption
<1>3. \A m \in Masternodes :
        \/ penalties'[m] = penaltyOf[b][m]
        \/ penalties'[m] = -1 /\ penaltyOf[b][m] = 0
  BY <1>2 DEF PenaltiesAfter, Listed, NoPenalties
<1>4. QED BY <1>3 DEF MapOf

\* A diff with the block before, compared with that block's map, gives the
\* rises and the next map, although an entry the map lacks counts as a rise.
LEMMA DiffGivesRises ==
    ASSUME NEW b \in Blocks, NEW h \in Heights, 2 <= h, h <= heightOf[b],
           MapOf(penalties, ancestor[b][h - 1]),
           penalties' = PenaltiesAfter(ancestor[b][h - 1], ancestor[b][h], penalties)
    PROVE  /\ PenaltyUps(ancestor[b][h - 1], ancestor[b][h], penalties) = Rises(b, h)
           /\ MapOf(penalties', ancestor[b][h])
<1>1. /\ ancestor[b][h] \in Blocks /\ ancestor[b][h - 1] \in Blocks
  BY ChainBelow, TreeAssumption, HeightsAreIntegers DEF Heights
<1> DEFINE p == penaltyOf[ancestor[b][h - 1]]
           q == penaltyOf[ancestor[b][h]]
<1>2. \A m \in Masternodes : p[m] \in Nat /\ q[m] \in Nat
  BY <1>1, ContentAssumption
<1>3. \A m \in Masternodes : penalties[m] = p[m] \/ (penalties[m] = -1 /\ p[m] = 0)
  BY DEF MapOf
<1>4. \A m \in Masternodes :
        (p[m] # q[m] /\ (penalties[m] = -1 \/ q[m] > penalties[m])) <=> q[m] > p[m]
  BY <1>2, <1>3
<1>5. \A m \in Masternodes : penalties'[m] = IF p[m] # q[m] THEN q[m] ELSE penalties[m]
  BY DEF PenaltiesAfter, Listed
<1>6. \A m \in Masternodes : penalties'[m] = q[m] \/ (penalties'[m] = -1 /\ q[m] = 0)
  BY <1>3, <1>5
<1>7. QED BY <1>4, <1>6 DEF PenaltyUps, Listed, Rises, MapOf

\* A walk that ends, its map dropped or kept, has recorded what it persisted.
LEMMA WalkRests ==
    ASSUME NEW K \in Blocks, NEW Good \in SUBSET Heights, ServicesInv,
           WalkOf(K, Good), WalkerForgets, UNCHANGED <<eventRows, diffCursor, cursor>>,
           \/ ~seeded'
           \/ walkPc \in BetweenWalks /\ UNCHANGED walkerMemory
    PROVE  WalkOf(K, Good)'
<1>1. /\ walkPc' = "idle" /\ diffCursor \in Int /\ cursor' = cursor
      /\ eventRows' = eventRows /\ diffCursor' = diffCursor
      /\ walkAt \in Int /\ Walked' = diffCursor
  BY HeightsAreIntegers
  DEF WalkerForgets, ServicesInv, ServicesTypeOK, WalkerTypeOK, TypeOK, StoreTypeOK,
      Walked, BetweenWalks
<1>2. diffCursor <= Walked
  BY <1>1 DEF Walked, WalkOf, WalkPlace, BetweenWalks
<1>3. WalkPlace' /\ RecordIndexed'
  BY <1>1 DEF WalkOf, WalkPlace, RecordIndexed, BetweenWalks, Batching
<1>4. EventsOf(K, Good)'
  <2>1. \A e \in eventRows : e.height \in Good => e.height >= 2 /\ e.mn \in Rises(K, e.height)
    BY DEF WalkOf, EventsOf
  <2>2. \A h \in Good : 2 <= h /\ h <= diffCursor =>
          \A m \in Rises(K, h) : [mn |-> m, height |-> h] \in eventRows
    BY <1>1, <1>2, HeightsAreIntegers DEF WalkOf, EventsOf, Walked
  <2>3. QED BY <1>1, <2>1, <2>2 DEF EventsOf, Rises
<1>5. HandOf(K, Good)'
  BY <1>1 DEF HandOf
<1>6. MapKnown(K, Good)'
  <2>1. CASE ~seeded'
    BY <2>1 DEF MapKnown
  <2>2. CASE walkPc \in BetweenWalks /\ UNCHANGED walkerMemory
    <3>1. MapHeight' = MapHeight /\ penalties' = penalties /\ seeded' = seeded
          /\ walkPc' \in BetweenWalks
      BY <1>1, <2>2 DEF MapHeight, BetweenWalks, walkerMemory
    <3>2. QED BY <1>1, <2>2, <3>1 DEF WalkOf, MapKnown, MapOf
  <2>3. QED BY <2>1, <2>2
<1>7. QED BY <1>3, <1>4, <1>5, <1>6 DEF WalkOf

\* The loop goes on to the next height with nothing of this one left to record.
LEMMA HeightIsDone ==
    ASSUME NEW K \in Blocks, NEW Good \in SUBSET Heights, ServicesInv,
           WalkOf(K, Good), NextHeight, walkPc \in {"answer", "next"},
           UNCHANGED <<eventRows, diffCursor, cursor, seeded, overtaken>>,
           walkAt + 1 \in Good =>
               /\ MapOf(penalties', ancestor[K][walkAt + 1])
               /\ walkPc = "answer" /\ 2 <= walkAt + 1 => Rises(K, walkAt + 1) = {}
    PROVE  WalkOf(K, Good)'
<1>1. /\ walkAt \in Int /\ walkLast \in Int /\ walkTarget \in Int /\ diffCursor \in Int
      /\ walkAt < walkLast /\ ~overtaken /\ seeded /\ walkLast <= walkTarget
      /\ walkTarget <= cursor.height /\ diffCursor <= walkAt
      /\ cursor.height \in Int
  BY HeightsAreIntegers
  DEF ServicesInv, ServicesTypeOK, WalkerTypeOK, IInv, TypeOK, StoreTypeOK, WalkOf, WalkPlace,
      Batching, BetweenWalks
<1>2. /\ walkAt' = walkAt + 1 /\ walkPc' \in {"ask", "save"}
      /\ walkPc' = "ask" => walkAt + 1 < walkLast
      /\ walkTarget' = walkTarget /\ walkLast' = walkLast /\ overtaken' = overtaken
      /\ cursor' = cursor /\ eventRows' = eventRows /\ diffCursor' = diffCursor
      /\ seeded' = seeded
  BY <1>1 DEF NextHeight
<1>3. WalkPlace' /\ RecordIndexed'
  BY <1>1, <1>2 DEF WalkOf, WalkPlace, RecordIndexed, Batching, BetweenWalks
<1>4. HandOf(K, Good)'
  BY <1>2 DEF HandOf
<1>5. Walked' = walkAt + 1 /\ MapHeight' = walkAt + 1
  BY <1>2 DEF Walked, MapHeight, BetweenWalks
<1>6. MapKnown(K, Good)'
  <2>1. walkPc' \notin BetweenWalks
    BY <1>2 DEF BetweenWalks
  <2>2. MapHeight' \in Good => MapOf(penalties', ancestor[K][MapHeight'])
    BY <1>5
  <2>3. QED BY <2>1, <2>2 DEF MapKnown
<1>7. EventsOf(K, Good)'
  <2>1. \A e \in eventRows : e.height \in Good => e.height >= 2 /\ e.mn \in Rises(K, e.height)
    BY DEF WalkOf, EventsOf
  <2>2. ASSUME NEW h \in Good, 2 <= h, h <= walkAt + 1, NEW m \in Rises(K, h)
        PROVE  [mn |-> m, height |-> h] \in eventRows
    <3>1. h \in Int
      BY HeightsAreIntegers
    <3>2. walkPc = "next" => Walked = walkAt + 1
      BY DEF Walked, BetweenWalks
    <3>3. walkPc = "answer" => Walked = walkAt
      BY DEF Walked, BetweenWalks
    <3>4. h <= Walked
      BY <1>1, <2>2, <3>1, <3>2, <3>3
    <3>5. QED BY <2>2, <3>4 DEF WalkOf, EventsOf
  <2>3. QED BY <1>2, <1>5, <2>1, <2>2 DEF EventsOf, Rises
<1>8. QED BY <1>3, <1>4, <1>6, <1>7 DEF WalkOf

\* A step that records nothing and leaves the walk as far as it was.
LEMMA WalkGoesOn ==
    ASSUME NEW K \in Blocks, NEW Good \in SUBSET Heights, WalkOf(K, Good),
           UNCHANGED <<eventRows, diffCursor, cursor>>,
           Walked \in Int, Walked' \in Int, Walked' <= Walked \/ Walked' <= 1,
           WalkPlace', HandOf(K, Good)', MapKnown(K, Good)'
    PROVE  WalkOf(K, Good)'
<1>1. RecordIndexed'
  BY DEF WalkOf, RecordIndexed
<1>2. \A h \in Good : h \in Int
  BY HeightsAreIntegers
<1>3. EventsOf(K, Good)'
  <2>1. \A e \in eventRows : e.height \in Good => e.height >= 2 /\ e.mn \in Rises(K, e.height)
    BY DEF WalkOf, EventsOf
  <2>2. \A h \in Good : 2 <= h /\ h <= Walked' =>
          \A m \in Rises(K, h) : [mn |-> m, height |-> h] \in eventRows
    BY <1>2 DEF WalkOf, EventsOf
  <2>3. QED BY <2>1, <2>2 DEF EventsOf, Rises
<1>4. QED BY <1>1, <1>3 DEF WalkOf

\* The heights of `good` are a first part of the chain of b, which the node
\* has as far as it reaches.
PartOf(b, good) ==
    \A h \in good :
        /\ h <= heightOf[b] /\ \A k \in Heights : k <= h => k \in good
        /\ h <= heightOf[best] => ancestor[best][h] = ancestor[b][h]

\* Whatever step a walk takes, what it records stays what the chain says.
LEMMA WalkFollows ==
    ASSUME NEW K \in Blocks, NEW Good \in SUBSET Heights, ServicesInv,
           PartOf(K, Good), WalkOf(K, Good), WalkNext
    PROVE  WalkOf(K, Good)'
<1>0. /\ best \in Blocks /\ heightOf[best] \in Int /\ NodeTip = heightOf[best]
      /\ walkAt \in Int /\ walkLast \in Int /\ walkTarget \in Int /\ diffCursor \in Int
      /\ cursor.height \in Int /\ walkAt \in Heights
      /\ eventRows \subseteq [mn: Masternodes, height: Heights]
      /\ Walked \in Int /\ Good \subseteq Int /\ Heights \subseteq Int
      /\ 0 \in Heights /\ DiffBatch \in Int /\ heightOf[K] \in Int
  BY HeightsAreIntegers, TreeAssumption, WalkerAssumption
  DEF ServicesInv, ServicesTypeOK, WalkerTypeOK, IInv, TypeOK, StoreTypeOK, NodeTip,
      Walked
<1>m. UNCHANGED cursor
  BY DEF WalkNext, WalkBegins, ReadDiffCursor, AskSeed, TakeSeed, LookUp, AskDiff,
         TakeDiff, WriteEvents, AfterWrite, SaveDiffCursor, walkerReads
<1>p. WalkPlace /\ HandOf(K, Good) /\ MapKnown(K, Good)
  BY DEF WalkOf
<1>i. WalkInv /\ WalkerTypeOK
  BY DEF ServicesInv, ServicesTypeOK
<1>1. CASE WalkBegins
  <2>1. /\ walkPc = "idle" /\ walkPc' = "cursor" /\ walkTarget' = cursor.height
        /\ UNCHANGED <<walkAt, eventRows, diffCursor, seeded, penalties>>
    BY <1>1 DEF WalkBegins, walkerMemory
  <2>2. Walked' = Walked /\ MapHeight' = MapHeight
    BY <2>1 DEF Walked, MapHeight, BetweenWalks
  <2>3. WalkPlace' /\ HandOf(K, Good)'
    BY <1>m, <1>0, <2>1 DEF WalkPlace, HandOf, BetweenWalks, Batching
  <2>4. MapKnown(K, Good)'
    BY <1>p, <2>1, <2>2 DEF MapKnown, BetweenWalks
  <2>5. QED BY <1>0, <1>m, <2>1, <2>2, <2>3, <2>4, WalkGoesOn
<1>2. CASE ReadDiffCursor
  <2> DEFINE from == IF diffCursor < 1 THEN 1 ELSE diffCursor
  <2>0. /\ walkPc = "cursor" /\ UNCHANGED <<eventRows, diffCursor>>
        /\ UNCHANGED walkerMemory
    BY <1>2 DEF ReadDiffCursor
  <2>1. CASE from >= walkTarget
    <3>1. WalkerForgets
      BY <1>2, <2>1 DEF ReadDiffCursor
    <3>2. QED BY <1>m, <2>0, <3>1, WalkRests DEF BetweenWalks
  <2>2. CASE ~(from >= walkTarget)
    <3>1. /\ walkAt' = from /\ walkPc' = IF seeded THEN "lookup" ELSE "seed"
          /\ UNCHANGED <<walkTarget, walkLast>>
          /\ diffCursor' = diffCursor /\ seeded' = seeded /\ penalties' = penalties
      BY <1>2, <2>0, <2>2 DEF ReadDiffCursor, walkerMemory
    <3>2. /\ Walked' = from /\ Walked = diffCursor
          /\ MapHeight' = from /\ MapHeight = from
      BY <2>0, <3>1 DEF Walked, MapHeight, BetweenWalks
    <3>3. from \in Int /\ (from <= 1 \/ from <= diffCursor) /\ diffCursor <= from
      BY <1>0
    <3> HIDE DEF from
    <3>4. WalkPlace' /\ HandOf(K, Good)'
      BY <1>0, <1>m, <1>p, <2>0, <3>1, <3>3 DEF WalkPlace, HandOf, BetweenWalks, Batching
    <3>5. MapKnown(K, Good)'
      BY <1>p, <2>0, <3>1, <3>2 DEF MapKnown, BetweenWalks
    <3>6. QED BY <1>0, <1>m, <2>0, <3>2, <3>3, <3>4, <3>5, WalkGoesOn
  <2>3. QED BY <2>1, <2>2
<1>f. ASSUME WalkFails PROVE WalkOf(K, Good)'
  BY <1>f, <1>m, WalkRests DEF WalkFails
<1>3. CASE AskSeed
  <2>1. CASE Answers(walkAt)
    <3>1. /\ walkPc = "seed" /\ walkPc' = "seeding" /\ answered' = ancestor[best][walkAt]
          /\ UNCHANGED <<walkTarget, walkAt, walkLast, eventRows, diffCursor>>
          /\ UNCHANGED <<seeded, penalties>>
      BY <1>3, <2>1 DEF AskSeed, WalkFails, walkerMemory, WalkerForgets
    <3>2. walkAt \in Good => ancestor[best][walkAt] = ancestor[K][walkAt]
      BY <1>0, <2>1 DEF PartOf, Answers
    <3>3. Walked' = Walked /\ MapHeight' = MapHeight
      BY <3>1 DEF Walked, MapHeight, BetweenWalks
    <3>4. WalkPlace' /\ HandOf(K, Good)'
      BY <1>p, <1>m, <3>1, <3>2 DEF WalkPlace, HandOf, BetweenWalks, Batching
    <3>5. MapKnown(K, Good)'
      BY <1>p, <3>1, <3>3 DEF MapKnown, BetweenWalks
    <3>6. QED BY <1>0, <1>m, <3>1, <3>3, <3>4, <3>5, WalkGoesOn
  <2>2. CASE ~Answers(walkAt)
    BY <1>3, <1>f, <2>2 DEF AskSeed
  <2>3. QED BY <2>1, <2>2
<1>4. CASE TakeSeed
  <2>1. /\ walkPc = "seeding" /\ walkPc' = "lookup" /\ seeded'
        /\ penalties' = PenaltiesAfter(ancestor[answered][1], answered, NoPenalties)
        /\ UNCHANGED <<walkTarget, walkAt, walkLast, eventRows, diffCursor>>
    BY <1>4 DEF TakeSeed
  <2>2. answered \in Blocks /\ heightOf[answered] = walkAt /\ 1 <= walkAt
    BY <1>i, <2>1 DEF WalkInv, WalkerTypeOK
  <2>3. MapOf(penalties', answered)
    BY <1>0, <2>1, <2>2, SeedGivesMap
  <2>4. walkAt \in Good => answered = ancestor[K][walkAt]
    BY <1>p, <2>1 DEF HandOf
  <2>5. Walked' = Walked /\ MapHeight' = walkAt
    BY <2>1 DEF Walked, MapHeight, BetweenWalks
  <2>6. WalkPlace' /\ HandOf(K, Good)'
    BY <1>p, <1>m, <2>1 DEF WalkPlace, HandOf, BetweenWalks, Batching
  <2>7. MapKnown(K, Good)'
    BY <2>1, <2>3, <2>4, <2>5 DEF MapKnown, BetweenWalks
  <2>8. QED BY <1>0, <1>m, <2>1, <2>5, <2>6, <2>7, WalkGoesOn
<1>5. CASE LookUp
  <2>1. /\ walkPc = "lookup" /\ walkPc' = "ask" /\ ~overtaken' /\ walkLast' <= walkTarget
        /\ UNCHANGED <<walkTarget, walkAt, eventRows, diffCursor, seeded, penalties>>
    BY <1>0, <1>5 DEF LookUp
  <2>2. Walked' = Walked /\ MapHeight' = MapHeight
    BY <2>1 DEF Walked, MapHeight, BetweenWalks
  <2>3. WalkPlace' /\ HandOf(K, Good)'
    BY <1>p, <1>m, <2>1 DEF WalkPlace, HandOf, BetweenWalks, Batching
  <2>4. MapKnown(K, Good)'
    BY <1>p, <2>1, <2>2 DEF MapKnown, BetweenWalks
  <2>5. QED BY <1>0, <1>m, <2>1, <2>2, <2>3, <2>4, WalkGoesOn
<1>6. CASE AskDiff
  <2>1. CASE Answers(walkAt + 1)
    <3>1. /\ walkPc = "ask" /\ walkPc' = "answer" /\ answered' = ancestor[best][walkAt + 1]
          /\ UNCHANGED <<walkTarget, walkAt, walkLast, eventRows, diffCursor>>
          /\ UNCHANGED <<seeded, penalties, overtaken>>
      BY <1>6, <2>1 DEF AskDiff, WalkFails, walkerMemory, WalkerForgets
    <3>2. walkAt + 1 \in Good => ancestor[best][walkAt + 1] = ancestor[K][walkAt + 1]
      BY <1>0, <2>1 DEF PartOf, Answers
    <3>3. Walked' = Walked /\ MapHeight' = MapHeight
      BY <3>1 DEF Walked, MapHeight, BetweenWalks
    <3>4. WalkPlace' /\ HandOf(K, Good)'
      BY <1>p, <1>m, <3>1, <3>2 DEF WalkPlace, HandOf, BetweenWalks, Batching
    <3>5. MapKnown(K, Good)'
      BY <1>p, <3>1, <3>3 DEF MapKnown, BetweenWalks
    <3>6. QED BY <1>0, <1>m, <3>1, <3>3, <3>4, <3>5, WalkGoesOn
  <2>2. CASE ~Answers(walkAt + 1)
    BY <1>6, <1>f, <2>2 DEF AskDiff
  <2>3. QED BY <2>1, <2>2
<1>7. CASE TakeDiff
  <2> DEFINE from == PreviousOf(answered)
             ups == PenaltyUps(from, answered, penalties)
  <2>1. /\ walkPc = "answer" /\ penalties' = PenaltiesAfter(from, answered, penalties)
        /\ UNCHANGED <<eventRows, diffCursor, seeded, overtaken>>
    BY <1>7 DEF TakeDiff
  <2>2. answered \in Blocks /\ heightOf[answered] = walkAt + 1 /\ 1 <= walkAt /\ seeded
    BY <1>i, <1>p, <2>1 DEF WalkInv, WalkerTypeOK, WalkPlace, Batching
  <2>3. ASSUME walkAt + 1 \in Good
        PROVE  ups = Rises(K, walkAt + 1) /\ MapOf(penalties', ancestor[K][walkAt + 1])
    <3>1. answered = ancestor[K][walkAt + 1] /\ walkAt + 1 <= heightOf[K]
      BY <1>p, <2>1, <2>3 DEF HandOf, PartOf
    <3>2. from = ancestor[K][walkAt]
      BY <1>0, <2>2, <2>3, <3>1, PreviousOnChain
    <3>3. walkAt \in Good
      BY <1>0, <2>3 DEF PartOf
    <3>4. MapHeight = walkAt
      BY <2>1 DEF MapHeight, BetweenWalks
    <3>5. MapOf(penalties, ancestor[K][walkAt])
      BY <1>p, <2>2, <3>3, <3>4 DEF MapKnown
    <3>6. walkAt + 1 \in Heights /\ (walkAt + 1) - 1 = walkAt /\ 2 <= walkAt + 1
      BY <1>0, <2>2, <2>3
    <3>7. penalties' = PenaltiesAfter(ancestor[K][walkAt], ancestor[K][walkAt + 1], penalties)
      BY <2>1, <3>1, <3>2
    <3> HIDE DEF from
    <3>8. QED BY <3>1, <3>2, <3>5, <3>6, <3>7, DiffGivesRises
  <2>4. CASE ups = {}
    <3>1. NextHeight
      BY <1>7, <2>4 DEF TakeDiff
    <3>2. QED BY <1>m, <2>1, <2>3, <2>4, <3>1, HeightIsDone
  <2>5. CASE ups # {}
    <3>1. /\ walkPc' = "write" /\ changes' = ups
          /\ UNCHANGED <<walkTarget, walkAt, walkLast, answered>>
      BY <1>7, <2>5 DEF TakeDiff
    <3>2. Walked' = Walked /\ MapHeight' = walkAt + 1
      BY <2>1, <3>1 DEF Walked, MapHeight, BetweenWalks
    <3> HIDE DEF ups
    <3>3. WalkPlace'
      BY <1>p, <1>m, <2>1, <3>1 DEF WalkPlace, BetweenWalks, Batching
    <3>4. HandOf(K, Good)'
      BY <1>p, <2>1, <2>3, <3>1 DEF HandOf, Rises
    <3>5. MapKnown(K, Good)'
      BY <2>3, <3>1, <3>2 DEF MapKnown, BetweenWalks
    <3>6. QED BY <1>0, <1>m, <2>1, <3>1, <3>2, <3>3, <3>4, <3>5, WalkGoesOn
  <2>6. QED BY <2>4, <2>5
<1>8. CASE WriteEvents
  <2>1. /\ walkPc = "write" /\ walkPc' = "next"
        /\ eventRows' = eventRows \cup {[mn |-> m, height |-> walkAt + 1] : m \in changes}
        /\ UNCHANGED <<walkTarget, walkAt, walkLast, answered, changes, diffCursor>>
        /\ UNCHANGED <<seeded, penalties, overtaken>>
    BY <1>8 DEF WriteEvents, walkerMemory
  <2>2. /\ walkAt < walkLast /\ walkLast <= walkTarget /\ walkTarget <= cursor.height
        /\ 1 <= walkAt /\ diffCursor <= walkAt
        /\ walkAt + 1 \in Good => changes = Rises(K, walkAt + 1)
    BY <1>i, <1>p, <2>1
    DEF WalkInv, WalkerTypeOK, WalkPlace, Batching, BetweenWalks, HandOf
  <2>3. /\ Walked = walkAt /\ Walked' = walkAt + 1
        /\ MapHeight = walkAt + 1 /\ MapHeight' = walkAt + 1
    BY <2>1 DEF Walked, MapHeight, BetweenWalks
  <2>4. WalkPlace' /\ HandOf(K, Good)'
    BY <1>p, <1>m, <2>1 DEF WalkPlace, HandOf, BetweenWalks, Batching
  <2>5. MapKnown(K, Good)'
    BY <1>p, <2>1, <2>3 DEF MapKnown, BetweenWalks
  <2>6. RecordIndexed'
    BY <1>0, <1>m, <2>1, <2>2 DEF WalkOf, RecordIndexed
  <2>7. ASSUME NEW e \in eventRows', e.height \in Good
        PROVE  e.height >= 2 /\ e.mn \in Rises(K, e.height)
    BY <1>0, <2>1, <2>2, <2>7 DEF WalkOf, EventsOf
  <2>8. ASSUME NEW h \in Good, 2 <= h, h <= walkAt + 1, NEW m \in Rises(K, h)
        PROVE  [mn |-> m, height |-> h] \in eventRows'
    <3>1. CASE h <= walkAt
      BY <2>1, <2>3, <2>8, <3>1 DEF WalkOf, EventsOf
    <3>2. CASE h = walkAt + 1
      BY <2>1, <2>2, <2>8, <3>2
    <3>3. QED BY <1>0, <2>8, <3>1, <3>2
  <2>9. EventsOf(K, Good)'
    BY <2>3, <2>7, <2>8 DEF EventsOf, Rises
  <2>10. QED BY <2>4, <2>5, <2>6, <2>9 DEF WalkOf
<1>9. CASE AfterWrite
  <2>1. /\ NextHeight /\ walkPc = "next"
        /\ UNCHANGED <<eventRows, diffCursor, seeded, penalties, overtaken>>
    BY <1>9 DEF AfterWrite, walkerMemory
  <2>2. MapHeight = walkAt + 1 /\ seeded
    BY <1>p, <2>1 DEF MapHeight, BetweenWalks, WalkPlace, Batching
  <2>3. walkAt + 1 \in Good => MapOf(penalties', ancestor[K][walkAt + 1])
    BY <1>p, <2>1, <2>2 DEF MapKnown
  <2>4. QED BY <1>m, <2>1, <2>3, HeightIsDone
<1>10. CASE SaveDiffCursor
  <2>1. /\ walkPc = "save" /\ diffCursor' = walkAt /\ walkPc' = "idle"
        /\ eventRows' = eventRows /\ seeded' = seeded /\ penalties' = penalties
    BY <1>10 DEF SaveDiffCursor, WalkerForgets, walkerMemory
  <2>2. 1 <= walkAt /\ walkAt <= walkTarget /\ walkTarget <= cursor.height
    BY <1>i, <1>p, <2>1 DEF WalkInv, WalkPlace
  <2>3. Walked' = walkAt /\ Walked = walkAt /\ MapHeight = walkAt /\ MapHeight' = walkAt
    BY <1>0, <2>1, <2>2 DEF Walked, MapHeight, BetweenWalks
  <2>4. WalkPlace' /\ HandOf(K, Good)'
    BY <2>1 DEF WalkPlace, HandOf, BetweenWalks, Batching
  <2>5. RecordIndexed'
    BY <1>0, <1>m, <2>1, <2>2 DEF WalkOf, RecordIndexed
  <2>6. MapKnown(K, Good)'
    BY <1>p, <2>1, <2>2, <2>3 DEF MapKnown, BetweenWalks
  <2>7. EventsOf(K, Good)'
    BY <2>1, <2>3 DEF WalkOf, EventsOf, Rises
  <2>8. QED BY <2>4, <2>5, <2>6, <2>7 DEF WalkOf
<1>11. QED
  BY <1>1, <1>2, <1>3, <1>4, <1>5, <1>6, <1>7, <1>8, <1>9, <1>10 DEF WalkNext

-----------------------------------------------------------------------------
(***************************************************************************)
(* Overlapping, on a chain that does not fork                              *)
(***************************************************************************)

\* No two blocks compete.
OneLine ==
    \A b, c \in Blocks : heightOf[b] <= heightOf[c] => ancestor[c][heightOf[b]] = b

Top == CHOOSE b \in Blocks : \A c \in Blocks : heightOf[c] <= heightOf[b]
LineHeights == {h \in Heights : h <= heightOf[Top]}

LineStages == {"idle", "check", "inspect"} \cup IndexStages

\* On one line the indexer never begins a rewind, and what it stores and has in
\* hand is the block of the height.
OnLine ==
    /\ pc \in LineStages
    /\ cursor.height >= 0 => cursor.hash \in Blocks /\ heightOf[cursor.hash] = cursor.height
    /\ \A h \in Heights : blockRows[h] # None =>
         blockRows[h] \in Blocks /\ heightOf[blockRows[h]] = h
    /\ pc \in IndexStages \ {"fetch", "progress"} => blk \in Blocks /\ heightOf[blk] = at
    /\ pc = "progress" => expected \in Blocks /\ heightOf[expected] = at

\* There is a highest block.
LEMMA TopBlock ==
    ASSUME NEW b0 \in Blocks
    PROVE  Top \in Blocks /\ \A c \in Blocks : heightOf[c] <= heightOf[Top]
<1> DEFINE depths == {MaxHeight - heightOf[b] : b \in Blocks}
<1>1. ASSUME NEW b \in Blocks
      PROVE  /\ heightOf[b] \in Int /\ heightOf[b] <= MaxHeight
             /\ MaxHeight - heightOf[b] \in Nat
  <2>1. heightOf[b] \in 0..MaxHeight /\ MaxHeight \in Nat
    BY TreeAssumption DEF Heights
  <2>2. QED BY <2>1
<1>2. depths \in SUBSET Nat /\ depths # {}
  BY <1>1
<1>3. PICK d \in depths : \A e \in depths : d <= e
  <2> HIDE DEF depths
  <2>1. QED BY <1>2, LeastElement
<1>4. PICK b \in Blocks : d = MaxHeight - heightOf[b]
  OBVIOUS
<1>5. ASSUME NEW c \in Blocks PROVE heightOf[c] <= heightOf[b]
  <2>1. MaxHeight - heightOf[c] \in depths
    OBVIOUS
  <2>2. MaxHeight - heightOf[b] <= MaxHeight - heightOf[c]
    BY <1>3, <1>4, <2>1
  <2>3. MaxHeight \in Int
    BY TreeAssumption
  <2>4. QED BY <1>1, <2>2, <2>3
<1>6. \E t \in Blocks : \A c \in Blocks : heightOf[c] <= heightOf[t]
  BY <1>5
<1>7. QED BY <1>6 DEF Top

\* On one line a height names its block, and every chain is the first part of
\* the highest one.
LEMMA LineBlock ==
    ASSUME OneLine, NEW b \in Blocks, NEW c \in Blocks
    PROVE  /\ heightOf[b] = heightOf[c] => b = c
           /\ \A h \in Heights : h <= heightOf[b] => ancestor[b][h] = ancestor[Top][h]
<1>1. Top \in Blocks /\ heightOf[b] <= heightOf[Top]
  BY TopBlock
<1>2. heightOf[b] \in Int /\ heightOf[c] \in Int /\ heightOf[b] \in Heights
  BY TreeAssumption, HeightsAreIntegers
<1>3. heightOf[b] = heightOf[c] => b = c
  BY <1>2, TreeAssumption DEF OneLine
<1>4. ancestor[Top][heightOf[b]] = b
  BY <1>1 DEF OneLine
<1>5. \A h \in Heights : h <= heightOf[b] =>
        ancestor[ancestor[Top][heightOf[b]]][h] = ancestor[Top][h]
  BY <1>1, <1>2, ChainBelow
<1>6. QED BY <1>3, <1>4, <1>5

\* What the node answers with at a height is the block of the height.
LEMMA LineAnswer ==
    ASSUME best \in Blocks, NEW h \in Heights, NodeHash(h) # None
    PROVE  NodeHash(h) \in Blocks /\ heightOf[NodeHash(h)] = h
<1>1. NodeHash(h) = ancestor[best][h] /\ ancestor[best][h] # None
  BY DEF NodeHash
<1>2. h <= heightOf[best]
  BY <1>1, TreeAssumption, HeightsAreIntegers
<1>3. QED BY <1>1, <1>2, ChainBelow

\* So no answer of the node is a reason to rewind.
LEMMA LineVerdict ==
    ASSUME OneLine, ServicesInv, OnLine, cursor.height >= 0, NEW nodeTip,
           NEW nodeHash \in {None, NodeHash(cursor.height)}
    PROVE  ReorgVerdict(cursor.height, cursor.hash, nodeTip, nodeHash) # "rewind"
<1>1. /\ best \in Blocks /\ cursor.height \in Heights
      /\ cursor.hash \in Blocks /\ heightOf[cursor.hash] = cursor.height
  BY HeightsAreIntegers DEF ServicesInv, IInv, TypeOK, StoreTypeOK, OnLine
<1>2. nodeHash # None => nodeHash = cursor.hash
  BY <1>1, LineAnswer, LineBlock
<1>3. QED BY <1>2 DEF ReorgVerdict

\* A step of the indexer on one line adds to the index, or does nothing to it,
\* and leaves the walker's state alone.
LEMMA LineStep ==
    ASSUME OneLine, ServicesInv, OnLine, IndexerStep
    PROVE  /\ OnLine'
           /\ cursor'.height >= cursor.height
           /\ \A h \in Heights : blockRows[h] # None => blockRows'[h] = blockRows[h]
           /\ UNCHANGED <<eventRows, diffCursor, seeded, penalties, overtaken>>
           /\ UNCHANGED <<walkerVars, roundVars, roundRows, followers, best>>
<1>0. /\ best \in Blocks /\ cursor.height \in Int /\ cursor.height \in Heights \cup {-1}
      /\ blockRows \in [Heights -> BlockOrNone] /\ at \in Int
      /\ pc \in IndexStages => at \in Heights /\ cursor.height < at
      /\ pc = "check" => cursor.height >= 0
      /\ \A h \in Heights : h \in Int
  BY HeightsAreIntegers DEF ServicesInv, IInv, TypeOK, StoreTypeOK, PassInv
<1>l. /\ cursor.height >= 0 => cursor.hash \in Blocks /\ heightOf[cursor.hash] = cursor.height
      /\ \A h \in Heights : blockRows[h] # None =>
           blockRows[h] \in Blocks /\ heightOf[blockRows[h]] = h
  BY DEF OnLine
\* The steps that neither store a block nor move the cursor.
<1> DEFINE
      Adds == /\ OnLine' /\ cursor'.height >= cursor.height
              /\ \A h \in Heights : blockRows[h] # None => blockRows'[h] = blockRows[h]
      Quiet ==
      /\ UNCHANGED <<cursor, blockRows>> /\ pc' \in LineStages
      /\ pc' \in IndexStages \ {"fetch", "progress"} => blk' \in Blocks /\ heightOf[blk'] = at'
      /\ pc' = "progress" => expected' \in Blocks /\ heightOf[expected'] = at'
<1>q. ASSUME Quiet
      PROVE  Adds
  <2>1. OnLine'
    BY <1>l, <1>q DEF OnLine
  <2>2. UNCHANGED cursor /\ UNCHANGED blockRows
    BY <1>q
  <2>3. QED BY <1>0, <2>1, <2>2
<1>w. ASSUME UNCHANGED <<cursor, blockRows>>, pc' \in {"idle", "check", "inspect", "fetch"}
      PROVE  Adds
  <2>1. Quiet
    BY <1>w DEF LineStages, IndexStages
  <2>2. QED BY <1>q, <2>1
<1>s. ASSUME NEW last, NEW hash, NEW nodeTip, StartBatch(last, hash, nodeTip)
      PROVE  pc' \in {"idle", "fetch"}
  BY <1>s DEF StartBatch, Forget
<1>1. ASSUME TickFails \/ TickBegins \/ TickChecks \/ ConfirmRewind PROVE Adds
  <2>1. UNCHANGED <<cursor, blockRows>>
    BY <1>1
    DEF TickFails, TickBegins, TickChecks, ConfirmRewind, OperatorConfirms, Inspect, Probe,
        Abandon, indexRows
  <2>2. pc' \in {"idle", "check", "inspect", "fetch"}
    <3>1. CASE TickFails \/ OperatorConfirms
      BY <3>1 DEF TickFails, Abandon, Forget, OperatorConfirms
    <3>2. CASE TickBegins
      BY <1>s, <3>2 DEF TickBegins
    <3>3. CASE TickChecks
      <4> DEFINE nodeHash == IF tip < cursor.height THEN None ELSE NodeHash(cursor.height)
      <4>1. pc = "check" /\ nodeHash \in {None, NodeHash(cursor.height)}
        BY <3>3 DEF TickChecks
      <4>2. ReorgVerdict(cursor.height, cursor.hash, tip, nodeHash) # "rewind"
        BY <1>0, <4>1, LineVerdict
      <4>3. QED BY <1>s, <3>3, <4>2 DEF TickChecks, Abandon, Forget
    <3>4. CASE Inspect
      <4> DEFINE nodeHash == IF cursor.height < 0 \/ tip < cursor.height THEN None
                             ELSE NodeHash(cursor.height)
      <4>1. nodeHash \in {None, NodeHash(cursor.height)}
        OBVIOUS
      <4>2. ~(/\ cursor.height >= 0
              /\ ReorgVerdict(cursor.height, cursor.hash, tip, nodeHash) = "rewind")
        BY <4>1, LineVerdict
      <4>3. Refuse
        BY <3>4, <4>2 DEF Inspect
      <4>4. QED BY <4>3 DEF Refuse, Forget
    <3>5. CASE Probe
      BY <3>5 DEF Probe, OnLine, LineStages, IndexStages
    <3>6. QED BY <1>1, <3>1, <3>2, <3>3, <3>4, <3>5 DEF ConfirmRewind
  <2>3. QED BY <1>w, <2>1, <2>2
<1>2. ASSUME Walk \/ Resume \/ Rewind PROVE Adds
  BY <1>2
  DEF Walk, Resume, Rewind, MoveCursor, DropBlocks, DropTransactions, DropEpochs,
      DropCommitments, ResetRounds, ClearSuccessor, DropEvents, LowerDiffCursor, ResetWalker,
      OnLine, LineStages, IndexStages
<1>3. ASSUME FetchHash PROVE Adds
  <2>1. UNCHANGED <<cursor, blockRows>>
    BY <1>3 DEF FetchHash, Abandon, indexRows
  <2>2. CASE NodeHash(at) = None
    <3>1. pc' = "idle"
      BY <1>3, <2>2 DEF FetchHash, Abandon, Forget
    <3>2. QED BY <1>w, <2>1, <3>1
  <2>3. CASE NodeHash(at) # None
    <3>1. pc' = "getblock" /\ blk' = NodeHash(at) /\ at' = at /\ pc = "fetch"
      BY <1>3, <2>3 DEF FetchHash
    <3>2. NodeHash(at) \in Blocks /\ heightOf[NodeHash(at)] = at
      BY <1>0, <2>3, <3>1, LineAnswer DEF IndexStages
    <3>3. Quiet
      BY <2>1, <3>1, <3>2 DEF LineStages, IndexStages
    <3>4. QED BY <1>q, <3>3
  <2>4. QED BY <2>2, <2>3
<1>4. ASSUME FetchBlock \/ WriteCommitments \/ WriteEpoch \/ WriteTransactions PROVE Adds
  <2>1. UNCHANGED <<cursor, blockRows>>
    BY <1>4 DEF FetchBlock, WriteCommitments, WriteEpoch, WriteTransactions, Abandon, indexRows
  <2>2. /\ pc \in IndexStages \ {"fetch", "progress"}
        /\ \/ pc' = "idle"
           \/ /\ pc' \in IndexStages \ {"fetch", "progress"}
              /\ UNCHANGED <<blk, at>>
    BY <1>4
    DEF FetchBlock, WriteCommitments, WriteEpoch, WriteTransactions, Abandon, Forget, Goto,
        jobVars, IndexStages
  <2>3. blk \in Blocks /\ heightOf[blk] = at
    BY <2>2 DEF OnLine
  <2>4. Quiet
    BY <2>1, <2>2, <2>3 DEF LineStages, IndexStages
  <2>5. QED BY <1>q, <2>4
<1>5. ASSUME UpsertBlock PROVE Adds
  <2>1. /\ pc = "upsert" /\ at \in Heights /\ blk \in Blocks /\ heightOf[blk] = at
    BY <1>0, <1>5 DEF UpsertBlock, OnLine, IndexStages
  <2>2. CASE blockRows[at] \notin {None, blk}
    <3>1. pc' = "idle" /\ UNCHANGED <<cursor, blockRows>>
      BY <1>5, <2>2 DEF UpsertBlock, Abandon, Forget, indexRows
    <3>2. QED BY <1>w, <3>1
  <2>3. CASE blockRows[at] \in {None, blk}
    <3>1. /\ blockRows' = [blockRows EXCEPT ![at] = blk] /\ UNCHANGED cursor
          /\ pc' = "link" /\ UNCHANGED <<blk, at>>
      BY <1>5, <2>3 DEF UpsertBlock, Goto, jobVars
    <3>2. \A h \in Heights : blockRows'[h] = IF h = at THEN blk ELSE blockRows[h]
      BY <1>0, <3>1
    <3>3. \A h \in Heights : blockRows[h] # None => blockRows'[h] = blockRows[h]
      BY <2>3, <3>2
    <3>4. OnLine'
      BY <1>l, <2>1, <3>1, <3>2 DEF OnLine, LineStages, IndexStages
    <3>5. QED BY <1>0, <3>1, <3>3, <3>4
  <2>4. QED BY <2>2, <2>3
<1>6. ASSUME LinkBlock PROVE Adds
  <2>1. UNCHANGED <<cursor, blockRows>>
    BY <1>6 DEF LinkBlock
  <2>2. pc = "link" /\ blk \in Blocks /\ heightOf[blk] = at
    BY <1>6 DEF LinkBlock, OnLine, IndexStages
  <2>3. \/ pc' = "idle"
        \/ pc' = "fetch"
        \/ pc' = "progress" /\ expected' = blk /\ at' = at
    BY <1>6 DEF LinkBlock, Forget
  <2>4. Quiet
    BY <2>1, <2>2, <2>3 DEF LineStages, IndexStages
  <2>5. QED BY <1>q, <2>4
<1>7. ASSUME SaveProgress PROVE Adds
  <2>1. /\ pc = "progress" /\ cursor' = [height |-> at, hash |-> expected]
        /\ UNCHANGED blockRows /\ pc' \in {"idle", "fetch"}
    BY <1>7 DEF SaveProgress, Forget, indexRows
  <2>2. expected \in Blocks /\ heightOf[expected] = at /\ cursor.height < at
    BY <1>0, <2>1 DEF OnLine, IndexStages
  <2>3. cursor'.height = at /\ cursor'.hash = expected
    BY <2>1
  <2>4. OnLine'
    BY <1>l, <2>1, <2>2, <2>3 DEF OnLine, LineStages, IndexStages
  <2>5. QED BY <1>0, <2>1, <2>2, <2>3, <2>4
<1>8. Adds
  BY <1>1, <1>2, <1>3, <1>4, <1>5, <1>6, <1>7 DEF IndexerStep, Tick, IndexBlock
<1>9. /\ UNCHANGED <<eventRows, diffCursor, seeded, penalties, overtaken, roundRows, best>>
      /\ UNCHANGED walkerVars /\ UNCHANGED roundVars /\ UNCHANGED followers
  <2>1. ~Rewind
    BY DEF Rewind, MoveCursor, DropBlocks, DropTransactions, DropEpochs,
      DropCommitments, ResetRounds, ClearSuccessor, DropEvents, LowerDiffCursor, ResetWalker,
      OnLine, LineStages, IndexStages
  <2>2. QED
    BY <2>1
    DEF IndexerStep, Tick, TickFails, TickBegins, TickChecks, Walk, Resume, IndexBlock, Abandon,
         FetchHash, FetchBlock, WriteCommitments, WriteEpoch, WriteTransactions, UpsertBlock,
         LinkBlock, SaveProgress, ConfirmRewind, OperatorConfirms, Inspect, Probe, sharedRest,
         walkerMemory, nodeVars
<1>10. QED BY <1>8, <1>9

\* What the indexer leaves on record, and every one of its steps keeps.
LEMMA LineStays ==
    ASSUME OneLine, ServicesInv, OnLine, [RacingNext]_serviceVars
    PROVE  /\ OnLine'
           /\ cursor'.height >= cursor.height
           /\ \A h \in Heights : blockRows[h] # None => blockRows'[h] = blockRows[h]
<1>0. cursor.height \in Int
  BY HeightsAreIntegers DEF ServicesInv, IInv, TypeOK, StoreTypeOK
<1>1. CASE IndexerStep
  BY <1>1, LineStep
<1>2. CASE ~IndexerStep
  <2>1. /\ UNCHANGED cursor /\ UNCHANGED blockRows
        /\ \/ UNCHANGED <<pc, blk, at, expected>>
           \/ pc' = "idle"
    <3>1. CASE WalkerStep
      BY <3>1
      DEF WalkerStep, WalkNext, WalkBegins, ReadDiffCursor, AskSeed, TakeSeed, LookUp, AskDiff,
          TakeDiff, WriteEvents, AfterWrite, SaveDiffCursor, walkerReads, indexRows,
          indexerVars, jobVars
    <3>2. CASE CollectorStep
      BY <3>2
      DEF CollectorStep, CollectNext, CollectBegins, ObserveQuorums, CountMasternodes,
          RemovePlaceholders, PlanRounds, JudgeRound, LookUpMined, WriteFormed, StampResolved,
          RecomputeStreaks, collectorReads, indexRows, indexerVars, jobVars
    <3>3. CASE ProcessCrash
      BY <3>3 DEF ProcessCrash, Forget, indexRows
    <3>4. CASE NodeStep(NodeMoves) \/ NodeStep(NodeGrows)
      BY <3>4 DEF NodeStep, indexRows, indexerVars, jobVars
    <3>5. CASE UNCHANGED serviceVars
      BY <3>5 DEF serviceVars, vars, indexRows, indexerVars, jobVars
    <3>6. QED BY <1>2, <3>1, <3>2, <3>3, <3>4, <3>5 DEF RacingNext
  <2>2. OnLine'
    BY <2>1 DEF OnLine, LineStages, IndexStages
  <2>3. QED BY <1>0, <2>1, <2>2
<1>3. QED BY <1>1, <1>2

\* On a chain that does not fork nothing stored is ever lost and the cursor never
\* falls, whatever overlaps, however the node restarts and falls back, and
\* wherever the process dies.
THEOREM NothingIsLost == ASSUME OneLine PROVE RacingSpec => NothingLostWithoutFork
<1>1. ServicesInit({{"walker"}, {"collector"}}) => OnLine
  BY HeightsAreIntegers
  DEF ServicesInit, Init, StoreInit, IndexerMemoryInit, OnLine, LineStages, IndexStages
<1>2. ServicesInv /\ OnLine /\ [RacingNext]_serviceVars => OnLine'
  BY LineStays
<1>3. ServicesInv /\ OnLine /\ [RacingNext]_serviceVars =>
        [/\ cursor'.height >= cursor.height
         /\ \A h \in Heights : blockRows[h] # None => blockRows'[h] = blockRows[h]]_vars
  BY LineStays
<1>4. QED
  BY <1>1, <1>2, <1>3, ServicesInvariant, PTL DEF RacingSpec, NothingLostWithoutFork

\* On one line a walk is of the one chain at every height.
LEMMA LineIsPart == ASSUME OneLine, best \in Blocks PROVE PartOf(Top, LineHeights)
<1>1. Top \in Blocks /\ heightOf[Top] \in Int /\ heightOf[best] \in Int
  BY TopBlock, TreeAssumption, HeightsAreIntegers
<1>2. ASSUME NEW h \in LineHeights, NEW k \in Heights, k <= h PROVE k \in LineHeights
  BY <1>1, <1>2, HeightsAreIntegers DEF LineHeights
<1>3. ASSUME NEW h \in LineHeights, h <= heightOf[best]
      PROVE  ancestor[best][h] = ancestor[Top][h]
  BY <1>3, LineBlock DEF LineHeights
<1>4. QED BY <1>2, <1>3 DEF PartOf, LineHeights

LEMMA LineWalk ==
    ASSUME OneLine, ServicesInv, OnLine, WalkOf(Top, LineHeights), [RacingNext]_serviceVars
    PROVE  WalkOf(Top, LineHeights)'
<1>0. /\ Top \in Blocks /\ LineHeights \in SUBSET Heights /\ best \in Blocks
      /\ cursor.height \in Int /\ diffCursor \in Int /\ walkTarget \in Int
      /\ \A e \in eventRows : e.height \in Int
  BY TopBlock, HeightsAreIntegers
  DEF LineHeights, ServicesInv, ServicesTypeOK, WalkerTypeOK, IInv, TypeOK, StoreTypeOK
\* The steps that touch nothing of the walker's, and do not lower the cursor.
<1>q. ASSUME UNCHANGED <<walkPc, walkTarget, walkAt, walkLast, answered, changes>>,
             UNCHANGED <<seeded, penalties, overtaken, eventRows, diffCursor>>,
             cursor'.height \in Int, cursor'.height >= cursor.height
      PROVE  WalkOf(Top, LineHeights)'
  <2>1. Walked' = Walked /\ MapHeight' = MapHeight
    BY <1>q DEF Walked, MapHeight
  <2>2. WalkPlace'
    BY <1>0, <1>q DEF WalkOf, WalkPlace
  <2>3. RecordIndexed'
    BY <1>0, <1>q DEF WalkOf, RecordIndexed
  <2>4. EventsOf(Top, LineHeights)' /\ HandOf(Top, LineHeights)' /\ MapKnown(Top, LineHeights)'
    BY <1>q, <2>1 DEF WalkOf, EventsOf, HandOf, MapKnown
  <2>5. QED BY <2>2, <2>3, <2>4 DEF WalkOf
<1>1. CASE IndexerStep
  <2>1. cursor'.height \in Int
    BY <1>1, IndexerKeepsFollowers, HeightsAreIntegers
    DEF ServicesInv, IInv, TypeOK, StoreTypeOK
  <2>2. QED BY <1>1, <1>q, <2>1, LineStep DEF walkerVars
<1>2. CASE WalkerStep
  BY <1>0, <1>2, LineIsPart, WalkFollows DEF WalkerStep
<1>3. CASE ProcessCrash
  <2>1. /\ WalkerForgets /\ ~seeded' /\ UNCHANGED <<eventRows, diffCursor, cursor>>
    BY <1>3 DEF ProcessCrash
  <2>2. QED BY <1>0, <2>1, WalkRests
<1>4. CASE CollectorStep \/ NodeStep(NodeMoves) \/ NodeStep(NodeGrows) \/ UNCHANGED serviceVars
  <2>1. /\ UNCHANGED walkerVars /\ UNCHANGED <<seeded, penalties, overtaken>>
        /\ UNCHANGED <<eventRows, diffCursor>> /\ UNCHANGED cursor
    <3>1. CASE CollectorStep
      BY <3>1
      DEF CollectorStep, CollectNext, CollectBegins, ObserveQuorums, CountMasternodes,
          RemovePlaceholders, PlanRounds, JudgeRound, LookUpMined, WriteFormed, StampResolved,
          RecomputeStreaks, collectorReads, walkerMemory
    <3>2. CASE NodeStep(NodeMoves) \/ NodeStep(NodeGrows)
      BY <3>2 DEF NodeStep, sharedRest, walkerMemory
    <3>3. CASE UNCHANGED serviceVars
      BY <3>3 DEF serviceVars, vars, sharedRest, walkerMemory
    <3>4. QED BY <1>4, <3>1, <3>2, <3>3
  <2>2. QED BY <1>0, <1>q, <2>1 DEF walkerVars
<1>5. QED BY <1>1, <1>2, <1>3, <1>4 DEF RacingNext

\* On a chain that does not fork every event on record is a penalty increase of
\* it at every await of indexer and walker, and none up to the walker's cursor is
\* missing.
THEOREM EventsStayFacts == ASSUME OneLine PROVE RacingSpec => []EventsAreFacts
<1>1. ServicesInit({{"walker"}, {"collector"}}) => OnLine /\ WalkOf(Top, LineHeights)
  <2> SUFFICES ASSUME ServicesInit({{"walker"}, {"collector"}})
               PROVE  OnLine /\ WalkOf(Top, LineHeights)
    OBVIOUS
  <2>1. OnLine
    BY HeightsAreIntegers
    DEF ServicesInit, Init, StoreInit, IndexerMemoryInit, OnLine, LineStages, IndexStages
  <2>2. /\ walkPc = "idle" /\ ~seeded /\ eventRows = {} /\ diffCursor = -1
        /\ cursor.height = -1
    BY DEF ServicesInit, Init, StoreInit, WalkerMemoryInit, WalkerInit
  <2>3. \A h \in LineHeights : ~(2 <= h /\ h <= -1)
    BY HeightsAreIntegers DEF LineHeights
  <2>4. WalkOf(Top, LineHeights)
    BY <2>2, <2>3
    DEF WalkOf, WalkPlace, RecordIndexed, EventsOf, HandOf, MapKnown, Walked, BetweenWalks,
        Batching
  <2>5. QED BY <2>1, <2>4
<1>2. ASSUME ServicesInv, OnLine, WalkOf(Top, LineHeights), [RacingNext]_serviceVars
      PROVE  OnLine' /\ WalkOf(Top, LineHeights)'
  BY <1>2, LineStays, LineWalk
<1>3. ASSUME ServicesInv, OnLine, WalkOf(Top, LineHeights) PROVE EventsAreFacts
  <2>0. /\ Top \in Blocks /\ heightOf[Top] \in Int /\ MaxHeight \in Int
        /\ cursor.height \in Int /\ diffCursor \in Int /\ walkAt \in Int
        /\ eventRows \subseteq [mn: Masternodes, height: Heights]
        /\ cursor.height >= 0 => cursor.height <= heightOf[Top]
        /\ \A c \in Blocks : heightOf[c] <= heightOf[Top]
    BY <1>3, TopBlock, TreeAssumption, HeightsAreIntegers
    DEF OnLine, ServicesInv, ServicesTypeOK, WalkerTypeOK, IInv, TypeOK, StoreTypeOK
  <2>1. diffCursor <= Walked
    BY <1>3, <2>0 DEF WalkOf, WalkPlace, Walked, BetweenWalks
  <2>2. ASSUME NEW e \in eventRows PROVE e \in Increases(Top, MaxHeight)
    <3>1. e.height \in Heights /\ e.mn \in Masternodes /\ e = [mn |-> e.mn, height |-> e.height]
      BY <2>0
    <3>2. e.height <= cursor.height
      BY <1>3 DEF WalkOf, RecordIndexed
    <3>3. e.height \in Int /\ 0 <= e.height /\ e.height <= MaxHeight
      BY <2>0, <3>1 DEF Heights
    <3>4. e.height <= heightOf[Top] /\ e.height \in LineHeights
      BY <2>0, <3>1, <3>2, <3>3 DEF LineHeights
    <3>5. e.height >= 2 /\ e.mn \in Rises(Top, e.height)
      BY <1>3, <3>4 DEF WalkOf, EventsOf
    <3>6. e.height \in 2..MaxHeight
      BY <2>0, <3>3, <3>5
    <3>7. e \in [mn: Masternodes, height: 2..MaxHeight]
      BY <3>1, <3>6
    <3>8. QED BY <3>4, <3>5, <3>7 DEF Increases, Rises
  <2>3. ASSUME NEW e \in Increases(Top, diffCursor) PROVE e \in eventRows
    <3>1. /\ e \in [mn: Masternodes, height: 2..diffCursor] /\ e.height <= heightOf[Top]
          /\ penaltyOf[ancestor[Top][e.height]][e.mn]
               > penaltyOf[ancestor[Top][e.height - 1]][e.mn]
      BY DEF Increases
    <3>2. /\ e.mn \in Masternodes /\ e.height \in 2..diffCursor
          /\ e = [mn |-> e.mn, height |-> e.height]
      BY <3>1
    <3>3. e.mn \in Rises(Top, e.height)
      BY <3>1, <3>2 DEF Rises
    <3>4. e.height \in Int /\ 2 <= e.height /\ e.height <= Walked
      <4>1. Walked \in Int
        BY <2>0 DEF Walked
      <4>2. QED BY <2>0, <2>1, <3>2, <4>1
    <3>5. heightOf[Top] <= MaxHeight
      BY <2>0, TreeAssumption DEF Heights
    <3>6. e.height \in Heights
      BY <2>0, <3>1, <3>4, <3>5 DEF Heights
    <3>7. e.height \in LineHeights
      BY <3>1, <3>6 DEF LineHeights
    <3>8. QED BY <1>3, <3>2, <3>3, <3>4, <3>7 DEF WalkOf, EventsOf
  <2>4. QED BY <2>2, <2>3 DEF EventsAreFacts, Top
<1>4. QED BY <1>1, <1>2, <1>3, ServicesInvariant, PTL DEF RacingSpec

-----------------------------------------------------------------------------
(***************************************************************************)
(* Overlapping, on a chain that does not fork: the verdicts                *)
(***************************************************************************)

\* The newest snapshot of a round's height tells whether its masternodes
\* sufficed.
SnapshotsTell ==
    \A s \in Slots : \E h \in Snapshots :
        /\ h <= s
        /\ \A k \in Snapshots : k <= s => k <= h
        /\ enabledAt[h] < MinSize <=> enabledAt[s] < MinSize

JudgingStages == {"count", "clean", "plan", "judge", "lookup", "write"}

\* While a pass judges, what it has in hand is what the one chain lists at the
\* height the pass observes, however the node has moved since.
ListedOnLine ==
    roundPc \in JudgingStages =>
        /\ ObservationHeight(roundTip) \in LineHeights
        /\ listed = Listing(ancestor[Top][ObservationHeight(roundTip)])

\* A row says nothing of its round that the one chain contradicts.
Truthful(s, row) ==
    /\ row.status = "formed" =>
         row.minedBlock = MinedIn(Top, s) /\ s \in Committed(Top)
    /\ row.status = "failed" =>
         s \notin Committed(Top) /\ IsSchedulable(s) /\ enabledAt[s] >= MinSize
    /\ row.status = "impossible" =>
         s \notin Committed(Top) /\ enabledAt[s] < MinSize

RoundsTruthful == \A s \in Slots : Truthful(s, roundRows[s])

\* What the collector takes for the number of masternodes at a round decides the
\* round as their true number does.
LEMMA SnapshotDecides ==
    ASSUME SnapshotsTell, NEW s \in Slots
    PROVE  /\ EnabledAt(s) \in Nat
           /\ EnabledAt(s) < MinSize <=> enabledAt[s] < MinSize
<1> DEFINE before == {h \in Snapshots : h <= s}
<1>1. PICK h \in Snapshots :
        /\ h <= s /\ \A k \in Snapshots : k <= s => k <= h
        /\ enabledAt[h] < MinSize <=> enabledAt[s] < MinSize
  BY DEF SnapshotsTell
<1>2. h \in before /\ \A k \in before : k <= h
  BY <1>1
<1>3. before \subseteq Heights /\ \A k \in before : k \in Int
  BY ScheduleAssumption, HeightsAreIntegers
<1>4. \A g \in before : (\A k \in before : k <= g) => g = h
  BY <1>2, <1>3
<1>5. EnabledAt(s) = enabledAt[CHOOSE g \in before : \A k \in before : k <= g]
  BY <1>2 DEF EnabledAt
<1> HIDE DEF before
<1>6. EnabledAt(s) = enabledAt[h]
  BY <1>2, <1>4, <1>5
<1>7. h \in Heights
  BY <1>2, <1>3
<1>8. QED BY <1>1, <1>6, <1>7, ScheduleAssumption

\* What a block's chain has mined the highest chain has mined, in the same block.
LEMMA MinedOnLine ==
    ASSUME Top \in Blocks, NEW o \in LineHeights
    PROVE  /\ ancestor[Top][o] \in Blocks /\ heightOf[ancestor[Top][o]] = o
           /\ Committed(ancestor[Top][o]) \subseteq Committed(Top)
           /\ \A s \in Committed(ancestor[Top][o]) :
                MinedIn(ancestor[Top][o], s) = MinedIn(Top, s)
           /\ \A s \in Slots, h \in 0..o :
                Commits(ancestor[Top][h], s) => s \in Committed(ancestor[Top][o])
<1> DEFINE b == ancestor[Top][o]
<1>0. o \in Heights /\ o <= heightOf[Top] /\ o \in Int /\ heightOf[Top] \in Int
      /\ heightOf[Top] \in Heights
  BY TreeAssumption, HeightsAreIntegers DEF LineHeights
<1>1. b \in Blocks /\ heightOf[b] = o
  BY <1>0, ChainBlock
<1>2. ASSUME NEW h \in 0..o
      PROVE  h \in 0..heightOf[Top] /\ ancestor[b][h] = ancestor[Top][h]
  <2>1. h \in 0..heightOf[Top]
    BY <1>0
  <2>2. h \in Heights
    <3>1. heightOf[Top] \in 0..MaxHeight /\ MaxHeight \in Int
      BY <1>0, TreeAssumption DEF Heights
    <3>2. QED BY <2>1, <3>1 DEF Heights
  <2>3. h <= o
    BY <1>0
  <2>4. QED BY <1>0, <2>1, <2>2, <2>3, ChainBelow
<1> HIDE DEF b
<1>3. ASSUME NEW s \in Committed(b)
      PROVE  s \in Committed(Top) /\ MinedIn(b, s) = MinedIn(Top, s)
  <2>1. PICK h \in 0..o : MinedIn(b, s) = ancestor[b][h]
    BY <1>1, <1>3, MinedInChain
  <2>2. /\ h \in 0..heightOf[Top] /\ MinedIn(b, s) = ancestor[Top][h]
        /\ Commits(ancestor[Top][h], s) /\ s \in Slots
    BY <1>1, <1>2, <1>3, <2>1, MinedInChain DEF Committed
  <2>3. s \in Committed(Top)
    BY <2>2 DEF Committed
  <2>4. PICK k \in 0..heightOf[Top] : MinedIn(Top, s) = ancestor[Top][k]
    BY <2>3, MinedInChain
  <2>5. Commits(ancestor[Top][k], s)
    BY <2>3, <2>4, MinedInChain
  <2>6. k = h
    BY <2>2, <2>5, CommitmentAssumption
  <2>7. QED BY <2>2, <2>3, <2>4, <2>6
<1>4. ASSUME NEW s \in Slots, NEW h \in 0..o, Commits(ancestor[Top][h], s)
      PROVE  s \in Committed(b)
  <2>1. Commits(ancestor[b][h], s)
    BY <1>2, <1>4
  <2>2. QED BY <1>1, <2>1 DEF Committed
<1>5. QED BY <1>1, <1>3, <1>4 DEF b

\* A round that is due, is not listed, and is not older than all that is listed
\* was never committed.
LEMMA AbsentIsUncommitted ==
    ASSUME Top \in Blocks, ListedOnLine, roundPc \in JudgingStages, roundTip \in Heights,
           NEW s \in Slots, listed[s] = None, roundTip >= s + WindowEnd,
           IsSchedulable(s), AbsenceIsEvidence(s)
    PROVE  s \notin Committed(Top)
<1> DEFINE o == ObservationHeight(roundTip)
           b == ancestor[Top][o]
           After(t) == {u \in Committed(b) : u > t}
<1>0. /\ o \in LineHeights /\ listed = Listing(b)
      /\ roundTip \in Int /\ s \in Int /\ WindowEnd \in Int
      /\ FormationEnd \in Int /\ ActiveCount \in Int /\ ActiveCount > 0
  BY ScheduleAssumption, ContentAssumption, HeightsAreIntegers DEF ListedOnLine
<1>1. SUFFICES ASSUME s \in Committed(Top) PROVE FALSE
  OBVIOUS
<1>2. PICK h \in 0..heightOf[Top] : Commits(ancestor[Top][h], s)
  BY <1>1 DEF Committed
<1>3. h <= s + WindowEnd
  BY <1>2, CommitmentAssumption
<1>4. h \in Int /\ 0 <= h /\ o \in Int
  <2>1. heightOf[Top] \in Int /\ o \in Heights
    BY <1>0, TreeAssumption, HeightsAreIntegers DEF LineHeights
  <2>2. h \in Int /\ 0 <= h
    BY <2>1
  <2>3. QED BY <2>1, <2>2, HeightsAreIntegers
<1>5. h <= o
  <2>1. CASE roundTip < FormationEnd - 1
    <3>1. o = roundTip
      BY <2>1 DEF ObservationHeight
    <3>2. QED BY <1>0, <1>3, <1>4, <3>1
  <2>2. CASE ~(roundTip < FormationEnd - 1)
    <3>1. o = FormationEnd - 2
      BY <2>2 DEF ObservationHeight
    <3>2. s < FormationEnd
      BY DEF IsSchedulable
    <3>3. s + WindowEnd < FormationEnd - 1
      BY <3>2, CommitmentAssumption
    <3>4. QED BY <1>0, <1>3, <1>4, <3>1, <3>3
  <2>3. QED BY <2>1, <2>2
<1>6. h \in 0..o
  BY <1>4, <1>5
<1>7. s \in Committed(b) /\ b \in Blocks /\ heightOf[b] = o
  BY <1>0, <1>2, <1>6, MinedOnLine
<1>8. o < FormationEnd - 1
  BY <1>0 DEF ObservationHeight
\* The listing cannot tell the round from one it no longer reaches.
<1>9. ASSUME NEW t \in Slots
      PROVE  /\ {u \in Committed(b) : u > t} = After(t)
             /\ listed[t] = IF Cardinality(After(t)) < ActiveCount THEN MinedIn(b, t) ELSE None
  <2>1. listed[t] = IF /\ heightOf[b] < FormationEnd - 1
                       /\ Cardinality({u \in Committed(b) : u > t}) < ActiveCount
                    THEN MinedIn(b, t) ELSE None
    BY <1>0 DEF Listing
  <2> HIDE DEF o, b
  <2>2. QED BY <1>7, <1>8, <2>1
<1>10. \A t \in Slots : IsFiniteSet(After(t)) /\ Cardinality(After(t)) \in Nat
  <2>1. \A t \in Slots : After(t) \in SUBSET Slots
    BY DEF Committed
  <2> HIDE DEF After
  <2>2. QED BY <2>1, SlotsFinite
<1>b. Committed(b) \subseteq Slots /\ \A t \in Slots : t \in Nat
  BY ContentAssumption, HeightsAreIntegers DEF Committed, Heights
<1> HIDE DEF o, b
<1>11. ~(Cardinality(After(s)) < ActiveCount)
  <2>1. MinedIn(b, s) # None
    <3>1. PICK k \in 0..heightOf[b] : MinedIn(b, s) = ancestor[b][k]
      BY <1>7, MinedInChain
    <3>2. k \in Heights /\ k <= heightOf[b]
      BY <1>7, HeightsAreIntegers, TreeAssumption DEF Heights
    <3>3. QED BY <1>7, <3>1, <3>2, ChainBlock, TreeAssumption
  <2>2. QED BY <1>9, <2>1
\* A round before it that is listed has no fewer after it.
<1>12. ASSUME NEW t \in Slots, listed[t] # None, t <= s PROVE FALSE
  <2>1. Cardinality(After(t)) < ActiveCount
    BY <1>9, <1>12
  <2>2. After(s) \in SUBSET After(t)
    BY <1>12, <1>b
  <2> HIDE DEF After
  <2>3. Cardinality(After(s)) <= Cardinality(After(t))
    BY <1>10, <2>2, FS_Subset
  <2>4. QED BY <1>0, <1>10, <1>11, <2>1, <2>3
\* And the newest commitment is always listed.
<1>13. ASSUME \A t \in Slots : listed[t] = None PROVE FALSE
  <2> DEFINE gaps == {MaxHeight - u : u \in Committed(b)}
  <2>1. \A u \in Committed(b) : u \in Nat /\ MaxHeight - u \in Nat
    <3>1. \A u \in Committed(b) : u \in 0..MaxHeight
      BY <1>b, ContentAssumption DEF Heights
    <3>2. QED BY <3>1, TreeAssumption
  <2>2. gaps \in SUBSET Nat /\ gaps # {}
    BY <1>7, <2>1
  <2>3. PICK d \in gaps : \A e \in gaps : d <= e
    <3> HIDE DEF gaps
    <3>1. QED BY <2>2, LeastElement
  <2>4. PICK t \in Committed(b) : d = MaxHeight - t
    OBVIOUS
  <2>5. ASSUME NEW u \in Committed(b) PROVE ~(u > t)
    <3>1. MaxHeight - u \in gaps
      OBVIOUS
    <3>2. MaxHeight - t <= MaxHeight - u
      BY <2>3, <2>4, <3>1
    <3>3. MaxHeight \in Int /\ u \in Int /\ t \in Int
      BY <2>1, TreeAssumption
    <3>4. QED BY <3>2, <3>3
  <2>6. After(t) = {} /\ t \in Slots
    BY <1>b, <2>5
  <2>7. Cardinality(After(t)) = 0
    <3> HIDE DEF After
    <3>1. QED BY <2>6, FS_EmptySet
  <2>8. listed[t] = MinedIn(b, t)
    BY <1>0, <1>9, <2>6, <2>7
  <2>9. MinedIn(b, t) # None
    <3>1. PICK k \in 0..heightOf[b] : MinedIn(b, t) = ancestor[b][k]
      BY <1>7, MinedInChain
    <3>2. k \in Heights /\ k <= heightOf[b]
      BY <1>7, HeightsAreIntegers, TreeAssumption DEF Heights
    <3>3. QED BY <1>7, <3>1, <3>2, ChainBlock, TreeAssumption
  <2>10. QED BY <1>13, <2>6, <2>8, <2>9
<1>14. QED BY <1>12, <1>13 DEF AbsenceIsEvidence

\* A collection's step keeps every row true to the one chain.
LEMMA LineCollect ==
    ASSUME OneLine, SnapshotsTell, ServicesInv, ListedOnLine, RoundsTruthful, CollectNext
    PROVE  ListedOnLine' /\ RoundsTruthful'
<1>0. /\ Top \in Blocks /\ best \in Blocks /\ roundRows \in [Slots -> RoundRow]
      /\ CollectorTypeOK /\ roundTip \in Heights /\ listed \in [Slots -> BlockOrNone]
  BY TopBlock DEF ServicesInv, ServicesTypeOK, CollectorTypeOK, IInv, TypeOK, StoreTypeOK
<1>a. plan # {} => First \in plan /\ First \in Slots
  BY <1>0, FirstOfPlan DEF CollectorTypeOK
\* Steps that take the listing as it is, or let go of it.
<1>k. ASSUME UNCHANGED <<roundTip, listed>>,
             roundPc \in JudgingStages
      PROVE  ListedOnLine'
  BY <1>k DEF ListedOnLine
<1>i. ASSUME roundPc' \in {"idle", "list", "streaks"} PROVE ListedOnLine'
  BY <1>i DEF ListedOnLine, JudgingStages
\* Steps that change no status and no block.
<1>r. ASSUME \A s \in Slots :
               \/ roundRows'[s].status \in {"absent", "pending"}
               \/ /\ roundRows'[s].status = roundRows[s].status
                  /\ roundRows'[s].minedBlock = roundRows[s].minedBlock
      PROVE  RoundsTruthful'
  BY <1>r DEF RoundsTruthful, Truthful
\* Steps that write the first round of the plan.
<1>f. ASSUME plan # {}, NEW row, Truthful(First, row),
             roundRows' = [roundRows EXCEPT ![First] = row]
      PROVE  RoundsTruthful'
  <2>1. \A s \in Slots : roundRows'[s] = IF s = First THEN row ELSE roundRows[s]
    BY <1>0, <1>f
  <2>2. \A s \in Slots : Truthful(s, roundRows'[s])
    BY <1>f, <2>1 DEF RoundsTruthful
  <2>3. QED BY <2>2 DEF RoundsTruthful
\* What a judging pass has listed is where the one chain has it.
<1>m. ASSUME roundPc \in JudgingStages, NEW s \in Slots, listed[s] # None
      PROVE  listed[s] = MinedIn(Top, s) /\ s \in Committed(Top)
  <2> DEFINE o == ObservationHeight(roundTip)
             b == ancestor[Top][o]
  <2>1. o \in LineHeights /\ listed = Listing(b)
    BY <1>m DEF ListedOnLine
  <2>2. listed[s] = MinedIn(b, s) /\ s \in Committed(b)
    BY <1>m, <2>1 DEF Listing, MinedIn
  <2>3. QED BY <1>0, <2>1, <2>2, MinedOnLine
<1>1. CASE CollectBegins
  BY <1>1, <1>i, <1>r DEF CollectBegins
<1>2. CASE ObserveQuorums
  <2> DEFINE h == ObservationHeight(roundTip)
  <2>1. CASE online /\ h <= NodeTip
    <3>1. /\ listed' = Listing(ancestor[best][h]) /\ roundPc' = "count"
          /\ UNCHANGED <<roundTip, roundRows>>
      BY <1>2, <2>1 DEF ObserveQuorums
    <3>2. h \in Heights /\ h \in Int
      BY <1>0, ScheduleAssumption, HeightsAreIntegers DEF ObservationHeight
    <3>3. h <= heightOf[best] /\ heightOf[best] <= heightOf[Top]
      BY <1>0, <2>1, TopBlock DEF NodeTip
    <3>4. heightOf[best] \in Int /\ heightOf[Top] \in Int
      BY <1>0, TreeAssumption, HeightsAreIntegers
    <3>5. h \in LineHeights
      BY <3>2, <3>3, <3>4 DEF LineHeights
    <3>6. ancestor[best][h] = ancestor[Top][h]
      BY <1>0, <3>2, <3>3, LineBlock
    <3>7. ListedOnLine'
      BY <3>1, <3>5, <3>6 DEF ListedOnLine
    <3>8. QED BY <1>r, <3>1, <3>7
  <2>2. CASE ~(online /\ h <= NodeTip)
    <3>1. roundPc' = "idle" /\ UNCHANGED roundRows
      BY <1>2, <2>2 DEF ObserveQuorums, CollectorForgets
    <3>2. QED BY <1>i, <1>r, <3>1
  <2>3. QED BY <2>1, <2>2
<1>3. CASE CountMasternodes
  BY <1>3, <1>k, <1>r DEF CountMasternodes, JudgingStages
<1>4. CASE RemovePlaceholders
  <2>1. \A s \in Slots : roundRows'[s] = roundRows[s] \/ roundRows'[s] = NoRound
    BY <1>4 DEF RemovePlaceholders
  <2>2. NoRound.status = "absent"
    BY DEF NoRound
  <2>3. QED BY <1>4, <1>k, <1>r, <2>1, <2>2 DEF RemovePlaceholders, JudgingStages
<1>5. CASE PlanRounds
  BY <1>5, <1>k, <1>r DEF PlanRounds, JudgingStages
<1>6. CASE JudgeRound
  <2>1. /\ roundPc \in JudgingStages /\ plan # {} /\ First \in Slots
        /\ UNCHANGED <<roundTip, listed>>
    BY <1>6, <1>a DEF JudgeRound, JudgingStages
  <2>2. CASE UNCHANGED roundRows
    BY <1>k, <1>r, <2>1, <2>2
  <2>3. CASE ~UNCHANGED roundRows
    <3> DEFINE status == ClassifyRound(First, EnabledAt(First))
               row == [roundRows[First] EXCEPT !.status = status, !.minedBlock = None,
                         !.minedHeight = None, !.complete = (status = "failed")]
    <3>1. /\ ~Unjudged(First) /\ listed[First] = None
          /\ roundRows' = [roundRows EXCEPT ![First] = row]
      BY <1>6, <2>3 DEF JudgeRound
    <3>2. row.status = status
      BY <1>0, <2>1 DEF RoundRow
    <3>3. status # "formed"
      BY <3>1 DEF ClassifyRound
    <3>4. /\ EnabledAt(First) \in Nat
          /\ EnabledAt(First) < MinSize <=> enabledAt[First] < MinSize
      BY <2>1, SnapshotDecides
    <3>5. EnabledAt(First) # -1 /\ MinSize \in Int /\ enabledAt[First] \in Int
      BY <2>1, <3>4, ScheduleAssumption, ContentAssumption
    <3>6. ASSUME status = "failed"
          PROVE  /\ First \notin Committed(Top) /\ IsSchedulable(First)
                 /\ enabledAt[First] >= MinSize
      <4>1. /\ IsSchedulable(First) /\ AbsenceIsEvidence(First)
        BY <3>1, <3>6 DEF Unjudged
      <4>2. ~(roundTip < First + WindowEnd) /\ ~(EnabledAt(First) < MinSize)
        BY <3>1, <3>5, <3>6 DEF ClassifyRound
      <4>3. roundTip >= First + WindowEnd
        <5>1. roundTip \in Int /\ First \in Int /\ WindowEnd \in Int
          BY <1>0, <2>1, HeightsAreIntegers, ContentAssumption, ScheduleAssumption
        <5>2. QED BY <4>2, <5>1
      <4>4. First \notin Committed(Top)
        BY <1>0, <2>1, <3>1, <4>1, <4>3, AbsentIsUncommitted
      <4>5. enabledAt[First] >= MinSize
        BY <3>4, <3>5, <4>2
      <4>6. QED BY <4>1, <4>4, <4>5
    <3>7. ASSUME status = "impossible"
          PROVE  First \notin Committed(Top) /\ enabledAt[First] < MinSize
      <4>1. EnabledAt(First) < MinSize
        BY <3>7 DEF ClassifyRound
      <4>2. enabledAt[First] < MinSize
        BY <3>4, <4>1
      <4>3. First \notin Committed(Top)
        BY <1>0, <3>5, <4>2, CommitmentAssumption DEF Committed
      <4>4. QED BY <4>2, <4>3
    <3>8. Truthful(First, row)
      <4> HIDE DEF row, status
      <4>1. QED BY <3>2, <3>3, <3>6, <3>7 DEF Truthful
    <3>9. RoundsTruthful'
      <4> HIDE DEF row
      <4>1. QED BY <1>f, <2>1, <3>1, <3>8
    <3>10. QED BY <1>k, <2>1, <3>9
  <2>4. QED BY <2>2, <2>3
<1>7. CASE LookUpMined
  BY <1>7, <1>k, <1>r DEF LookUpMined, JudgingStages
<1>8. CASE WriteFormed
  <2> DEFINE row == [roundRows[First] EXCEPT !.status = "formed",
                       !.minedBlock = listed[First], !.minedHeight = minedAt,
                       !.complete = described /\ minedAt # None]
  <2>1. /\ roundPc \in JudgingStages /\ plan # {} /\ listed[First] # None
        /\ First \in Slots /\ UNCHANGED <<roundTip, listed>>
        /\ roundRows' = [roundRows EXCEPT ![First] = row]
    BY <1>0, <1>8, <1>a DEF WriteFormed, JudgingStages, CollectorTypeOK
  <2>2. row.status = "formed" /\ row.minedBlock = listed[First]
    BY <1>0, <2>1 DEF RoundRow
  <2>3. listed[First] = MinedIn(Top, First) /\ First \in Committed(Top)
    BY <1>m, <2>1
  <2> HIDE DEF row
  <2>4. Truthful(First, row)
    BY <2>2, <2>3 DEF Truthful
  <2>5. QED BY <1>f, <1>k, <2>1, <2>4
<1>9. CASE StampResolved
  <2>1. /\ roundPc' = "streaks"
        /\ \A s \in Slots : \/ roundRows'[s] = roundRows[s]
                            \/ roundRows'[s] = [roundRows[s] EXCEPT !.resolved = TRUE]
    BY <1>9 DEF StampResolved
  <2>2. \A s \in Slots : /\ [roundRows[s] EXCEPT !.resolved = TRUE].status = roundRows[s].status
                         /\ [roundRows[s] EXCEPT !.resolved = TRUE].minedBlock
                              = roundRows[s].minedBlock
    BY <1>0 DEF RoundRow
  <2>3. QED BY <1>i, <1>r, <2>1, <2>2
<1>10. CASE RecomputeStreaks
  <2>1. /\ roundPc' = "idle"
        /\ \A s \in Slots : \/ roundRows'[s] = NoRound
                            \/ roundRows'[s] = [roundRows[s] EXCEPT !.streak = FailuresBefore(s)]
    BY <1>10 DEF RecomputeStreaks, CollectorForgets
  <2>2. ASSUME NEW s \in Slots, NEW n
        PROVE  /\ [roundRows[s] EXCEPT !.streak = n].status = roundRows[s].status
               /\ [roundRows[s] EXCEPT !.streak = n].minedBlock = roundRows[s].minedBlock
    BY <1>0 DEF RoundRow
  <2>3. NoRound.status = "absent"
    BY DEF NoRound
  <2>4. ASSUME NEW s \in Slots
        PROVE  \/ roundRows'[s].status \in {"absent", "pending"}
               \/ /\ roundRows'[s].status = roundRows[s].status
                  /\ roundRows'[s].minedBlock = roundRows[s].minedBlock
    <3>1. CASE roundRows'[s] = NoRound
      BY <2>3, <3>1
    <3>2. CASE roundRows'[s] = [roundRows[s] EXCEPT !.streak = FailuresBefore(s)]
      <4> DEFINE n == FailuresBefore(s)
      <4>1. roundRows'[s] = [roundRows[s] EXCEPT !.streak = n]
        BY <3>2
      <4> HIDE DEF n
      <4>2. QED BY <2>2, <4>1
    <3>3. QED BY <2>1, <3>1, <3>2
  <2>5. QED BY <1>i, <1>r, <2>1, <2>4
<1>11. QED
  BY <1>1, <1>2, <1>3, <1>4, <1>5, <1>6, <1>7, <1>8, <1>9, <1>10 DEF CollectNext

\* On a chain that does not fork, and with snapshots that tell, no row of a round
\* ever contradicts the chain: what formed has its commitment there, what failed
\* has none though its masternodes sufficed, what was impossible lacked them;
\* however late the collector looked, and whatever indexer, node and crashes did
\* between its awaits.
THEOREM VerdictsStayFacts ==
    ASSUME OneLine, SnapshotsTell PROVE RacingSpec => []VerdictsAreFacts
<1>1. ServicesInit({{"walker"}, {"collector"}}) =>
        OnLine /\ ListedOnLine /\ RoundsTruthful
  <2> SUFFICES ASSUME ServicesInit({{"walker"}, {"collector"}})
               PROVE  OnLine /\ ListedOnLine /\ RoundsTruthful
    OBVIOUS
  <2>1. OnLine
    BY HeightsAreIntegers
    DEF ServicesInit, Init, StoreInit, IndexerMemoryInit, OnLine, LineStages, IndexStages
  <2>2. roundPc = "idle" /\ \A s \in Slots : roundRows[s] = NoRound
    BY DEF ServicesInit, Init, StoreInit, CollectorInit
  <2>3. QED
    BY <2>1, <2>2 DEF ListedOnLine, JudgingStages, RoundsTruthful, Truthful, NoRound
<1>2. ASSUME ServicesInv, OnLine, ListedOnLine, RoundsTruthful, [RacingNext]_serviceVars
      PROVE  OnLine' /\ ListedOnLine' /\ RoundsTruthful'
  <2>1. OnLine'
    BY <1>2, LineStays
  <2>2. CASE CollectorStep
    BY <1>2, <2>1, <2>2, LineCollect DEF CollectorStep
  <2>3. CASE ~CollectorStep
    <3>1. UNCHANGED roundRows /\ (UNCHANGED <<roundPc, roundTip, listed>> \/ roundPc' = "idle")
      <4>1. CASE IndexerStep
        BY <1>2, <4>1, LineStep DEF roundVars
      <4>2. CASE WalkerStep
        BY <4>2
        DEF WalkerStep, WalkNext, WalkBegins, ReadDiffCursor, AskSeed, TakeSeed, LookUp,
            AskDiff, TakeDiff, WriteEvents, AfterWrite, SaveDiffCursor, walkerReads, roundVars
      <4>3. CASE ProcessCrash
        BY <4>3 DEF ProcessCrash, CollectorForgets
      <4>4. CASE NodeStep(NodeMoves) \/ NodeStep(NodeGrows)
        BY <4>4 DEF NodeStep, sharedRest, roundVars
      <4>5. CASE UNCHANGED serviceVars
        BY <4>5 DEF serviceVars, vars, sharedRest, roundVars
      <4>6. QED BY <1>2, <2>3, <4>1, <4>2, <4>3, <4>4, <4>5 DEF RacingNext
    <3>2. QED
      BY <1>2, <2>1, <3>1 DEF ListedOnLine, JudgingStages, RoundsTruthful, Truthful
  <2>4. QED BY <2>2, <2>3
<1>3. ASSUME RoundsTruthful PROVE VerdictsAreFacts
  BY <1>3 DEF VerdictsAreFacts, RoundsTruthful, Truthful, IsSchedulable, Top
<1>4. QED BY <1>1, <1>2, <1>3, ServicesInvariant, PTL DEF RacingSpec
=============================================================================
