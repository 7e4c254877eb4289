-------------------------- MODULE ChainServices --------------------------
(***************************************************************************)
(* The block indexer, the list-diff walker and the quorum round collector  *)
(* in the one process they share: the two followers read what the indexer  *)
(* stores, and a rewind of the indexer rewrites what they have stored.     *)
(* Walker and collector read of each other nothing, so three questions are *)
(* asked: what holds when no pass overlaps another (ServicesSpec), what    *)
(* holds whatever overlaps as long as the chain does not fork (RacingSpec, *)
(* each follower racing the indexer in its own behaviours), and whether a  *)
(* walk survives a rewind it overlaps (OverlapSpec).                       *)
(***************************************************************************)
EXTENDS BlockIndexer, ListDiffWalker, RoundCollector

VARIABLE followers  \* which of the two run beside the indexer, for good

serviceVars == <<vars, walkerVars, roundVars, followers>>

Followers == {"walker", "collector"}

ServicesInit(sets) ==
    /\ Init /\ WalkerInit /\ CollectorInit
    /\ followers \in sets

IndexerStep ==
    /\ Tick \/ ConfirmRewind
    /\ UNCHANGED <<walkerVars, roundVars, followers>>

WalkerStep ==
    /\ "walker" \in followers
    /\ WalkNext
    /\ UNCHANGED <<indexerVars, roundVars, followers>>

CollectorStep ==
    /\ "collector" \in followers
    /\ CollectNext
    /\ UNCHANGED <<indexerVars, walkerVars, followers>>

\* One process: a crash ends every pass and clears every memory.
ProcessCrash ==
    /\ pc # "idle" \/ walkPc # "idle" \/ roundPc # "idle"
    /\ Forget /\ WalkerForgets /\ CollectorForgets
    /\ seeded' = FALSE /\ penalties' = NoPenalties /\ overtaken' = FALSE
    /\ UNCHANGED <<nodeVars, cursor, indexRows, roundRows, eventRows,
                   diffCursor, syncError, followers>>

NodeStep(moves) ==
    /\ moves \/ NodeToggles
    /\ UNCHANGED <<cursor, indexRows, sharedRest, indexerVars, walkerVars,
                   roundVars, followers>>

-----------------------------------------------------------------------------
(***************************************************************************)
(* In turns                                                                *)
(***************************************************************************)

\* A chain the winning one overtakes, one block before its end, forks from it
\* no lower than a rewind without an operator reaches.
ShallowFork ==
    LET lowest == MaxHeight - 1 - MaxRollbackDepth
    IN \E w \in Blocks : /\ heightOf[w] = MaxHeight
                         /\ ancestor[best'][lowest] = ancestor[w][lowest]

\* No pass begins or goes on while another is in flight.  Between passes of
\* the indexer the node falls silent and answers again and moves: to the
\* winning chain, under a walk and a collection as well, when there are
\* followers, and wherever it likes when the indexer is alone.
ServicesNext ==
    \/ walkPc = "idle" /\ roundPc = "idle" /\ IndexerStep
    \/ pc = "idle" /\ roundPc = "idle" /\ WalkerStep
    \/ pc = "idle" /\ walkPc = "idle" /\ CollectorStep
    \/ pc = "idle" /\ ProcessCrash
    \/ pc = "idle" /\ NodeStep(IF followers = {} THEN NodeMoves
                               ELSE NodeSettles /\ ShallowFork)

\* As in BlockIndexer: the pass in flight goes on, and the timers of all three
\* fire again and again; `quorum info` describes a quorum it has listed, sooner
\* or later.
ServicesFairness ==
    /\ WF_serviceVars(\/ IndexerStep /\ pc # "idle"
                      \/ WalkerStep /\ walkPc # "idle"
                      \/ CollectorStep /\ roundPc # "idle")
    /\ SF_serviceVars(IndexerStep /\ TickBegins /\ walkPc = "idle" /\ roundPc = "idle")
    /\ SF_serviceVars(WalkerStep /\ WalkBegins /\ pc = "idle" /\ roundPc = "idle")
    /\ SF_serviceVars(CollectorStep /\ CollectBegins /\ pc = "idle" /\ walkPc = "idle")
    /\ SF_serviceVars(CollectorStep /\ JudgeRound /\ described')

ServicesSpec ==
    /\ ServicesInit({{}, Followers})
    /\ [][ServicesNext]_serviceVars
    /\ ServicesFairness

-----------------------------------------------------------------------------
(***************************************************************************)
(* Overlapping                                                             *)
(***************************************************************************)

\* The indexer and one follower at any await, crashes, and a node that falls
\* silent and back at any await of a walk, or grows between passes of the
\* indexer at any await of a collection.
RacingNext ==
    \/ IndexerStep \/ WalkerStep \/ CollectorStep \/ ProcessCrash
    \/ "walker" \in followers /\ NodeStep(NodeMoves)
    \/ "collector" \in followers /\ pc = "idle" /\ NodeStep(NodeGrows)

RacingSpec ==
    /\ ServicesInit({{"walker"}, {"collector"}})
    /\ [][RacingNext]_serviceVars

\* Nobody dies and the node moves between passes of the indexer, but a walk
\* and a pass of the indexer overlap.
OverlapNext ==
    IndexerStep \/ WalkerStep \/ (pc = "idle" /\ NodeStep(NodeSettles))

OverlapSpec == ServicesInit({{"walker"}}) /\ [][OverlapNext]_serviceVars

-----------------------------------------------------------------------------
(***************************************************************************)
(* Properties                                                              *)
(***************************************************************************)

\* The types of all three services.
ServicesTypeOK ==
    TypeOK /\ WalkerTypeOK /\ CollectorTypeOK /\ followers \subseteq Followers

\* What makes them inductive, whatever overlaps.
ServicesInv == IInv /\ ServicesTypeOK /\ WalkInv

AllIdle == pc = "idle" /\ walkPc = "idle" /\ roundPc = "idle"

\* From some moment on the node answers and stays on its chain, and the process
\* stays up.
Settles == <>[]online /\ <>[][best' = best /\ ~ProcessCrash]_serviceVars

\* "Never run past the indexer: an event whose height is not indexed yet would
\* point at a block the API cannot show" (walk): between passes neither the
\* walker's cursor nor an event is above the indexed height.  And the walker
\* remembers what it has read, whatever it lost of it: once the index is at the
\* node's tip, the events on record up to the walker's cursor are the penalty
\* increases of that chain, each one once, none missing and none invented by a
\* decay that was compared with the wrong value.
EventsAreTheChains ==
    AllIdle =>
        /\ diffCursor <= cursor.height
        /\ \A e \in eventRows : e.height <= cursor.height
        /\ Indexed(best) =>
             {e \in eventRows : e.height <= diffCursor} = Increases(best, diffCursor)

\* "A formed round still pointing at a commitment in a block that no longer
\* exists" is "the worst possible outcome" (domain/reorg.ts): a complete round is
\* never looked at again, so a rewind must reach it by its mined height, and once
\* the index is back at the node's tip no complete round names an abandoned
\* block.
FormedOnChain ==
    AllIdle /\ Indexed(best) =>
        \A s \in Slots :
            roundRows[s].status = "formed" /\ roundRows[s].complete
                => roundRows[s].minedBlock = MinedIn(best, s)

\* The failed rounds directly before s as the chain that ends in b has them.
FailuresOf(b, s) ==
    {t \in Slots : /\ t < s /\ t \notin Committed(b) /\ enabledAt[t] >= MinSize
                   /\ \A u \in Slots : t < u /\ u < s => u \notin Committed(b)}

HasVerdict(row) ==
    \/ row.status \in {"formed", "failed"} /\ row.complete
    \/ row.status = "impossible"

RoundsSettled(b) ==
    \A s \in Slots :
        FormationGate <= s /\ s < FormationEnd /\ s + WindowEnd <= heightOf[b]
        => /\ s > heightOf[b] - DkgInterval
                => HasVerdict(roundRows[s]) /\ roundRows[s].resolved
           /\ (\A t \in Slots : t <= s => HasVerdict(roundRows[t]))
                => roundRows[s].streak = Cardinality(FailuresOf(b, s))

\* Once the node settles and answers and the process stays up: every round of
\* its chain whose window has just closed gets its verdict, complete and
\* resolved, because the indexer catches up with the listing and the collector
\* asks again until it has, and a round all of whose predecessors have theirs
\* counts the failures before it; and where the index gets to the tip the
\* walker follows, and the record of missed duties is complete.
FollowersCatchUp ==
    Settles =>
        /\ "collector" \in followers => <>[]RoundsSettled(best)
        /\ "walker" \in followers /\ <>[]Indexed(best)
             => <>[](heightOf[best] >= 2
                       => /\ diffCursor = heightOf[best]
                          /\ eventRows = Increases(best, heightOf[best]))

-----------------------------------------------------------------------------
\* "A transition is a fact about a height and is never rewritten, however often
\* the walk is replayed": on a chain that never forks every event on record is
\* a fact at every await of both services, and none up to the walker's cursor
\* is missing.
EventsAreFacts ==
    LET top == CHOOSE b \in Blocks : \A c \in Blocks : heightOf[c] <= heightOf[b]
    IN /\ eventRows \subseteq Increases(top, MaxHeight)
       /\ Increases(top, diffCursor) \subseteq eventRows

\* "Recording it as failed would be a fabricated failure": on a chain that
\* never forks, wherever the two services and the node stand, whatever was lost
\* in a crash and however late the collector looked, a formed round has its
\* commitment, a failed one has none though its masternodes sufficed, and an
\* impossible one did not have them.
VerdictsAreFacts ==
    LET top == CHOOSE b \in Blocks : \A c \in Blocks : heightOf[c] <= heightOf[b]
    IN \A s \in Slots :
         LET row == roundRows[s]
         IN /\ row.status = "formed" => row.minedBlock = MinedIn(top, s)
                                        /\ s \in Committed(top)
            /\ row.status = "failed" =>
                 /\ s \notin Committed(top) /\ FormationGate <= s
                 /\ s < FormationEnd /\ enabledAt[s] >= MinSize
            /\ row.status = "impossible" =>
                 s \notin Committed(top) /\ enabledAt[s] < MinSize

\* "A walk that finds the generation changed underneath it now abandons its
\* batch instead" of "writing its own cursor over the rewound one"
\* (MnListDiffService.generation): a walker's write never takes its cursor over
\* heights whose events a rewind has dropped and nobody has walked again.
NoEventLost ==
    AllIdle /\ Indexed(best) => Increases(best, diffCursor) \subseteq eventRows
=============================================================================
