--------------------------- MODULE RoundCollector ---------------------------
(***************************************************************************)
(* The quorum round collector, services/quorumRound.service.ts with        *)
(* domain/dkgSchedule.ts and domain/collectorPolicy.ts, for one unrotated  *)
(* LLMQ profile: it reconstructs when a DKG round was due, matches the     *)
(* node's `quorum listextended` against the schedule and writes a verdict. *)
(*                                                                         *)
(* A round that forms is three answers apart (listing, `quorum info`, the  *)
(* indexed block) before it is written; any of them may be old by then.    *)
(* `running` is roundPc # "idle".                                          *)
(***************************************************************************)
EXTENDS ChainStore, FiniteSets

CONSTANTS
    DkgInterval,     \* dkgInterval
    WindowEnd,       \* dkgMiningWindowEnd
    ActiveCount,     \* signingActiveQuorumCount
    FormationGate,   \* formationGateHeight, 0 for none
    FormationEnd,    \* formationEndHeight, above every height for none
    MinSize,         \* minSize
    slotOf,          \* [Quorums -> Slots], the round a commitment belongs to
    enabledAt,       \* [Heights -> Nat], enabled masternodes as of a height
    Snapshots        \* heights of the MasternodeSnapshot rows

ASSUME ScheduleAssumption ==
    /\ DkgInterval \in Nat \ {0} /\ WindowEnd \in 1..(DkgInterval - 2)
    /\ ActiveCount \in Nat \ {0} /\ MinSize \in Nat
    /\ FormationGate \in Nat /\ FormationEnd \in Nat \ {0, 1}
    /\ Slots = {h \in Heights : h % DkgInterval = 0}
    /\ slotOf \in [Quorums -> Slots]
    /\ enabledAt \in [Heights -> Nat]
    /\ Snapshots \subseteq Heights

VARIABLES
    roundPc,    \* the await the pass is at
    roundTip,   \* getblockcount of this pass, which every verdict is about
    listed,     \* the listing: the block a round's commitment is mined in
    fallback,   \* the current masternode count, -1 for null
    plan,       \* `heights`: rounds of the plan still to be written
    described,  \* `quorum info` answered for the round in hand
    minedAt     \* the indexed height of the block that mined it, None for null

roundVars == <<roundPc, roundTip, listed, fallback, plan, described, minedAt>>

\* What no step of the collector writes.
collectorReads ==
    <<nodeVars, cursor, indexRows, eventRows, diffCursor, walkerMemory>>

RoundStages == {"idle", "list", "count", "clean", "plan", "judge", "lookup",
                "write", "streaks"}

NothingListed == [s \in Slots |-> None]

CollectorForgets ==
    /\ roundPc' = "idle" /\ roundTip' = 0 /\ listed' = NothingListed
    /\ fallback' = -1 /\ plan' = {} /\ described' = FALSE /\ minedAt' = None

CollectorInit ==
    /\ roundPc = "idle" /\ roundTip = 0 /\ listed = NothingListed
    /\ fallback = -1 /\ plan = {} /\ described = FALSE /\ minedAt = None

-----------------------------------------------------------------------------
(***************************************************************************)
(* The node's side: which commitments it lists                             *)
(***************************************************************************)

Commits(b, s) == \E q \in quorumsIn[b] : slotOf[q] = s

\* What consensus and the node's parameters say of rounds: a round has one
\* commitment on a chain, mined after it starts and inside its window, and only
\* of enough masternodes; and the last window of a retired profile closes before
\* the last height at which the node lists it.
ASSUME CommitmentAssumption ==
    /\ \A b \in Blocks, s \in Slots : \A h \in 0..heightOf[b] :
         Commits(ancestor[b][h], s) =>
             /\ s < h /\ h <= s + WindowEnd /\ enabledAt[s] >= MinSize
             /\ \A k \in 0..heightOf[b] : Commits(ancestor[b][k], s) => k = h
    /\ \A s \in Slots : s < FormationEnd => s + WindowEnd < FormationEnd - 1

\* The rounds whose commitment the chain that ends in b has mined.
Committed(b) ==
    {s \in Slots : \E h \in 0..heightOf[b] : Commits(ancestor[b][h], s)}

MinedIn(b, s) ==
    IF s \in Committed(b)
    THEN CHOOSE c \in {ancestor[b][h] : h \in 0..heightOf[b]} : Commits(c, s)
    ELSE None

\* `quorum listextended h`: the ActiveCount most recent quorums, and none of a
\* profile the node no longer enables for the block after h.
Listing(b) ==
    [s \in Slots |->
        IF /\ heightOf[b] < FormationEnd - 1
           /\ Cardinality({t \in Committed(b) : t > s}) < ActiveCount
        THEN MinedIn(b, s)
        ELSE None]

-----------------------------------------------------------------------------
(***************************************************************************)
(* domain/dkgSchedule.ts and domain/collectorPolicy.ts                     *)
(***************************************************************************)

CurrentRoundHeight(h) == h - (h % DkgInterval)

IsSchedulable(s) == FormationGate <= s /\ s < FormationEnd

\* retiredObservationHeight, or the tip
ObservationHeight(h) ==
    IF h < FormationEnd - 1 THEN h ELSE FormationEnd - 2

\* mutant: a round the listing no longer reaches counts as not there
AbsenceIsEvidence_Always(s) == TRUE

\* A commitment below the oldest one listed is out of the RPC's reach.
AbsenceIsEvidence(s) ==
    LET seen == {t \in Slots : listed[t] # None}
    IN seen = {} \/ \E t \in seen : t <= s

ClassifyRound(s, enabled) ==
    IF listed[s] # None THEN "formed"
    ELSE IF roundTip < s + WindowEnd THEN "pending"
    ELSE IF enabled # -1 /\ enabled < MinSize THEN "impossible"
    ELSE "failed"

\* mutant: a formed round is a fact as soon as it is written
ShouldRefreshRound_PendingOnly(row) == row.status \in {"absent", "pending"}

ShouldRefreshRound(row) ==
    \/ row.status \in {"absent", "pending"}
    \/ row.status = "formed" /\ ~row.complete

\* enabledCountAtHeight: the newest snapshot at or before the round, else the
\* count of now.
EnabledAt(s) ==
    LET before == {h \in Snapshots : h <= s}
    IN IF before = {} THEN fallback
       ELSE enabledAt[CHOOSE h \in before : \A k \in before : k <= h]

-----------------------------------------------------------------------------
(***************************************************************************)
(* collect                                                                 *)
(***************************************************************************)

CollectBegins ==
    /\ roundPc = "idle" /\ online
    /\ roundPc' = "list" /\ roundTip' = NodeTip
    /\ UNCHANGED <<listed, fallback, plan, described, minedAt, roundRows,
                   collectorReads>>

\* observedQuorums, read AT the height every verdict of this pass is about.  A
\* node that has fallen below it, or is silent, ends the pass.
ObserveQuorums ==
    /\ roundPc = "list"
    /\ LET h == ObservationHeight(roundTip)
       IN IF online /\ h <= NodeTip
          THEN /\ listed' = Listing(ancestor[best][h])
               /\ roundPc' = "count"
               /\ UNCHANGED <<roundTip, fallback, plan, described, minedAt>>
          ELSE CollectorForgets
    /\ UNCHANGED <<roundRows, collectorReads>>

\* availableMasternodes: a count the node did not answer is null.
CountMasternodes ==
    /\ roundPc = "count"
    /\ fallback' = IF online THEN enabledAt[NodeTip] ELSE -1
    /\ roundPc' = "clean"
    /\ UNCHANGED <<roundTip, listed, plan, described, minedAt, roundRows,
                   collectorReads>>

\* planProfile: placeholders at or above a retired profile's end are removed.
RemovePlaceholders ==
    /\ roundPc = "clean"
    /\ roundRows' = [s \in Slots |->
         IF roundRows[s].status = "pending" /\ s >= FormationEnd THEN NoRound
         ELSE roundRows[s]]
    /\ roundPc' = "plan"
    /\ UNCHANGED <<roundTip, listed, fallback, plan, described, minedAt,
                   collectorReads>>

Oldest ==
    LET first == CurrentRoundHeight(roundTip) - DkgInterval * ActiveCount
    IN IF first < 0 THEN 0 ELSE first

\* planProfile: rounds still open wherever they are, and every round of the
\* observation window that is not yet a complete fact.
PlanRounds ==
    /\ roundPc = "plan"
    /\ plan' = {s \in Slots :
         /\ ShouldRefreshRound(roundRows[s])
         /\ \/ s >= Oldest /\ s <= roundTip /\ IsSchedulable(s)
            \/ s >= Oldest /\ roundRows[s].status # "absent"
            \/ roundRows[s].status = "pending"}
    /\ roundPc' = "judge"
    /\ UNCHANGED <<roundTip, listed, fallback, described, minedAt, roundRows,
                   collectorReads>>

First == CHOOSE s \in plan : \A t \in plan : s <= t

\* applyPlan writes nothing rather than a verdict it cannot support.
Unjudged(s) ==
    \/ ~IsSchedulable(s)
    \/ ClassifyRound(s, EnabledAt(s)) = "failed"
         /\ (~AbsenceIsEvidence(s) \/ EnabledAt(s) = -1)

\* The next round of the plan: left alone, written from what is in hand, or, if
\* its commitment is listed, described by `quorum info` first.
JudgeRound ==
    /\ roundPc = "judge" /\ plan # {}
    /\ \/ /\ Unjudged(First)
          /\ plan' = plan \ {First}
          /\ UNCHANGED <<roundPc, described, roundRows>>
       \/ /\ ~Unjudged(First) /\ listed[First] = None
          /\ LET status == ClassifyRound(First, EnabledAt(First))
             IN roundRows' = [roundRows EXCEPT ![First] =
                  [@ EXCEPT !.status = status, !.minedBlock = None,
                            !.minedHeight = None,
                            !.complete = (status = "failed")]]
          /\ plan' = plan \ {First}
          /\ UNCHANGED <<roundPc, described>>
       \/ /\ ~Unjudged(First) /\ listed[First] # None
          /\ described' \in {FALSE, online}
          /\ roundPc' = "lookup"
          /\ UNCHANGED <<plan, roundRows>>
    /\ UNCHANGED <<roundTip, listed, fallback, minedAt, collectorReads>>

\* Block.findOne by hash: null while the indexer is behind the listing.
LookUpMined ==
    /\ roundPc = "lookup"
    /\ LET b == listed[First]
       IN minedAt' = IF blockRows[heightOf[b]] = b THEN heightOf[b] ELSE None
    /\ roundPc' = "write"
    /\ UNCHANGED <<roundTip, listed, fallback, plan, described, roundRows,
                   collectorReads>>

\* mutant: the answer of `quorum info` alone completes a round
WriteFormed_AnswerCompletes ==
    /\ roundPc = "write"
    /\ roundRows' = [roundRows EXCEPT ![First] =
         [@ EXCEPT !.status = "formed", !.minedBlock = listed[First],
                   !.minedHeight = minedAt, !.complete = described]]
    /\ plan' = plan \ {First}
    /\ roundPc' = "judge" /\ described' = FALSE /\ minedAt' = None
    /\ UNCHANGED <<roundTip, listed, fallback, collectorReads>>

\* upsertRound of a round whose commitment was listed.
WriteFormed ==
    /\ roundPc = "write"
    /\ roundRows' = [roundRows EXCEPT ![First] =
         [@ EXCEPT !.status = "formed", !.minedBlock = listed[First],
                   !.minedHeight = minedAt,
                   !.complete = described /\ minedAt # None]]
    /\ plan' = plan \ {First}
    /\ roundPc' = "judge" /\ described' = FALSE /\ minedAt' = None
    /\ UNCHANGED <<roundTip, listed, fallback, collectorReads>>

\* The plan is written; resolvedAt, once, of every round no longer pending.
StampResolved ==
    /\ roundPc = "judge" /\ plan = {}
    /\ roundRows' = [s \in Slots |->
         IF roundRows[s].status \in {"absent", "pending"} THEN roundRows[s]
         ELSE [roundRows[s] EXCEPT !.resolved = TRUE]]
    /\ roundPc' = "streaks"
    /\ roundTip' = 0 /\ listed' = NothingListed /\ fallback' = -1
    /\ UNCHANGED <<plan, described, minedAt, collectorReads>>

\* Failed rounds before s and after the last one that formed; a pending or an
\* impossible round neither ends nor lengthens a streak.
FailuresBefore(s) ==
    Cardinality({t \in Slots :
        /\ t < s /\ roundRows[t].status = "failed"
        /\ \A u \in Slots : t < u /\ u < s => roundRows[u].status # "formed"})

\* recomputeConsecutiveFailures, whose fifty intervals reach below every height
\* of the bounded chain.
RecomputeStreaks ==
    /\ roundPc = "streaks"
    /\ roundRows' = [s \in Slots |->
         IF roundRows[s].status = "absent" THEN NoRound
         ELSE [roundRows[s] EXCEPT !.streak = FailuresBefore(s)]]
    /\ CollectorForgets
    /\ UNCHANGED collectorReads

CollectNext ==
    \/ CollectBegins \/ ObserveQuorums \/ CountMasternodes \/ RemovePlaceholders
    \/ PlanRounds \/ JudgeRound \/ LookUpMined \/ WriteFormed
    \/ StampResolved \/ RecomputeStreaks

-----------------------------------------------------------------------------
CollectorTypeOK ==
    /\ roundPc \in RoundStages
    /\ roundTip \in Heights
    /\ listed \in [Slots -> BlockOrNone]
    /\ fallback \in Nat \cup {-1}
    /\ plan \subseteq Slots
    /\ described \in BOOLEAN
    /\ minedAt \in Heights \cup {None}
    /\ roundPc \in {"lookup", "write"} => plan # {} /\ listed[First] # None
=============================================================================
