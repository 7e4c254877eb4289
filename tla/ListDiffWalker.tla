--------------------------- MODULE ListDiffWalker ---------------------------
(***************************************************************************)
(* The masternode list-diff walker, services/mnListDiff.service.ts with    *)
(* domain/mnListDiff.ts: it replays `protx listdiff h-1 h` behind the      *)
(* block indexer and records each penalty increase as an event.            *)
(*                                                                         *)
(* Of the transitions a diff names, only `penalty_up` is modelled: it is   *)
(* the one that compares the diff with what the walker remembers; the      *)
(* others are read off one diff and take the same path to the store.       *)
(*                                                                         *)
(* An RPC is two steps, the node's answer and its use; a write is a step   *)
(* of its own, and so is going on after it.  `running` is walkPc # "idle". *)
(***************************************************************************)
EXTENDS ChainStore

CONSTANT DiffBatch  \* BATCH

ASSUME WalkerAssumption == DiffBatch \in Nat \ {0}

VARIABLES
    walkPc,      \* the await the walk is at
    walkTarget,  \* the indexer's cursor as this walk read it
    walkAt,      \* `cursor`: the last height walked
    walkLast,    \* the last height of the batch
    answered,    \* the block at the upper end of the diff the node answered
    changes      \* masternodes whose event is about to be written

walkerVars == <<walkPc, walkTarget, walkAt, walkLast, answered, changes>>

\* What no step of the walker writes.
walkerReads == <<nodeVars, cursor, indexRows, roundRows>>

WalkerStages == {"idle", "cursor", "seed", "seeding", "lookup", "ask", "answer",
                 "write", "next", "save"}

WalkerInit ==
    /\ walkPc = "idle" /\ walkTarget = 0 /\ walkAt = 0 /\ walkLast = 0
    /\ answered = None /\ changes = {}

WalkerForgets ==
    /\ walkPc' = "idle" /\ walkTarget' = 0 /\ walkAt' = 0 /\ walkLast' = 0
    /\ answered' = None /\ changes' = {}

\* tick's catch: the map is ahead of the persisted cursor, so it is dropped.
WalkFails ==
    /\ WalkerForgets
    /\ seeded' = FALSE /\ penalties' = NoPenalties
    /\ UNCHANGED <<overtaken, eventRows, diffCursor>>

-----------------------------------------------------------------------------
\* The node can answer a diff that ends at height h.
Answers(h) == online /\ h <= NodeTip

\* Masternodes a diff between two blocks lists with a PoSePenalty.
Listed(from, b) == {m \in Masternodes : penaltyOf[from][m] # penaltyOf[b][m]}

\* classifyListDiff: an entry is a transition when it rises, or when there is
\* nothing to compare it with.
PenaltyUps(from, b, previous) ==
    {m \in Listed(from, b) : previous[m] = -1 \/ penaltyOf[b][m] > previous[m]}

\* penaltiesAfter
PenaltiesAfter(from, b, previous) ==
    [m \in Masternodes |-> IF m \in Listed(from, b) THEN penaltyOf[b][m]
                           ELSE previous[m]]

-----------------------------------------------------------------------------
\* Never past the indexer: its cursor is read first.
WalkBegins ==
    /\ walkPc = "idle" /\ cursor.height >= 1
    /\ walkPc' = "cursor" /\ walkTarget' = cursor.height
    /\ UNCHANGED <<walkAt, walkLast, answered, changes, eventRows, diffCursor,
                   walkerMemory, walkerReads>>

\* The walker's own cursor; nothing before the first block can have a diff.
ReadDiffCursor ==
    /\ walkPc = "cursor"
    /\ LET from == IF diffCursor < 1 THEN 1 ELSE diffCursor
       IN IF from >= walkTarget
          THEN WalkerForgets
          ELSE /\ walkAt' = from
               /\ walkPc' = IF seeded THEN "lookup" ELSE "seed"
               /\ UNCHANGED <<walkTarget, walkLast, answered, changes>>
    /\ UNCHANGED <<eventRows, diffCursor, walkerMemory, walkerReads>>

\* seed: one diff from height 1 to the cursor, by height and not by hash.
AskSeed ==
    /\ walkPc = "seed"
    /\ \/ /\ ~Answers(walkAt)
          /\ WalkFails
       \/ /\ Answers(walkAt)
          /\ walkPc' = "seeding" /\ answered' = ancestor[best][walkAt]
          /\ UNCHANGED <<walkTarget, walkAt, walkLast, changes, eventRows,
                         diffCursor, walkerMemory>>
    /\ UNCHANGED walkerReads

TakeSeed ==
    /\ walkPc = "seeding"
    /\ penalties' = PenaltiesAfter(ancestor[answered][1], answered, NoPenalties)
    /\ seeded' = TRUE
    /\ walkPc' = "lookup" /\ answered' = None
    /\ UNCHANGED <<walkTarget, walkAt, walkLast, changes, eventRows, diffCursor,
                   overtaken, walkerReads>>

\* The operator index and the known hosts are read, and only then is the
\* generation captured.
LookUp ==
    /\ walkPc = "lookup"
    /\ walkLast' = IF walkAt + DiffBatch < walkTarget THEN walkAt + DiffBatch
                   ELSE walkTarget
    /\ overtaken' = FALSE
    /\ walkPc' = "ask"
    /\ UNCHANGED <<walkTarget, walkAt, answered, changes, eventRows, diffCursor,
                   seeded, penalties, walkerReads>>

AskDiff ==
    /\ walkPc = "ask"
    /\ \/ /\ ~Answers(walkAt + 1)
          /\ WalkFails
       \/ /\ Answers(walkAt + 1)
          /\ walkPc' = "answer" /\ answered' = ancestor[best][walkAt + 1]
          /\ UNCHANGED <<walkTarget, walkAt, walkLast, changes, eventRows,
                         diffCursor, walkerMemory>>
    /\ UNCHANGED walkerReads

\* The loop goes on to the next height, or to the cursor after the last one,
\* unless reset has changed the generation since the batch captured it.
NextHeight ==
    IF overtaken
    THEN WalkerForgets
    ELSE /\ walkAt' = walkAt + 1
         /\ walkPc' = IF walkAt + 1 < walkLast THEN "ask" ELSE "save"
         /\ answered' = None /\ changes' = {}
         /\ UNCHANGED <<walkTarget, walkLast>>

\* The answer is compared with the map as it is now, and the map moves on to
\* this height whether or not the events reach the store.
TakeDiff ==
    /\ walkPc = "answer"
    /\ LET from == PreviousOf(answered)
           ups == PenaltyUps(from, answered, penalties)
       IN /\ penalties' = PenaltiesAfter(from, answered, penalties)
          /\ IF ups = {}
             THEN NextHeight
             ELSE /\ walkPc' = "write" /\ changes' = ups
                  /\ UNCHANGED <<walkTarget, walkAt, walkLast, answered>>
    /\ UNCHANGED <<eventRows, diffCursor, seeded, overtaken, walkerReads>>

\* mutant: the events are keyed on the last height walked
WriteEvents_OneBelow ==
    /\ walkPc = "write"
    /\ eventRows' = eventRows \cup {[mn |-> m, height |-> walkAt] : m \in changes}
    /\ walkPc' = "next"
    /\ UNCHANGED <<walkTarget, walkAt, walkLast, answered, changes, diffCursor,
                   walkerMemory, walkerReads>>

\* bulkWrite with $setOnInsert on the key proTxHash:type:height.
WriteEvents ==
    /\ walkPc = "write"
    /\ eventRows' = eventRows \cup {[mn |-> m, height |-> walkAt + 1] : m \in changes}
    /\ walkPc' = "next"
    /\ UNCHANGED <<walkTarget, walkAt, walkLast, answered, changes, diffCursor,
                   walkerMemory, walkerReads>>

AfterWrite ==
    /\ walkPc = "next"
    /\ NextHeight
    /\ UNCHANGED <<eventRows, diffCursor, walkerMemory, walkerReads>>

\* The cursor is persisted after the batch; the generation was last looked at
\* before this write was sent.
SaveDiffCursor ==
    /\ walkPc = "save"
    /\ diffCursor' = walkAt
    /\ WalkerForgets
    /\ UNCHANGED <<eventRows, walkerMemory, walkerReads>>

WalkNext ==
    \/ WalkBegins \/ ReadDiffCursor \/ AskSeed \/ TakeSeed \/ LookUp
    \/ AskDiff \/ TakeDiff \/ WriteEvents \/ AfterWrite \/ SaveDiffCursor

-----------------------------------------------------------------------------
\* The penalty increases of the chain that ends in b, up to height h.  Nothing
\* is listed before height 2: the walk starts from the list at height 1.
Increases(b, h) ==
    {e \in [mn: Masternodes, height: 2..h] :
        /\ e.height <= heightOf[b]
        /\ penaltyOf[ancestor[b][e.height]][e.mn]
             > penaltyOf[ancestor[b][e.height - 1]][e.mn]}

WalkerTypeOK ==
    /\ walkPc \in WalkerStages
    /\ walkTarget \in Heights /\ walkAt \in Heights /\ walkLast \in Heights
    /\ answered \in BlockOrNone
    /\ changes \subseteq Masternodes
    /\ penalties \in [Masternodes -> Nat \cup {-1}]
    /\ seeded \in BOOLEAN /\ overtaken \in BOOLEAN
    /\ walkPc \in {"ask", "answer", "write", "next"} => walkAt < walkLast
    /\ walkPc \in {"seeding", "answer", "write"} => answered \in Blocks

\* What a walk has in hand: a height of its batch, and the block of it that the
\* node answered with.
WalkInv ==
    /\ walkPc \notin {"idle", "cursor"} => 1 <= walkAt
    /\ walkPc \in {"seed", "seeding", "lookup"} => walkAt < walkTarget
    /\ walkPc = "seeding" => heightOf[answered] = walkAt
    /\ walkPc \in {"answer", "write"} => heightOf[answered] = walkAt + 1
=============================================================================
