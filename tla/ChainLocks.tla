----------------------------- MODULE ChainLocks -----------------------------
(***************************************************************************)
(* The ChainLock watcher, services/chainLock.service.ts, between the ZMQ   *)
(* listener that feeds it (services/zmq.service.ts) and the block indexer  *)
(* that writes the rows it completes (services/sync.service.ts).  Three    *)
(* writers of one Block row in one process, and none of them waits for     *)
(* another: the derivation from ZMQ observations, the RPC reconciliation,  *)
(* and the indexer, which stores the lock it read at getblock.             *)
(*                                                                         *)
(* The chain does not fork here (BlockIndexer says what a rewind does to   *)
(* the rows), a block has one transaction, and times are left out: whether *)
(* a latency was derived is all that is said of it.                        *)
(***************************************************************************)
EXTENDS Integers, Sequences, FiniteSets

CONSTANTS
    MaxHeight,  \* bound: blocks 1..MaxHeight are mined
    Window,     \* WINDOW
    Batch,      \* OBSERVATION_BATCH
    MaxMishaps, \* bound: failures and crashes
    None        \* null, and no row

ASSUME LockAssumption ==
    /\ MaxHeight \in Nat /\ MaxMishaps \in Nat
    /\ Window \in Nat \ {0} /\ Batch \in Nat \ {0}

Heights == 1..MaxHeight

\* The notifications a node publishes: of a block and of its ChainLock.
Notices == {"hashblock", "hashchainlock"} \X Heights

\* A Block row: hasChainLock, whose sighting chainLockedAt is, whether
\* firstSeenAt and chainLockLatencyMs are set.
Row == [flag: BOOLEAN, lockedBy: {"nobody", "zmq", "poll"}, sighted: BOOLEAN,
        timed: BOOLEAN]
Bare(flag) == [flag |-> flag, lockedBy |-> "nobody", sighted |-> FALSE, timed |-> FALSE]

ASSUME NoneAssumption == None \notin Row \cup Notices

VARIABLES
    tip, locked,  \* the node: its height, and the blocks it holds a lock for
    wire,         \* notifications published and not yet received
    feed,         \* NodeObservation, oldest first
    applied,      \* those with appliedAt, by their place in the feed
    storing,      \* listener: stored, its subscribers not yet called
    rows,         \* Block, by height
    txLocked,     \* Transaction.hasChainLock, by block; None for no row
    cursor,       \* the indexer's saved height
    indexPc, indexAt, indexLock,  \* indexBlock: its await, its height, the lock it read
    applyPc,      \* applyObservations; "off" when `applying` is false
    batch, seen, done, left,      \* rows to go, the Block read, ids to mark, `deferred`
    deferred,     \* deferredObservations
    tickPc,       \* tick; "off" when `reconciling` is false
    asked, found, \* collect: candidates to ask about, those found locked
    mishaps       \* how many there were

nodeVars == <<tip, locked, wire>>
indexVars == <<cursor, indexPc, indexAt, indexLock>>
applyVars == <<applyPc, batch, seen, done, left>>
tickVars == <<tickPc, asked, found>>
lockVars == <<nodeVars, feed, applied, storing, rows, txLocked, indexVars,
              applyVars, deferred, tickVars, mishaps>>

Fails == mishaps < MaxMishaps /\ mishaps' = mishaps + 1

\* Observations are rows of their own, known by when they came.
Pending == {i \in 1..Len(feed) : i \notin applied}

\* The observation in hand, and what it says.
Oldest == CHOOSE i \in batch : \A j \in batch : i <= j
Notice == feed[Oldest]

-----------------------------------------------------------------------------
\* The locals of a derivation and of a reconciliation that is over.
ApplyRests == batch' = {} /\ seen' = None /\ done' = {} /\ left' = FALSE
TickRests == asked' = {} /\ found' = {}

\* Everything in memory at start: chainLockService.start runs a tick at once,
\* which begins by deriving.
StartInit ==
    /\ storing = None
    /\ indexPc = "idle" /\ indexAt = 1 /\ indexLock = FALSE
    /\ applyPc = "find" /\ batch = {} /\ seen = None /\ done = {} /\ left = FALSE
    /\ deferred = FALSE
    /\ tickPc = "waits" /\ asked = {} /\ found = {}

LockInit ==
    /\ tip = 0 /\ locked = {} /\ wire = {}
    /\ feed = <<>> /\ applied = {}
    /\ rows = [h \in Heights |-> None]
    /\ txLocked = [h \in Heights |-> None]
    /\ cursor = 0
    /\ StartInit
    /\ mishaps = 0

-----------------------------------------------------------------------------
(***************************************************************************)
(* The node and the ZMQ listener                                           *)
(***************************************************************************)

NodeMines ==
    /\ tip < MaxHeight
    /\ tip' = tip + 1 /\ wire' = wire \cup {<<"hashblock", tip + 1>>}
    /\ UNCHANGED <<locked, feed, applied, storing, rows, txLocked, indexVars,
                   applyVars, deferred, tickVars, mishaps>>

NodeLocks ==
    /\ \E h \in (1..tip) \ locked :
         locked' = locked \cup {h} /\ wire' = wire \cup {<<"hashchainlock", h>>}
    /\ UNCHANGED <<tip, feed, applied, storing, rows, txLocked, indexVars,
                   applyVars, deferred, tickVars, mishaps>>

\* A PUB socket drops silently under pressure.
WireDrops ==
    /\ \E n \in wire : wire' = wire \ {n}
    /\ UNCHANGED <<tip, locked, feed, applied, storing, rows, txLocked, indexVars,
                   applyVars, deferred, tickVars, mishaps>>

\* ZmqService.handle: the row is stored, and only then are subscribers told.
ListenerStores ==
    /\ storing = None
    /\ \E n \in wire : wire' = wire \ {n} /\ feed' = Append(feed, n) /\ storing' = n
    /\ UNCHANGED <<tip, locked, applied, rows, txLocked, indexVars, applyVars,
                   deferred, tickVars, mishaps>>

\* applyPendingObservations up to its first await, or dropped by `applying`
\* with the flag as the caller left it.
Wakes(flag) ==
    IF applyPc = "off"
    THEN applyPc' = "find" /\ deferred' = FALSE
    ELSE deferred' = flag /\ UNCHANGED applyPc

ListenerSignals ==
    /\ storing # None
    /\ storing' = None
    /\ Wakes(TRUE)
    /\ UNCHANGED <<nodeVars, feed, applied, rows, txLocked, indexVars, batch,
                   seen, done, left, tickVars, mishaps>>

-----------------------------------------------------------------------------
(***************************************************************************)
(* indexBlock, as far as locks are concerned                               *)
(***************************************************************************)

\* getblock
IndexReads ==
    /\ indexPc = "idle" /\ indexAt <= tip
    /\ indexLock' = (indexAt \in locked) /\ indexPc' = "txs"
    /\ UNCHANGED <<nodeVars, feed, applied, storing, rows, txLocked, cursor,
                   indexAt, applyVars, deferred, tickVars, mishaps>>

IndexTxs ==
    /\ indexPc = "txs"
    /\ txLocked' = [txLocked EXCEPT ![indexAt] = indexLock]
    /\ indexPc' = "upsert"
    /\ UNCHANGED <<nodeVars, feed, applied, storing, rows, cursor, indexAt,
                   indexLock, applyVars, deferred, tickVars, mishaps>>

\* $set: a row that exists keeps what the upsert does not name.
IndexUpserts ==
    /\ indexPc = "upsert"
    /\ rows' = [rows EXCEPT ![indexAt] = IF @ = None THEN Bare(indexLock)
                                         ELSE [@ EXCEPT !.flag = indexLock]]
    /\ indexPc' = "notify"
    /\ UNCHANGED <<nodeVars, feed, applied, storing, txLocked, cursor, indexAt,
                   indexLock, applyVars, deferred, tickVars, mishaps>>

\* notifyBlockIndexed
IndexNotifies ==
    /\ indexPc = "notify"
    /\ indexPc' = "idle" /\ indexAt' = indexAt + 1 /\ indexLock' = FALSE
    /\ IF deferred THEN Wakes(TRUE) ELSE UNCHANGED <<applyPc, deferred>>
    /\ UNCHANGED <<nodeVars, feed, applied, storing, rows, txLocked, cursor,
                   batch, seen, done, left, tickVars, mishaps>>

\* mutant: the block that is about to be read is saved as done
IndexSaves_Ahead ==
    /\ indexPc = "idle" /\ cursor # indexAt
    /\ cursor' = indexAt
    /\ UNCHANGED <<nodeVars, feed, applied, storing, rows, txLocked, indexPc,
                   indexAt, indexLock, applyVars, deferred, tickVars, mishaps>>

\* saveProgress, between two blocks
IndexSaves ==
    /\ indexPc = "idle" /\ cursor # indexAt - 1
    /\ cursor' = indexAt - 1
    /\ UNCHANGED <<nodeVars, feed, applied, storing, rows, txLocked, indexPc,
                   indexAt, indexLock, applyVars, deferred, tickVars, mishaps>>

\* The pass throws; the next one starts above the saved height.
IndexFails ==
    /\ Fails
    /\ indexPc # "idle" \/ cursor # indexAt - 1
    /\ indexPc' = "idle" /\ indexAt' = cursor + 1 /\ indexLock' = FALSE
    /\ UNCHANGED <<nodeVars, feed, applied, storing, rows, txLocked, cursor,
                   applyVars, deferred, tickVars>>

IndexBlock == IndexReads \/ IndexTxs \/ IndexUpserts \/ IndexNotifies \/ IndexSaves

-----------------------------------------------------------------------------
(***************************************************************************)
(* applyPendingObservations                                                *)
(***************************************************************************)

applyWrites == <<nodeVars, feed, storing, indexVars, asked, found>>

\* mutant: a notification that came during the batch is taken for one that the
\* batch has dealt with
ApplyEnds_OneTrigger(pendingLeft) ==
    /\ ApplyRests
    /\ applyPc' = "off" /\ deferred' = pendingLeft
    /\ tickPc' = IF tickPc = "waits" THEN "collect" ELSE tickPc

\* A notification that arrived meanwhile is run at once; rows that were left
\* pending wait for the indexer or the tick.
ApplyEnds(pendingLeft) ==
    /\ ApplyRests
    /\ IF deferred
       THEN applyPc' = "find" /\ deferred' = FALSE
       ELSE applyPc' = "off" /\ deferred' = pendingLeft
    /\ tickPc' = IF tickPc = "waits" THEN "collect" ELSE tickPc

\* The oldest pending observations, OBSERVATION_BATCH of them at most.
Firsts == {i \in Pending : Cardinality({j \in Pending : j < i}) < Batch}

ApplyFinds ==
    /\ applyPc = "find"
    /\ IF Pending = {}
       THEN ApplyEnds(FALSE)
       ELSE /\ applyPc' = "row" /\ batch' = Firsts
            /\ UNCHANGED <<seen, done, left, deferred, tickPc>>
    /\ UNCHANGED <<applyWrites, mishaps, applied, rows, txLocked>>

\* The block of the oldest notification is looked up.  Without a row it stays
\* pending, or is given up on when it is an hour old.
ApplyLooksUp ==
    /\ applyPc = "row" /\ batch # {}
    /\ IF rows[Notice[2]] # None
       THEN /\ applyPc' = "write" /\ seen' = rows[Notice[2]]
            /\ UNCHANGED <<batch, done, left>>
       ELSE /\ batch' = batch \ {Oldest}
            /\ \/ left' = TRUE /\ UNCHANGED done
               \/ done' = done \cup {Oldest} /\ UNCHANGED left
            /\ UNCHANGED <<applyPc, seen>>
    /\ UNCHANGED <<applyWrites, mishaps, applied, rows, txLocked, deferred, tickPc>>

\* The notification in hand is dealt with.
Next1 ==
    /\ applyPc' = "row" /\ batch' = batch \ {Oldest} /\ done' = done \cup {Oldest}
    /\ seen' = None /\ UNCHANGED left

\* mutant: a lock applied before the first sight never gets its latency
Sighted_NoLatency(row) ==
    IF row.sighted THEN row ELSE [row EXCEPT !.sighted = TRUE]

\* The first sight of a block, with the latency of a lock that was applied
\* before it; the update is filtered on firstSeenAt.
Sighted(row) ==
    IF row.sighted THEN row
    ELSE [row EXCEPT !.sighted = TRUE,
                     !.timed = @ \/ (seen.lockedBy = "zmq" /\ ~seen.timed)]

ApplySighting ==
    /\ applyPc = "write" /\ Notice[1] = "hashblock"
    /\ rows' = IF seen.sighted THEN rows
               ELSE [rows EXCEPT ![Notice[2]] = Sighted(@)]
    /\ Next1
    /\ UNCHANGED <<applyWrites, mishaps, applied, txLocked, deferred, tickPc>>

\* The lock's own fields, in an update that is filtered on chainLockedAt.
Locked(row, by, timed) ==
    IF row.lockedBy # "nobody" THEN row
    ELSE [row EXCEPT !.flag = TRUE, !.lockedBy = by, !.timed = timed]

ApplyLock ==
    /\ applyPc = "write" /\ Notice[1] = "hashchainlock"
    /\ IF seen.lockedBy # "nobody"
       THEN Next1 /\ UNCHANGED rows
       ELSE /\ rows' = [rows EXCEPT ![Notice[2]] = Locked(@, "zmq", seen.sighted)]
            /\ applyPc' = "txs"
            /\ UNCHANGED <<batch, seen, done, left>>
    /\ UNCHANGED <<applyWrites, mishaps, applied, txLocked, deferred, tickPc>>

ApplyLockToTxs ==
    /\ applyPc = "txs"
    /\ txLocked' = [txLocked EXCEPT ![Notice[2]] = IF @ = None THEN None ELSE TRUE]
    /\ Next1
    /\ UNCHANGED <<applyWrites, mishaps, applied, rows, deferred, tickPc>>

ApplyMarks ==
    /\ applyPc = "row" /\ batch = {}
    /\ applied' = applied \cup done
    /\ ApplyEnds(left)
    /\ UNCHANGED <<applyWrites, mishaps, rows, txLocked>>

\* A query fails: the batch is over and nothing of it is marked.
ApplyFails ==
    /\ Fails
    /\ applyPc # "off"
    /\ ApplyEnds(TRUE)
    /\ UNCHANGED <<applyWrites, applied, rows, txLocked>>

Apply == ApplyFinds \/ ApplyLooksUp \/ ApplySighting \/ ApplyLock
         \/ ApplyLockToTxs \/ ApplyMarks

-----------------------------------------------------------------------------
(***************************************************************************)
(* tick: derive, then reconcile with the node                              *)
(***************************************************************************)

tickWrites == <<nodeVars, feed, applied, storing, indexVars, batch, seen, done, left>>

\* mutant: the tick leaves the derivation to the notifications
TickBegins_CollectOnly ==
    /\ tickPc = "off"
    /\ tickPc' = "collect"
    /\ UNCHANGED <<tickWrites, mishaps, rows, txLocked, applyPc, deferred, asked, found>>

\* A derivation that is running already is not waited for.
TickBegins ==
    /\ tickPc = "off"
    /\ tickPc' = IF applyPc = "off" THEN "waits" ELSE "collect"
    /\ Wakes(deferred)
    /\ UNCHANGED <<tickWrites, mishaps, rows, txLocked, asked, found>>

\* mutant: only rows without the flag are asked about
Candidates_Unflagged ==
    {h \in Heights : /\ tip - Window < h /\ h <= tip /\ rows[h] # None
                     /\ ~rows[h].flag}

\* "Only blocks not yet seen locked; once observed the record stands."
Candidates ==
    {h \in Heights : /\ tip - Window < h /\ h <= tip /\ rows[h] # None
                     /\ rows[h].lockedBy = "nobody"}

CollectBegins ==
    /\ tickPc = "collect"
    /\ tickPc' = "ask" /\ asked' = Candidates
    /\ UNCHANGED <<tickWrites, mishaps, rows, txLocked, applyPc, deferred, found>>

CollectAsks ==
    /\ tickPc = "ask" /\ asked # {}
    /\ \E h \in asked :
         /\ asked' = asked \ {h}
         /\ found' = IF h \in locked THEN found \cup {h} ELSE found
    /\ UNCHANGED <<tickWrites, mishaps, rows, txLocked, applyPc, deferred, tickPc>>

CollectWrites ==
    /\ tickPc = "ask" /\ asked = {}
    /\ rows' = [h \in Heights |-> IF h \in found /\ rows[h] # None
                                  THEN Locked(rows[h], "poll", rows[h].timed)
                                  ELSE rows[h]]
    /\ IF found = {} THEN tickPc' = "off" ELSE tickPc' = "txs"
    /\ UNCHANGED <<tickWrites, mishaps, txLocked, applyPc, deferred, asked, found>>

CollectWritesTxs ==
    /\ tickPc = "txs"
    /\ txLocked' = [h \in Heights |-> IF h \in found /\ txLocked[h] # None
                                      THEN TRUE ELSE txLocked[h]]
    /\ tickPc' = "off" /\ TickRests
    /\ UNCHANGED <<tickWrites, mishaps, rows, applyPc, deferred>>

\* The node or a query fails: the tick is over.
TickFails ==
    /\ Fails
    /\ tickPc \notin {"off", "waits"}
    /\ tickPc' = "off" /\ TickRests
    /\ UNCHANGED <<tickWrites, rows, txLocked, applyPc, deferred>>

Reconcile == CollectBegins \/ CollectAsks \/ CollectWrites \/ CollectWritesTxs

-----------------------------------------------------------------------------
\* The process dies, with what was on its way to it, and starts again.
Crash ==
    /\ Fails
    /\ wire' = {} /\ storing' = None
    /\ indexPc' = "idle" /\ indexAt' = cursor + 1 /\ indexLock' = FALSE
    /\ applyPc' = "find" /\ ApplyRests
    /\ deferred' = FALSE
    /\ tickPc' = "waits" /\ TickRests
    /\ UNCHANGED <<tip, locked, feed, applied, rows, txLocked, cursor>>

LockNext ==
    \/ NodeMines \/ NodeLocks \/ WireDrops \/ ListenerStores \/ ListenerSignals
    \/ IndexBlock \/ Apply \/ TickBegins \/ Reconcile
    \/ IndexFails \/ ApplyFails \/ TickFails \/ Crash

\* Every await returns or throws and both timers fire again and again; the
\* node and the wire owe nothing.
LockFairness ==
    /\ WF_lockVars(ListenerSignals)
    /\ WF_lockVars(IndexBlock)
    /\ WF_lockVars(Apply)
    /\ WF_lockVars(TickBegins)
    /\ WF_lockVars(Reconcile)

LockSpec == LockInit /\ [][LockNext]_lockVars /\ LockFairness

-----------------------------------------------------------------------------
(***************************************************************************)
(* Properties                                                              *)
(***************************************************************************)

LockTypeOK ==
    /\ tip \in 0..MaxHeight /\ locked \subseteq 1..tip /\ wire \subseteq Notices
    /\ feed \in Seq(Notices)
    /\ applied \subseteq 1..Len(feed)
    /\ batch \subseteq 1..Len(feed) /\ done \subseteq 1..Len(feed)
    /\ storing \in Notices \cup {None}
    /\ rows \in [Heights -> Row \cup {None}]
    /\ txLocked \in [Heights -> BOOLEAN \cup {None}]
    /\ cursor \in 0..tip /\ indexAt \in (cursor + 1)..(tip + 1) /\ indexLock \in BOOLEAN
    /\ indexPc \in {"idle", "txs", "upsert", "notify"}
    /\ applyPc \in {"off", "find", "row", "write", "txs"}
    /\ seen \in Row \cup {None} /\ (seen # None <=> applyPc \in {"write", "txs"})
    /\ left \in BOOLEAN /\ deferred \in BOOLEAN
    /\ tickPc \in {"off", "waits", "collect", "ask", "txs"}
    /\ tickPc = "waits" => applyPc # "off"
    /\ found \subseteq locked /\ asked \subseteq Heights
    /\ mishaps \in 0..MaxMishaps

\* "The lock can be applied before the first sight ... the report read it as a
\* telemetry gap" (applyObservations): a block whose lock and whose first sight
\* both came over ZMQ has its latency, in whatever order the two were applied
\* and wherever a batch died between them.  And only such a block has one: the
\* poll of the reconciliation never replaces a lock that was heard, although the
\* two may find it at once, and its own resolution is never mixed in.
LatencyIsDerived ==
    \A h \in Heights :
        rows[h] # None =>
            (rows[h].timed <=> rows[h].lockedBy = "zmq" /\ rows[h].sighted)

\* A notification stored is never forgotten by the wake-up protocol: when no
\* derivation runs, one whose row is left pending has left the flag up that the
\* indexer's next block looks at.  (While no more than OBSERVATION_BATCH are
\* pending: the rest of a longer backlog waits for a notification or a tick.)
PendingIsFlagged ==
    applyPc = "off" /\ storing = None /\ Pending # {} /\ Len(feed) <= Batch => deferred

-----------------------------------------------------------------------------
(***************************************************************************)
(* What makes them inductive                                               *)
(***************************************************************************)

\* indexBlock is at a block the node has; a derivation holds rows of the feed
\* while it runs and none between two, and has one in hand when it writes.
PassesInv ==
    /\ indexPc # "idle" => indexAt <= tip
    /\ applyPc \in {"off", "find"} => batch = {} /\ done = {} /\ ~left
    /\ applyPc \in {"write", "txs"} => batch # {}

\* The Block a derivation read before its write still says what it said of the
\* sight, the latency and a lock that was heard: in that window the indexer
\* only turns the flag and the reconciliation only fills in a lock of its own.
SeenStillHolds ==
    applyPc \in {"write", "txs"} =>
        LET row == rows[Notice[2]]
        IN /\ row # None
           /\ seen.lockedBy # "nobody" => row.lockedBy = seen.lockedBy
           /\ applyPc = "write" => /\ row.sighted = seen.sighted
                                   /\ row.timed = seen.timed
                                   /\ row.lockedBy = "zmq" => seen.lockedBy = "zmq"

\* While a derivation runs, a pending row is in its batch, or dealt with and
\* about to be marked, or left, or its signal has raised the flag.
BatchCoversPending ==
    applyPc \in {"row", "write", "txs"} /\ storing = None /\ Len(feed) <= Batch =>
        left \/ deferred \/ Pending \subseteq batch \cup done

LockInv ==
    /\ LockTypeOK /\ PassesInv
    /\ LatencyIsDerived /\ SeenStillHolds
    /\ PendingIsFlagged /\ BatchCoversPending

-----------------------------------------------------------------------------
\* Whatever the wire dropped and whatever failed, a lock the node holds for a
\* recent block gets on record: the reconciliation asks about every block whose
\* lock is not on record, also one that was indexed with the flag up.
LocksArrive ==
    \A h \in Heights :
        <>[](h \in locked /\ tip - Window < h)
          => <>[](rows[h] # None /\ rows[h].lockedBy # "nobody")

\* Every stored notification is dealt with in the end: what no wake-up reaches,
\* the next tick finds, and a batch that died is done again.
AllApplied == []<>(Pending = {})

-----------------------------------------------------------------------------
\* "Without this the per-transaction flag stayed false on a chain where every
\* block is locked, and the two views contradicted each other" (collect), and
\* "once observed the record stands": when nobody is at work on a block whose
\* lock is on record, the block and its transactions are both flagged locked.
ViewsAgree ==
    indexPc = "idle" /\ applyPc = "off" /\ tickPc = "off"
      => \A h \in Heights :
           rows[h] # None /\ rows[h].lockedBy # "nobody" => rows[h].flag /\ txLocked[h] = TRUE
=============================================================================
