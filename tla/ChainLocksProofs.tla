-------------------------- MODULE ChainLocksProofs --------------------------
(***************************************************************************)
(* Proofs about the ChainLock watcher for every number of blocks, window,  *)
(* batch size and number of mishaps: listener, derivation, reconciliation  *)
(* and indexer write the same rows and interleave at every await, and any  *)
(* of them may fail.                                                       *)
(***************************************************************************)
EXTENDS ChainLocks, TLAPS, WellFoundedInduction, NaturalsInduction,
        FiniteSetTheorems

-----------------------------------------------------------------------------
(***************************************************************************)
(* The feed and the batch                                                  *)
(***************************************************************************)

\* A nonempty set of natural numbers has a least element.
LEMMA LeastElement ==
    ASSUME NEW S \in SUBSET Nat, S # {}
    PROVE  \E i \in S : \A j \in S : i <= j
<1>1. \E x \in S : \A y \in S : ~(<<y, x>> \in OpToRel(<, Nat))
  BY NatLessThanWellFounded, WFMin
<1>2. PICK x \in S : \A y \in S : ~(<<y, x>> \in OpToRel(<, Nat))
  BY <1>1
<1>3. \A y \in S : ~(y < x)
  BY <1>2 DEF OpToRel
<1>4. QED BY <1>3

\* A batch that is not through has a row in hand, one of the feed.
LEMMA OldestInBatch ==
    ASSUME feed \in Seq(Notices), batch \subseteq 1..Len(feed), batch # {}
    PROVE  /\ Oldest \in batch /\ Oldest \in 1..Len(feed)
           /\ Notice \in Notices /\ Notice[2] \in Heights
<1>1. batch \in SUBSET Nat
  OBVIOUS
<1>2. \E i \in batch : \A j \in batch : i <= j
  BY <1>1, LeastElement
<1>3. Oldest \in batch
  BY <1>2 DEF Oldest
<1>4. QED BY <1>3 DEF Notice, Notices

\* What is stored already keeps its place in the feed.
LEMMA FeedGrows ==
    ASSUME feed \in Seq(Notices), NEW n \in Notices, feed' = Append(feed, n)
    PROVE  /\ feed' \in Seq(Notices) /\ Len(feed') = Len(feed) + 1
           /\ Len(feed) \in Nat
           /\ 1..Len(feed) \subseteq 1..Len(feed')
           /\ \A i \in 1..Len(feed) : feed'[i] = feed[i]
OBVIOUS

\* The row in hand stays the same while a notification arrives.
LEMMA NoticeStays ==
    ASSUME feed \in Seq(Notices), batch \subseteq 1..Len(feed), batch # {},
           NEW n \in Notices, feed' = Append(feed, n), batch' = batch
    PROVE  Notice' = Notice
<1>1. Oldest \in 1..Len(feed) /\ Oldest' = Oldest
  BY OldestInBatch DEF Oldest
<1>2. QED BY <1>1, FeedGrows DEF Notice

\* A backlog no longer than the batch size is taken whole.
LEMMA BatchIsWhole ==
    ASSUME feed \in Seq(Notices), Len(feed) <= Batch PROVE Firsts = Pending
<1> SUFFICES ASSUME NEW i \in Pending
             PROVE  Cardinality({j \in Pending : j < i}) < Batch
  BY DEF Firsts
<1> DEFINE Before == {j \in Pending : j < i}
<1>1. i \in 1..Len(feed) /\ Len(feed) \in Nat /\ Batch \in Nat
  BY LockAssumption DEF Pending
<1>2. Before \subseteq 1..(i - 1)
  BY <1>1 DEF Pending
<1>3. IsFiniteSet(1..(i - 1)) /\ Cardinality(1..(i - 1)) = i - 1
  <2> DEFINE last == i - 1
  <2>1. 1 \in Int /\ last \in Int /\ last >= 0
    BY <1>1
  <2> HIDE DEF last
  <2>2. /\ IsFiniteSet(1..last)
        /\ Cardinality(1..last) = IF 1 > last THEN 0 ELSE last - 1 + 1
    BY <2>1, FS_Interval
  <2>3. Cardinality(1..last) = last
    BY <2>1, <2>2
  <2>4. QED BY <2>2, <2>3 DEF last
<1>4. IsFiniteSet(Before) /\ Cardinality(Before) <= i - 1
  <2> DEFINE below == 1..(i - 1)
  <2>1. Before \in SUBSET below /\ IsFiniteSet(below) /\ Cardinality(below) = i - 1
    BY <1>2, <1>3
  <2> HIDE DEF Before, below
  <2>2. QED BY <2>1, FS_Subset
<1>5. Cardinality(Before) \in Nat
  BY <1>4, FS_CardinalityType
<1> HIDE DEF Before
<1>6. Cardinality(Before) < Batch
  BY <1>1, <1>4, <1>5
<1>7. QED BY <1>6 DEF Before

-----------------------------------------------------------------------------
(***************************************************************************)
(* What the writers make of a row                                          *)
(***************************************************************************)

\* A row's latency is there when it should be.
RowLatency(row) == row.timed <=> row.lockedBy = "zmq" /\ row.sighted

\* Row types, written out once.
LEMMA RowFields ==
    ASSUME NEW row \in Row
    PROVE  /\ row.flag \in BOOLEAN /\ row.sighted \in BOOLEAN
           /\ row.timed \in BOOLEAN
           /\ row.lockedBy \in {"nobody", "zmq", "poll"} /\ row # None
BY NoneAssumption DEF Row

\* The indexer: a new row has no latency, an old one keeps what it has.
LEMMA UpsertRow ==
    ASSUME NEW row \in Row \cup {None}, NEW flag \in BOOLEAN,
           row # None => RowLatency(row),
           NEW new, new = IF row = None THEN Bare(flag)
                          ELSE [row EXCEPT !.flag = flag]
    PROVE  /\ new \in Row /\ RowLatency(new)
           /\ row # None => /\ new.lockedBy = row.lockedBy
                            /\ new.sighted = row.sighted
                            /\ new.timed = row.timed
BY DEF Row, Bare, RowLatency

\* The first sight, when the row is what it was when it was read.
LEMMA SightRow ==
    ASSUME NEW row \in Row, RowLatency(row), seen \in Row,
           ~seen.sighted, row.sighted = seen.sighted, row.timed = seen.timed,
           row.lockedBy = "zmq" <=> seen.lockedBy = "zmq"
    PROVE  Sighted(row) \in Row /\ RowLatency(Sighted(row))
BY DEF Row, Sighted, RowLatency

\* A lock that was heard, after a lookup that found none.
LEMMA HeardRow ==
    ASSUME NEW row \in Row, RowLatency(row), NEW timed \in BOOLEAN,
           timed = row.sighted
    PROVE  Locked(row, "zmq", timed) \in Row /\ RowLatency(Locked(row, "zmq", timed))
BY DEF Row, Locked, RowLatency

\* A lock that was polled: it fills in, and touches no sight and no latency.
LEMMA PolledRow ==
    ASSUME NEW row \in Row, RowLatency(row),
           NEW new, new = Locked(row, "poll", row.timed)
    PROVE  /\ new \in Row /\ RowLatency(new)
           /\ new.sighted = row.sighted /\ new.timed = row.timed
           /\ new.lockedBy = "zmq" <=> row.lockedBy = "zmq"
           /\ row.lockedBy # "nobody" => new.lockedBy = row.lockedBy
BY DEF Row, Locked, RowLatency

-----------------------------------------------------------------------------
(***************************************************************************)
(* Types, and what a derivation holds                                      *)
(***************************************************************************)

\* The node moves and tells, or the wire drops.
LEMMA NodeType ==
    ASSUME LockTypeOK, PassesInv, NodeMines \/ NodeLocks \/ WireDrops
    PROVE  LockTypeOK' /\ PassesInv'
<1> USE LockAssumption DEF LockTypeOK, PassesInv, indexVars, applyVars, tickVars
<1>1. CASE NodeMines
  <2>1. tip + 1 \in Heights /\ tip' = tip + 1 /\ tip' \in 0..MaxHeight
    BY <1>1 DEF NodeMines, Heights
  <2>2. <<"hashblock", tip + 1>> \in Notices
    BY <2>1 DEF Notices
  <2>3. /\ locked \subseteq 1..tip' /\ cursor \in 0..tip'
        /\ indexAt \in (cursor + 1)..(tip' + 1)
        /\ indexPc # "idle" => indexAt <= tip'
    <3>1. /\ tip \in Int /\ cursor \in Int /\ indexAt \in Int /\ cursor <= tip
          /\ indexAt <= tip + 1
      OBVIOUS
    <3>2. QED BY <2>1, <3>1
  <2>4. QED BY <1>1, <2>1, <2>2, <2>3 DEF NodeMines
<1>2. CASE NodeLocks
  <2>1. PICK h \in (1..tip) \ locked :
          locked' = locked \cup {h} /\ wire' = wire \cup {<<"hashchainlock", h>>}
    BY <1>2 DEF NodeLocks
  <2>2. <<"hashchainlock", h>> \in Notices
    BY <2>1 DEF Notices, Heights
  <2>3. QED BY <1>2, <2>1, <2>2 DEF NodeLocks
<1>3. CASE WireDrops
  BY <1>3 DEF WireDrops
<1>4. QED BY <1>1, <1>2, <1>3

\* A notification is stored, and its signal given.
LEMMA ListenerType ==
    ASSUME LockTypeOK, PassesInv, ListenerStores \/ ListenerSignals
    PROVE  LockTypeOK' /\ PassesInv'
<1> USE LockAssumption DEF LockTypeOK, PassesInv, indexVars, applyVars, tickVars
<1>1. CASE ListenerStores
  <2>1. PICK n \in Notices : /\ n \in wire /\ wire' = wire \ {n}
                             /\ feed' = Append(feed, n) /\ storing' = n
    BY <1>1 DEF ListenerStores
  <2>2. feed' \in Seq(Notices) /\ 1..Len(feed) \subseteq 1..Len(feed')
    BY <2>1, FeedGrows
  <2>3. QED BY <1>1, <2>1, <2>2 DEF ListenerStores
<1>2. CASE ListenerSignals
  BY <1>2 DEF ListenerSignals, nodeVars, Wakes
<1>3. QED BY <1>1, <1>2

\* indexBlock, its save, and its failure.
LEMMA IndexType ==
    ASSUME LockTypeOK, PassesInv, IndexBlock \/ IndexFails
    PROVE  LockTypeOK' /\ PassesInv'
<1> USE LockAssumption
    DEF LockTypeOK, PassesInv, nodeVars, indexVars, applyVars, tickVars
<1>1. CASE IndexReads
  BY <1>1 DEF IndexReads
<1>2. CASE IndexTxs
  BY <1>2 DEF IndexTxs
<1>3. CASE IndexUpserts
  <2> DEFINE new == IF rows[indexAt] = None THEN Bare(indexLock)
                    ELSE [rows[indexAt] EXCEPT !.flag = indexLock]
  <2>1. rows' \in [Heights -> Row \cup {None}]
    <3>1. rows' = [rows EXCEPT ![indexAt] = new] /\ rows \in [Heights -> Row \cup {None}]
      BY <1>3 DEF IndexUpserts
    <3>2. indexAt \in Heights => rows[indexAt] \in Row \cup {None}
      BY <3>1
    <3>3. indexLock \in BOOLEAN
      OBVIOUS
    <3>4. indexAt \in Heights => new \in Row
      BY <3>2, <3>3 DEF Row, Bare
    <3> HIDE DEF new
    <3>5. QED BY <3>1, <3>4
  <2>2. QED BY <1>3, <2>1 DEF IndexUpserts
<1>4. CASE IndexNotifies
  <2>1. indexAt' \in (cursor + 1)..(tip + 1) /\ UNCHANGED <<cursor, tip>>
    BY <1>4 DEF IndexNotifies
  <2>2. /\ applyPc' \in {applyPc, "find"} /\ deferred' \in BOOLEAN
        /\ applyPc' = "find" => applyPc \in {"off", "find"}
    BY <1>4 DEF IndexNotifies, Wakes
  <2>3. QED BY <1>4, <2>1, <2>2 DEF IndexNotifies
<1>5. CASE IndexSaves
  BY <1>5 DEF IndexSaves
<1>6. CASE IndexFails
  <2>1. indexAt' \in (cursor + 1)..(tip + 1) /\ UNCHANGED <<cursor, tip>>
    BY <1>6 DEF IndexFails
  <2>2. mishaps' \in 0..MaxMishaps
    BY <1>6 DEF IndexFails, Fails
  <2>3. QED BY <1>6, <2>1, <2>2 DEF IndexFails
<1>7. QED BY <1>1, <1>2, <1>3, <1>4, <1>5, <1>6 DEF IndexBlock

\* A derivation that is over holds nothing, and lets a waiting tick go on.
LEMMA ApplyEndsType ==
    ASSUME LockTypeOK, PassesInv, NEW flag \in BOOLEAN, ApplyEnds(flag),
           UNCHANGED <<nodeVars, feed, storing, indexVars, asked, found, rows, txLocked>>,
           applied' \subseteq 1..Len(feed), mishaps' \in 0..MaxMishaps
    PROVE  LockTypeOK' /\ PassesInv'
BY LockAssumption
DEF LockTypeOK, PassesInv, ApplyEnds, ApplyRests, nodeVars, indexVars

\* Every step of a derivation.
LEMMA ApplyType ==
    ASSUME LockTypeOK, PassesInv, SeenStillHolds, Apply \/ ApplyFails
    PROVE  LockTypeOK' /\ PassesInv'
<1> USE LockAssumption
    DEF LockTypeOK, PassesInv, nodeVars, indexVars, applyWrites
<1>0. batch # {} => Oldest \in 1..Len(feed) /\ Notice[2] \in Heights
  BY OldestInBatch
<1>1. CASE ApplyFinds
  <2>1. CASE Pending = {}
    <3>1. ApplyEnds(FALSE)
      BY <1>1, <2>1 DEF ApplyFinds
    <3>2. QED BY <1>1, <3>1, ApplyEndsType DEF ApplyFinds
  <2>2. CASE Pending # {}
    <3>1. Firsts \subseteq 1..Len(feed)
      BY DEF Firsts, Pending
    <3>2. QED BY <1>1, <2>2, <3>1 DEF ApplyFinds
  <2>3. QED BY <2>1, <2>2
<1>2. CASE ApplyLooksUp
  BY <1>0, <1>2 DEF ApplyLooksUp
<1>3. CASE ApplySighting
  <2>1. seen \in Row
    BY <1>3 DEF ApplySighting
  <2>2. \A row \in Row : Sighted(row) \in Row
    BY <2>1 DEF Row, Sighted
  <2>3. rows[Notice[2]] \in Row
    BY <1>0, <1>3 DEF ApplySighting, SeenStillHolds
  <2>4. Sighted(rows[Notice[2]]) \in Row
    BY <2>2, <2>3
  <2>5. rows' \in [Heights -> Row \cup {None}]
    BY <1>0, <1>3, <2>4 DEF ApplySighting
  <2>6. QED BY <1>0, <1>3, <2>5 DEF ApplySighting, Next1
<1>4. CASE ApplyLock
  <2>1. seen \in Row /\ seen.sighted \in BOOLEAN
    BY <1>4, RowFields DEF ApplyLock
  <2>2. \A row \in Row : Locked(row, "zmq", seen.sighted) \in Row
    BY <2>1 DEF Row, Locked
  <2>3. rows[Notice[2]] \in Row
    BY <1>0, <1>4 DEF ApplyLock, SeenStillHolds
  <2>4. Locked(rows[Notice[2]], "zmq", seen.sighted) \in Row
    BY <2>2, <2>3
  <2>5. rows' \in [Heights -> Row \cup {None}]
    BY <1>0, <1>4, <2>4 DEF ApplyLock
  <2>6. CASE seen.lockedBy # "nobody"
    BY <1>0, <1>4, <2>6 DEF ApplyLock, Next1
  <2>7. CASE seen.lockedBy = "nobody"
    <3>1. applyPc' = "txs" /\ UNCHANGED <<batch, seen, done, left>>
      BY <1>4, <2>7 DEF ApplyLock
    <3>2. QED BY <1>4, <2>5, <3>1 DEF ApplyLock
  <2>8. QED BY <2>6, <2>7
<1>5. CASE ApplyLockToTxs
  <2>1. txLocked' \in [Heights -> BOOLEAN \cup {None}]
    BY <1>5 DEF ApplyLockToTxs
  <2>2. QED BY <1>0, <1>5, <2>1 DEF ApplyLockToTxs, Next1
<1>6. CASE ApplyMarks
  BY <1>6, ApplyEndsType DEF ApplyMarks
<1>7. CASE ApplyFails
  <2>1. ApplyEnds(TRUE)
    BY <1>7 DEF ApplyFails
  <2>2. mishaps' \in 0..MaxMishaps
    BY <1>7 DEF ApplyFails, Fails
  <2>3. QED BY <1>7, <2>1, <2>2, ApplyEndsType DEF ApplyFails
<1>8. QED BY <1>1, <1>2, <1>3, <1>4, <1>5, <1>6, <1>7 DEF Apply

\* The tick and the reconciliation.
LEMMA TickType ==
    ASSUME LockTypeOK, PassesInv, TickBegins \/ Reconcile \/ TickFails
    PROVE  LockTypeOK' /\ PassesInv'
<1> USE LockAssumption
    DEF LockTypeOK, PassesInv, nodeVars, indexVars, applyVars, tickWrites, TickRests
<1>1. CASE TickBegins
  BY <1>1 DEF TickBegins, Wakes
<1>2. CASE CollectBegins
  BY <1>2 DEF CollectBegins, Candidates
<1>3. CASE CollectAsks
  <2>1. asked' \subseteq Heights /\ found' \subseteq locked
    BY <1>3 DEF CollectAsks
  <2>2. QED BY <1>3, <2>1 DEF CollectAsks
<1>4. CASE CollectWrites
  <2>1. \A row \in Row : Locked(row, "poll", row.timed) \in Row
    BY DEF Row, Locked
  <2>2. rows' \in [Heights -> Row \cup {None}]
    BY <1>4, <2>1 DEF CollectWrites
  <2>3. tickPc' \in {"off", "txs"}
    BY <1>4 DEF CollectWrites
  <2>4. QED BY <1>4, <2>2, <2>3 DEF CollectWrites
<1>5. CASE CollectWritesTxs
  <2>1. txLocked' \in [Heights -> BOOLEAN \cup {None}]
    BY <1>5 DEF CollectWritesTxs
  <2>2. QED BY <1>5, <2>1 DEF CollectWritesTxs
<1>6. CASE TickFails
  BY <1>6 DEF TickFails, Fails
<1>7. QED BY <1>1, <1>2, <1>3, <1>4, <1>5, <1>6 DEF Reconcile

\* A crash leaves nothing in memory.
LEMMA CrashType ==
    ASSUME LockTypeOK, PassesInv, Crash PROVE LockTypeOK' /\ PassesInv'
<1>1. indexAt' \in (cursor + 1)..(tip + 1) /\ UNCHANGED <<cursor, tip>>
  BY LockAssumption DEF LockTypeOK, Crash
<1>2. mishaps' \in 0..MaxMishaps
  BY LockAssumption DEF LockTypeOK, Crash, Fails
<1>3. QED
  BY <1>1, <1>2 DEF Crash, ApplyRests, TickRests, LockTypeOK, PassesInv

-----------------------------------------------------------------------------
(***************************************************************************)
(* The latency of a row, and the row a derivation has read                 *)
(***************************************************************************)

\* What two conjuncts say of the rows, with the notice in hand.
LEMMA RowsStay ==
    ASSUME LockTypeOK, PassesInv, LatencyIsDerived, SeenStillHolds,
           UNCHANGED <<rows, seen, batch>>,
           \/ UNCHANGED <<applyPc, feed>>
           \/ UNCHANGED applyPc /\ \E n \in Notices : feed' = Append(feed, n)
           \/ applyPc' \notin {"write", "txs"}
    PROVE  LatencyIsDerived' /\ SeenStillHolds'
<1>1. LatencyIsDerived'
  BY DEF LatencyIsDerived
<1>2. CASE applyPc' \notin {"write", "txs"}
  BY <1>1, <1>2 DEF SeenStillHolds
<1>3. CASE UNCHANGED <<applyPc, feed>>
  BY <1>1, <1>3 DEF SeenStillHolds, Notice, Oldest
<1>4. CASE /\ UNCHANGED applyPc /\ applyPc \in {"write", "txs"}
           /\ \E n \in Notices : feed' = Append(feed, n)
  <2>1. Notice' = Notice
    BY <1>4, NoticeStays DEF LockTypeOK, PassesInv
  <2>2. QED BY <1>1, <1>4, <2>1 DEF SeenStillHolds
<1>5. QED BY <1>2, <1>3, <1>4

\* Other writers leave what the derivation read in place.
LEMMA OthersWrite ==
    ASSUME LockTypeOK, PassesInv, LatencyIsDerived, SeenStillHolds,
           UNCHANGED <<feed, seen, batch, applyPc>>,
           rows' \in [Heights -> Row \cup {None}],
           \A h \in Heights : rows'[h] # None => RowLatency(rows'[h]),
           \A h \in Heights : rows[h] # None =>
               /\ rows'[h] # None
               /\ rows'[h].sighted = rows[h].sighted
               /\ rows'[h].timed = rows[h].timed
               /\ rows'[h].lockedBy = "zmq" <=> rows[h].lockedBy = "zmq"
               /\ rows[h].lockedBy # "nobody" => rows'[h].lockedBy = rows[h].lockedBy
    PROVE  LatencyIsDerived' /\ SeenStillHolds'
<1>1. LatencyIsDerived'
  BY DEF LatencyIsDerived, RowLatency
<1>2. Notice' = Notice
  BY DEF Notice, Oldest
<1>3. CASE applyPc \in {"write", "txs"}
  <2>1. Notice[2] \in Heights
    BY <1>3, OldestInBatch DEF LockTypeOK, PassesInv
  <2>2. seen.lockedBy # "nobody" =>
            rows'[Notice[2]].lockedBy = rows[Notice[2]].lockedBy
    BY <1>3, <2>1 DEF SeenStillHolds
  <2>3. QED BY <1>1, <1>2, <1>3, <2>1, <2>2 DEF SeenStillHolds
<1>4. CASE applyPc \notin {"write", "txs"}
  BY <1>1, <1>4 DEF SeenStillHolds
<1>5. QED BY <1>3, <1>4

\* Everyone but the derivation.
LEMMA OthersRows ==
    ASSUME LockTypeOK, PassesInv, LatencyIsDerived, SeenStillHolds,
           \/ NodeMines \/ NodeLocks \/ WireDrops \/ ListenerStores
           \/ ListenerSignals \/ IndexBlock \/ IndexFails
           \/ TickBegins \/ Reconcile \/ TickFails \/ Crash
    PROVE  LatencyIsDerived' /\ SeenStillHolds'
<1>0. \A h \in Heights : rows[h] \in Row \cup {None}
                         /\ (rows[h] # None => RowLatency(rows[h]))
  BY DEF LockTypeOK, LatencyIsDerived, RowLatency
<1>1. CASE NodeMines \/ NodeLocks \/ WireDrops
  BY <1>1, RowsStay DEF NodeMines, NodeLocks, WireDrops, applyVars
<1>2. CASE ListenerStores
  <2>1. UNCHANGED <<rows, seen, batch, applyPc>>
    BY <1>2 DEF ListenerStores, applyVars
  <2>2. \E n \in Notices : feed' = Append(feed, n)
    BY <1>2 DEF ListenerStores, LockTypeOK
  <2>3. QED BY <2>1, <2>2, RowsStay
<1>3. CASE ListenerSignals
  BY <1>3, RowsStay DEF ListenerSignals, Wakes, applyVars
<1>4. CASE IndexReads \/ IndexTxs \/ IndexNotifies \/ IndexSaves \/ IndexFails
  BY <1>4, RowsStay
  DEF IndexReads, IndexTxs, IndexNotifies, IndexSaves, IndexFails, Wakes, applyVars
<1>5. CASE IndexUpserts
  <2>1. indexAt \in Heights /\ indexLock \in BOOLEAN
    BY <1>5, LockAssumption DEF IndexUpserts, LockTypeOK, PassesInv, Heights
  <2>2. DEFINE new == IF rows[indexAt] = None THEN Bare(indexLock)
                      ELSE [rows[indexAt] EXCEPT !.flag = indexLock]
  <2>3. /\ new \in Row /\ RowLatency(new)
        /\ rows[indexAt] # None => /\ new.lockedBy = rows[indexAt].lockedBy
                                   /\ new.sighted = rows[indexAt].sighted
                                   /\ new.timed = rows[indexAt].timed
    BY <1>0, <2>1, UpsertRow
  <2>4. rows' = [rows EXCEPT ![indexAt] = new]
    BY <1>5, <2>1 DEF IndexUpserts
  <2> HIDE DEF new
  <2>5. new # None
    BY <2>3, NoneAssumption
  <2>6. rows' \in [Heights -> Row \cup {None}]
    BY <2>3, <2>4 DEF LockTypeOK
  <2>7. /\ \A h \in Heights : h # indexAt => rows'[h] = rows[h]
        /\ rows'[indexAt] = new
    BY <2>1, <2>4 DEF LockTypeOK
  <2>8. UNCHANGED <<feed, seen, batch, applyPc>>
    BY <1>5 DEF IndexUpserts, applyVars
  <2>9. QED BY <1>0, <2>3, <2>5, <2>6, <2>7, <2>8, OthersWrite
<1>6. CASE \/ TickBegins \/ CollectBegins \/ CollectAsks \/ CollectWritesTxs
           \/ TickFails
  BY <1>6, RowsStay
  DEF TickBegins, CollectBegins, CollectAsks, CollectWritesTxs, TickFails,
      Wakes, tickWrites
<1>7. CASE CollectWrites
  <2>1. \A h \in Heights :
          rows'[h] = IF h \in found /\ rows[h] # None
                     THEN Locked(rows[h], "poll", rows[h].timed) ELSE rows[h]
    BY <1>7 DEF CollectWrites
  <2>2. ASSUME NEW h \in Heights, rows[h] # None
        PROVE  /\ rows'[h] \in Row /\ RowLatency(rows'[h])
               /\ rows'[h].sighted = rows[h].sighted
               /\ rows'[h].timed = rows[h].timed
               /\ rows'[h].lockedBy = "zmq" <=> rows[h].lockedBy = "zmq"
               /\ rows[h].lockedBy # "nobody" => rows'[h].lockedBy = rows[h].lockedBy
    <3>1. rows[h] \in Row /\ RowLatency(rows[h])
      BY <1>0, <2>2
    <3>2. QED BY <2>1, <2>2, <3>1, PolledRow
  <2>3. \A h \in Heights : rows[h] = None => rows'[h] = None
    BY <2>1
  <2>4. rows' \in [Heights -> Row \cup {None}]
    <3>1. rows' = [h \in Heights |-> rows'[h]]
      BY <1>7 DEF CollectWrites
    <3>2. \A h \in Heights : rows'[h] \in Row \cup {None}
      BY <2>2, <2>3
    <3>3. QED BY <3>1, <3>2
  <2>5. UNCHANGED <<feed, seen, batch, applyPc>>
    BY <1>7 DEF CollectWrites, tickWrites
  <2>6. \A h \in Heights : rows[h] # None => rows'[h] # None
    BY <2>2, NoneAssumption
  <2>7. QED BY <2>2, <2>3, <2>4, <2>5, <2>6, OthersWrite
<1>8. CASE Crash
  <2>1. UNCHANGED rows /\ applyPc' = "find"
    BY <1>8 DEF Crash
  <2>2. QED BY <2>1 DEF LatencyIsDerived, SeenStillHolds
<1>9. QED
  BY <1>1, <1>2, <1>3, <1>4, <1>5, <1>6, <1>7, <1>8 DEF IndexBlock, Reconcile

\* A derivation ends, or is between two rows.
LEMMA ApplyRestsRows ==
    ASSUME LatencyIsDerived, UNCHANGED rows, applyPc' \notin {"write", "txs"}
    PROVE  LatencyIsDerived' /\ SeenStillHolds'
BY DEF LatencyIsDerived, SeenStillHolds

\* The derivation itself.
LEMMA ApplyRows ==
    ASSUME LockTypeOK, PassesInv, LatencyIsDerived, SeenStillHolds,
           Apply \/ ApplyFails
    PROVE  LatencyIsDerived' /\ SeenStillHolds'
<1>0. ASSUME applyPc \in {"write", "txs"}
      PROVE  /\ Notice[2] \in Heights /\ rows[Notice[2]] \in Row /\ seen \in Row
             /\ RowLatency(rows[Notice[2]])
             /\ seen.lockedBy # "nobody" =>
                  rows[Notice[2]].lockedBy = seen.lockedBy
             /\ applyPc = "write" => /\ rows[Notice[2]].sighted = seen.sighted
                                     /\ rows[Notice[2]].timed = seen.timed
                                     /\ rows[Notice[2]].lockedBy = "zmq" <=>
                                          seen.lockedBy = "zmq"
  <2>1. Notice[2] \in Heights
    BY <1>0, OldestInBatch DEF LockTypeOK, PassesInv
  <2>2. seen \in Row
    BY <1>0 DEF LockTypeOK
  <2>3. rows[Notice[2]] # None /\ rows[Notice[2]] \in Row
    BY <1>0, <2>1 DEF SeenStillHolds, LockTypeOK
  <2>4. RowLatency(rows[Notice[2]])
    BY <2>1, <2>3 DEF LatencyIsDerived, RowLatency
  <2>5. seen.lockedBy # "nobody" => rows[Notice[2]].lockedBy = seen.lockedBy
    BY <1>0 DEF SeenStillHolds
  <2>6. applyPc = "write" => /\ rows[Notice[2]].sighted = seen.sighted
                             /\ rows[Notice[2]].timed = seen.timed
                             /\ rows[Notice[2]].lockedBy = "zmq" <=>
                                  seen.lockedBy = "zmq"
    BY <2>5 DEF SeenStillHolds
  <2>7. QED BY <2>1, <2>2, <2>3, <2>4, <2>5, <2>6
<1>1. CASE ApplyFinds
  <2>1. UNCHANGED rows /\ applyPc' \notin {"write", "txs"}
    BY <1>1 DEF ApplyFinds, ApplyEnds
  <2>2. QED BY <2>1, ApplyRestsRows
<1>2. CASE ApplyLooksUp
  <2>1. CASE rows[Notice[2]] # None
    <3>1. /\ seen' = rows[Notice[2]] /\ Notice' = Notice
          /\ UNCHANGED <<rows>> /\ applyPc' = "write"
      BY <1>2, <2>1 DEF ApplyLooksUp, applyWrites, Notice, Oldest
    <3>2. SeenStillHolds'
      BY <2>1, <3>1 DEF SeenStillHolds
    <3>3. LatencyIsDerived'
      BY <3>1 DEF LatencyIsDerived
    <3>4. QED BY <3>2, <3>3
  <2>2. CASE rows[Notice[2]] = None
    <3>1. UNCHANGED rows /\ applyPc' \notin {"write", "txs"}
      BY <1>2, <2>2 DEF ApplyLooksUp
    <3>2. QED BY <3>1, ApplyRestsRows
  <2>3. QED BY <2>1, <2>2
<1>3. CASE ApplySighting
  <2>1. applyPc = "write" /\ applyPc' = "row"
    BY <1>3 DEF ApplySighting, Next1
  <2>2. CASE seen.sighted
    BY <1>3, <2>1, <2>2, ApplyRestsRows DEF ApplySighting
  <2>3. CASE ~seen.sighted
    <3>1. rows' = [rows EXCEPT ![Notice[2]] = Sighted(rows[Notice[2]])]
      BY <1>3, <2>3 DEF ApplySighting
    <3>2. RowLatency(Sighted(rows[Notice[2]]))
      BY <1>0, <2>1, <2>3, SightRow
    <3>3. LatencyIsDerived'
      BY <1>0, <2>1, <3>1, <3>2 DEF LatencyIsDerived, RowLatency, LockTypeOK
    <3>4. QED BY <2>1, <3>3 DEF SeenStillHolds
  <2>4. QED BY <2>2, <2>3
<1>4. CASE ApplyLock
  <2>1. applyPc = "write"
    BY <1>4 DEF ApplyLock
  <2>2. CASE seen.lockedBy # "nobody"
    BY <1>4, <2>2, ApplyRestsRows DEF ApplyLock, Next1
  <2>3. CASE seen.lockedBy = "nobody"
    <3>1. /\ rows' = [rows EXCEPT ![Notice[2]] =
                        Locked(rows[Notice[2]], "zmq", seen.sighted)]
          /\ applyPc' = "txs" /\ UNCHANGED seen /\ Notice' = Notice
      BY <1>4, <2>3 DEF ApplyLock, applyWrites, Notice, Oldest
    <3>2. seen.sighted \in BOOLEAN
      BY <1>0, <2>1, RowFields
    <3>3. /\ Locked(rows[Notice[2]], "zmq", seen.sighted) \in Row
          /\ RowLatency(Locked(rows[Notice[2]], "zmq", seen.sighted))
      BY <1>0, <2>1, <3>2, HeardRow
    <3>4. LatencyIsDerived'
      BY <1>0, <2>1, <3>1, <3>3 DEF LatencyIsDerived, RowLatency, LockTypeOK
    <3>5. rows'[Notice'[2]] # None
      BY <1>0, <2>1, <3>1, <3>3, NoneAssumption DEF LockTypeOK
    <3>6. SeenStillHolds'
      BY <2>3, <3>1, <3>5 DEF SeenStillHolds
    <3>7. QED BY <3>4, <3>6
  <2>4. QED BY <2>2, <2>3
<1>5. CASE ApplyLockToTxs \/ ApplyMarks \/ ApplyFails
  BY <1>5, ApplyRestsRows
  DEF ApplyLockToTxs, ApplyMarks, ApplyFails, Next1, ApplyEnds
<1>6. QED BY <1>1, <1>2, <1>3, <1>4, <1>5 DEF Apply

-----------------------------------------------------------------------------
(***************************************************************************)
(* What is pending, and the flag                                           *)
(***************************************************************************)

\* Steps that leave the backlog, the derivation and the flag alone.
LEMMA PendingStays ==
    ASSUME PendingIsFlagged, BatchCoversPending,
           UNCHANGED <<feed, applied, storing, applyPc, batch, done, left, deferred>>
    PROVE  PendingIsFlagged' /\ BatchCoversPending'
BY DEF PendingIsFlagged, BatchCoversPending, Pending

\* A derivation that has just been started, or has just started again.
LEMMA PendingFound ==
    ASSUME applyPc' = "find"
    PROVE  PendingIsFlagged' /\ BatchCoversPending'
BY DEF PendingIsFlagged, BatchCoversPending

\* A signal, or a tick: nothing runs and the derivation starts, or it runs.
LEMMA PendingWakes ==
    ASSUME PendingIsFlagged, BatchCoversPending, NEW flag \in BOOLEAN, Wakes(flag),
           UNCHANGED <<feed, applied, batch, done, left>>,
           flag \/ (flag = deferred /\ UNCHANGED storing)
    PROVE  PendingIsFlagged' /\ BatchCoversPending'
<1>1. CASE applyPc = "off"
  BY <1>1, PendingFound DEF Wakes
<1>2. CASE applyPc # "off"
  BY <1>2 DEF Wakes, PendingIsFlagged, BatchCoversPending, Pending
<1>3. QED BY <1>1, <1>2

\* Everyone but the derivation.
LEMMA OthersPending ==
    ASSUME LockTypeOK, PendingIsFlagged, BatchCoversPending,
           \/ NodeMines \/ NodeLocks \/ WireDrops \/ ListenerStores
           \/ ListenerSignals \/ IndexBlock \/ IndexFails
           \/ TickBegins \/ Reconcile \/ TickFails \/ Crash
    PROVE  PendingIsFlagged' /\ BatchCoversPending'
<1>1. CASE NodeMines \/ NodeLocks \/ WireDrops
  BY <1>1, PendingStays DEF NodeMines, NodeLocks, WireDrops, applyVars
<1>2. CASE ListenerStores
  <2>1. storing' # None
    BY <1>2, NoneAssumption DEF ListenerStores, LockTypeOK
  <2>2. QED BY <2>1 DEF PendingIsFlagged, BatchCoversPending
<1>3. CASE ListenerSignals
  BY <1>3, PendingWakes DEF ListenerSignals
<1>4. CASE IndexReads \/ IndexTxs \/ IndexUpserts \/ IndexSaves \/ IndexFails
  BY <1>4, PendingStays
  DEF IndexReads, IndexTxs, IndexUpserts, IndexSaves, IndexFails, applyVars
<1>5. CASE IndexNotifies
  <2>1. CASE deferred
    BY <1>5, <2>1, PendingWakes DEF IndexNotifies
  <2>2. CASE ~deferred
    BY <1>5, <2>2, PendingStays DEF IndexNotifies
  <2>3. QED BY <2>1, <2>2
<1>6. CASE TickBegins
  <2>1. Wakes(deferred) /\ deferred \in BOOLEAN
    BY <1>6 DEF TickBegins, LockTypeOK
  <2>2. QED BY <1>6, <2>1, PendingWakes DEF TickBegins, tickWrites
<1>7. CASE \/ CollectBegins \/ CollectAsks \/ CollectWrites
           \/ CollectWritesTxs \/ TickFails
  BY <1>7, PendingStays
  DEF CollectBegins, CollectAsks, CollectWrites, CollectWritesTxs, TickFails,
      tickWrites
<1>8. CASE Crash
  BY <1>8, PendingFound DEF Crash
<1>9. QED
  BY <1>1, <1>2, <1>3, <1>4, <1>5, <1>6, <1>7, <1>8 DEF IndexBlock, Reconcile

\* A batch ends: with the flag up it starts again, without it the flag goes up
\* when a row is left.
LEMMA ApplyEndsPending ==
    ASSUME NEW flag \in BOOLEAN, ApplyEnds(flag), ~deferred => flag \/ Pending' = {}
                                                  \/ ~(Len(feed') <= Batch)
                                                  \/ storing' # None
    PROVE  PendingIsFlagged' /\ BatchCoversPending'
<1>1. CASE deferred
  BY <1>1, PendingFound DEF ApplyEnds
<1>2. CASE ~deferred
  BY <1>2 DEF ApplyEnds, PendingIsFlagged, BatchCoversPending
<1>3. QED BY <1>1, <1>2

\* The derivation itself.
LEMMA ApplyPending ==
    ASSUME LockTypeOK, PassesInv, PendingIsFlagged, BatchCoversPending,
           Apply \/ ApplyFails
    PROVE  PendingIsFlagged' /\ BatchCoversPending'
<1>0. batch # {} => Oldest \in batch
  BY OldestInBatch DEF LockTypeOK
<1>1. CASE ApplyFinds
  <2>1. UNCHANGED <<feed, applied, storing>>
    BY <1>1 DEF ApplyFinds, applyWrites
  <2>2. CASE Pending = {}
    BY <1>1, <2>1, <2>2, ApplyEndsPending DEF ApplyFinds, Pending
  <2>3. CASE Pending # {}
    <3>1. applyPc' = "row" /\ batch' = Firsts
      BY <1>1, <2>3 DEF ApplyFinds
    <3>2. Len(feed) <= Batch => batch' = Pending'
      BY <2>1, <3>1, BatchIsWhole DEF LockTypeOK, Pending
    <3>3. QED BY <2>1, <3>1, <3>2 DEF PendingIsFlagged, BatchCoversPending
  <2>4. QED BY <2>2, <2>3
<1>2. CASE ApplyLooksUp \/ ApplySighting \/ ApplyLock \/ ApplyLockToTxs
  <2>1. /\ applyPc \in {"row", "write", "txs"} /\ applyPc' \in {"row", "write", "txs"}
        /\ UNCHANGED <<feed, applied, storing, deferred>> /\ Pending' = Pending
    BY <1>2 DEF ApplyLooksUp, ApplySighting, ApplyLock, ApplyLockToTxs, Next1,
                applyWrites, Pending
  <2>2. \/ UNCHANGED <<batch, done, left>>
        \/ batch' = batch \ {Oldest} /\ left' = TRUE
        \/ /\ batch' = batch \ {Oldest} /\ done' = done \cup {Oldest}
           /\ UNCHANGED left
    BY <1>2 DEF ApplyLooksUp, ApplySighting, ApplyLock, ApplyLockToTxs, Next1
  <2>3. BatchCoversPending'
    BY <2>1, <2>2 DEF BatchCoversPending
  <2>4. QED BY <2>1, <2>3 DEF PendingIsFlagged
<1>3. CASE ApplyMarks
  <2>1. /\ ApplyEnds(left) /\ left \in BOOLEAN
        /\ UNCHANGED <<feed, storing>> /\ Pending' = Pending \ done
    BY <1>3 DEF ApplyMarks, applyWrites, LockTypeOK, Pending
  <2>2. storing = None /\ Len(feed) <= Batch => left \/ deferred \/ Pending \subseteq done
    BY <1>3 DEF ApplyMarks, BatchCoversPending
  <2>3. QED BY <2>1, <2>2, ApplyEndsPending
<1>4. CASE ApplyFails
  <2>1. ApplyEnds(TRUE)
    BY <1>4 DEF ApplyFails
  <2>2. QED BY <2>1, ApplyEndsPending
<1>5. QED BY <1>1, <1>2, <1>3, <1>4 DEF Apply

-----------------------------------------------------------------------------
(***************************************************************************)
(* The theorems                                                            *)
(***************************************************************************)

LEMMA LockInitInv == LockInit => LockInv
<1> SUFFICES ASSUME LockInit PROVE LockInv
  OBVIOUS
<1> USE DEF LockInit, StartInit
<1>1. LockTypeOK
  <2>1. feed \in Seq(Notices) /\ applied = {} /\ batch = {} /\ done = {}
    OBVIOUS
  <2>2. /\ tip = 0 /\ cursor = 0 /\ indexAt = 1 /\ mishaps = 0
        /\ MaxHeight \in Nat /\ MaxMishaps \in Nat
    BY LockAssumption
  <2>3. /\ rows \in [Heights -> Row \cup {None}]
        /\ txLocked \in [Heights -> BOOLEAN \cup {None}]
    OBVIOUS
  <2>4. /\ tip \in 0..MaxHeight /\ cursor \in 0..tip
        /\ indexAt \in (cursor + 1)..(tip + 1) /\ mishaps \in 0..MaxMishaps
    BY <2>2
  <2>5. /\ locked \subseteq 1..tip /\ wire \subseteq Notices
        /\ applied \subseteq 1..Len(feed) /\ batch \subseteq 1..Len(feed)
        /\ done \subseteq 1..Len(feed)
        /\ found \subseteq locked /\ asked \subseteq Heights
    BY <2>1
  <2>6. /\ storing = None /\ indexLock = FALSE /\ indexPc = "idle"
        /\ applyPc = "find" /\ seen = None /\ left = FALSE
        /\ deferred = FALSE /\ tickPc = "waits"
    OBVIOUS
  <2>7. QED BY ONLY <2>1, <2>3, <2>4, <2>5, <2>6 DEF LockTypeOK
<1>2. PassesInv /\ SeenStillHolds /\ PendingIsFlagged /\ BatchCoversPending
  BY DEF PassesInv, SeenStillHolds, PendingIsFlagged, BatchCoversPending
<1>3. LatencyIsDerived
  BY DEF LatencyIsDerived
<1>4. QED BY <1>1, <1>2, <1>3 DEF LockInv

LEMMA LockStepInv == LockInv /\ [LockNext]_lockVars => LockInv'
<1> SUFFICES ASSUME LockInv, [LockNext]_lockVars PROVE LockInv'
  OBVIOUS
<1>0. /\ LockTypeOK /\ PassesInv /\ LatencyIsDerived /\ SeenStillHolds
      /\ PendingIsFlagged /\ BatchCoversPending
  BY DEF LockInv
<1>1. CASE Apply \/ ApplyFails
  BY <1>0, <1>1, ApplyType, ApplyRows, ApplyPending DEF LockInv
<1>2. CASE \/ NodeMines \/ NodeLocks \/ WireDrops \/ ListenerStores
           \/ ListenerSignals \/ IndexBlock \/ IndexFails
           \/ TickBegins \/ Reconcile \/ TickFails \/ Crash
  <2>1. LockTypeOK' /\ PassesInv'
    BY <1>0, <1>2, NodeType, ListenerType, IndexType, TickType, CrashType
  <2>2. LatencyIsDerived' /\ SeenStillHolds'
    BY <1>0, <1>2, OthersRows
  <2>3. PendingIsFlagged' /\ BatchCoversPending'
    BY <1>0, <1>2, OthersPending
  <2>4. QED BY <2>1, <2>2, <2>3 DEF LockInv
<1>3. CASE UNCHANGED lockVars
  <2>1. /\ UNCHANGED <<nodeVars, feed, applied, storing, rows, txLocked>>
        /\ UNCHANGED <<indexVars, applyVars, deferred, tickVars, mishaps>>
    BY <1>3 DEF lockVars
  <2> USE DEF nodeVars, indexVars, applyVars, tickVars
  <2>2. LockTypeOK' /\ PassesInv'
    BY <1>0, <2>1 DEF LockTypeOK, PassesInv
  <2>3. LatencyIsDerived' /\ SeenStillHolds'
    BY <1>0, <2>1, RowsStay
  <2>4. PendingIsFlagged' /\ BatchCoversPending'
    BY <1>0, <2>1, PendingStays
  <2>5. QED BY <2>2, <2>3, <2>4 DEF LockInv
<1>4. QED BY <1>1, <1>2, <1>3 DEF LockNext

\* Listener, derivation, reconciliation and indexer keep the invariant together
\* at every step, whatever fails.
THEOREM LockInvariant == LockSpec => []LockInv
<1>1. LockInit => LockInv
  BY LockInitInv
<1>2. LockInv /\ [LockNext]_lockVars => LockInv'
  BY LockStepInv
<1>3. QED BY <1>1, <1>2, PTL DEF LockSpec

\* The watcher's state is always of its type: the indexer never saves a height
\* it has not read, a tick that waits has a derivation to wait for, and only
\* locks the node holds are reconciled.
THEOREM LockTypeCorrect == LockSpec => []LockTypeOK
<1>1. LockInv => LockTypeOK
  BY DEF LockInv
<1>2. QED BY <1>1, LockInvariant, PTL

\* A block whose lock and first sight were both heard has its latency, and only
\* such a block, in whatever order the two were applied and wherever a batch,
\* a reconciliation or the process died between them.
THEOREM LatencyAlwaysDerived == LockSpec => []LatencyIsDerived
<1>1. LockInv => LatencyIsDerived
  BY DEF LockInv
<1>2. QED BY <1>1, LockInvariant, PTL

\* When no derivation runs, a backlog of no more than a batch has the flag up.
THEOREM PendingAlwaysFlagged == LockSpec => []PendingIsFlagged
<1>1. LockInv => PendingIsFlagged
  BY DEF LockInv
<1>2. QED BY <1>1, LockInvariant, PTL
=============================================================================
