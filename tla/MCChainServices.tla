-------------------------- MODULE MCChainServices --------------------------
(***************************************************************************)
(* The three services over the small trees of BlockTrees.                  *)
(***************************************************************************)
EXTENDS ChainServices, BlockTrees

\* The commitment of the one round is mined on all three branches, and a
\* transaction is mined again on another branch.
DeepQuorumsIn ==
    [b \in DeepBlocks |-> IF b \in {"a2", "b3", "c1"} THEN {"q0"} ELSE {}]
DeepTxsIn == [b \in DeepBlocks |-> IF b \in {"a1", "c2"} THEN {"t"} ELSE {}]

FirstRoundOf == [q \in Quorums |-> 0]

\* The commitments of two rounds of three blocks each, both mined.
LineQuorumsIn ==
    [b \in LineBlocks |->
        CASE b = "a1" -> {"q0"} [] b = "a4" -> {"q3"} [] OTHER -> {}]

RoundOf == [q0 |-> 0, q3 |-> 3]

\* Enough masternodes until a ban wave at height 4 leaves too few.
BanWave == [h \in Heights |-> IF h < 4 THEN 2 ELSE 1]
=============================================================================
