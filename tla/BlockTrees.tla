--------------------------- MODULE BlockTrees -------------------------------
(***************************************************************************)
(* Small block trees for the runs.  A tree is given by the parent of each  *)
(* block; heights and ancestors follow.                                    *)
(***************************************************************************)
EXTENDS ChainStore

\* Two chains of height 3 that fork at height 1, one block apart in depth from
\* what a rollback of depth 1 may undo.
TwinParent == [g |-> None, a1 |-> "g", a2 |-> "a1", a3 |-> "a2",
               b2 |-> "a1", b3 |-> "b2"]

\* A chain of height 3 overtaken by one of height 4 that forks at height 1.
OvertakenParent == [g |-> None, a1 |-> "g", a2 |-> "a1", a3 |-> "a2",
                    b2 |-> "a1", b3 |-> "b2", b4 |-> "b3"]

\* The same with a chain of height 3 that shares only the first block.
DeepParent == [g |-> None, a1 |-> "g", a2 |-> "a1", a3 |-> "a2",
               b2 |-> "a1", b3 |-> "b2", b4 |-> "b3",
               c1 |-> "g", c2 |-> "c1", c3 |-> "c2"]

\* One chain that spans two DKG rounds and the mining window of both.
LineParent == [g |-> None, a1 |-> "g", a2 |-> "a1", a3 |-> "a2", a4 |-> "a3"]

HeightIn(parent) ==
    LET height[b \in DOMAIN parent] ==
          IF parent[b] = None THEN 0 ELSE height[parent[b]] + 1
    IN height

AncestorIn(parent) ==
    LET height == HeightIn(parent)
        chain[b \in DOMAIN parent] ==
          [h \in Heights |->
             IF h > height[b] THEN None
             ELSE IF h = height[b] THEN b
             ELSE chain[parent[b]][h]]
    IN chain

TwinBlocks == DOMAIN TwinParent
TwinHeightOf == HeightIn(TwinParent)
TwinAncestor == AncestorIn(TwinParent)

OvertakenBlocks == DOMAIN OvertakenParent
OvertakenHeightOf == HeightIn(OvertakenParent)
OvertakenAncestor == AncestorIn(OvertakenParent)

DeepBlocks == DOMAIN DeepParent
DeepHeightOf == HeightIn(DeepParent)
DeepAncestor == AncestorIn(DeepParent)

LineBlocks == DOMAIN LineParent
LineHeightOf == HeightIn(LineParent)
LineAncestor == AncestorIn(LineParent)

\* Blocks that mine nothing of interest, and masternodes nobody punishes.
NothingIn == [b \in Blocks |-> {}]
NoPenaltyOf == [b \in Blocks |-> [m \in Masternodes |-> 0]]

\* Punished at height 2 of one branch, or of the only one, and at height 3 of
\* the other, from where the penalty decays.
DecayingPenaltyOf ==
    [b \in Blocks |-> [m \in Masternodes |->
        CASE b = "a2" -> 3 [] b = "a3" -> 2 [] b = "a4" -> 1
          [] b = "b3" -> 2 [] b = "b4" -> 1 [] OTHER -> 0]]
=============================================================================
