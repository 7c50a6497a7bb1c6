----------------------------- MODULE MCChannel ------------------------------
(***************************************************************************)
(* Channel with one other parachain, whose header commits to a channel     *)
(* with one leaf of its own.                                               *)
(***************************************************************************)
EXTENDS Channel

OtherLeaf == [xcmp_msgs |-> <<[to |-> 1, id |-> 9]>>, parent_number |-> 0]
MCOtherHeads == {[para |-> "other", number |-> 1,
                  digest |-> MerkleRoot(<<<<OtherLeaf>>>>)]}
=============================================================================
