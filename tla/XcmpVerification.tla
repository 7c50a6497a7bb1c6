-------------------------- MODULE XcmpVerification --------------------------
(***************************************************************************)
(* The four-stage check of submit_xcmp_proof in the message stuffer        *)
(* pallet, as a pure operator, shared by the pallet (MessageStuffer) and   *)
(* by the system in which the relayer's proofs are executed (Relayer).     *)
(*                                                                         *)
(* Hashing is ideal: a root stands for exactly one committed structure.    *)
(* What a root commits to is a parameter, so that one module can give it   *)
(* as constants and the other one as the history of chains:                *)
(*   MmrHas(root, leaf)    leaf is a leaf of the MMR with that root        *)
(*   TreeHas(root, leaf)   leaf is a leaf of the binary Merkle tree        *)
(*   LeafExtra(leaf)       leaf_extra of a BEEFY MMR leaf, or Undecodable  *)
(*   ChannelRoot(header)   the XCMP channel root in a parachain header's   *)
(*                         digest, or Undecodable, or NoDigest             *)
(*                                                                         *)
(* An MMR proof is [of, leaves]: its items are those of the MMR with root  *)
(* `of'.  A Merkle proof is [root, leaf, path, wide]: `path' says that its *)
(* items are the leaf's path in the tree with that root, and `wide' that   *)
(* num_leaves or leaf_index (u64) does not fit the verifier's u32.         *)
(***************************************************************************)
EXTENDS Naturals, Sequences

CONSTANTS Undecodable, NoDigest,
          MmrHas(_, _), TreeHas(_, _), LeafExtra(_), ChannelRoot(_)

(* pallet_mmr::verify_leaves_proof.  Without leaves the items alone, the   *)
(* peaks of the MMR, give the root.                                        *)
verify_leaves_proof(root, mmr) ==
    /\ mmr.of = root
    /\ \A i \in 1..Len(mmr.leaves) : MmrHas(root, mmr.leaves[i])

(* binary_merkle_tree::verify_proof *)
AnyLeafVerifies(tree) == tree.path                               \* mutant
verify_proof(tree) == tree.path /\ TreeHas(tree.root, tree.leaf)

(* The channels tree of stage 3 is the one in the header that stage 2      *)
(* proved.                                                                 *)
AnyChannelRoot(p) == TRUE                                        \* mutant
ChannelRootMatches(p) == ChannelRoot(p.stage_2.leaf) = p.stage_3.root

(* What submit_xcmp_proof returns: the error of the first check that       *)
(* fails, in the order of the code, or "Ok".  "Panic" stands for the       *)
(* index into an empty vector of leaves and for the unwrap of a failed     *)
(* integer conversion.                                                     *)
XcmpVerdict(seen, target, p) ==
    IF target \notin seen THEN "XcmpBeefyRootTargetedNeverSeen"
    ELSE IF ~verify_leaves_proof(target, p.stage_1)
         THEN "XcmpStage1ProofDoesntVerify"
    ELSE IF Len(p.stage_1.leaves) > 1 THEN "XcmpStage1LeavesTooLarge"
    ELSE IF Len(p.stage_1.leaves) = 0 THEN "Panic"
    ELSE IF LeafExtra(p.stage_1.leaves[1]) = Undecodable
         THEN "XcmpStage2LeafDoesntDecode"
    ELSE IF LeafExtra(p.stage_1.leaves[1]) # p.stage_2.root
         THEN "XcmpStage2RootDoesntMatch"
    ELSE IF p.stage_2.wide THEN "Panic"
    ELSE IF ~verify_proof(p.stage_2)
         THEN "XcmpStage2ProofDoesntVerify"
    ELSE IF ChannelRoot(p.stage_2.leaf) = Undecodable
         THEN "XcmpStage3HeaderDoesntDecode"
    ELSE IF ChannelRoot(p.stage_2.leaf) = NoDigest
         THEN "XcmpStage3CannotBeExtracted"
    ELSE IF ~ChannelRootMatches(p)
         THEN "XcmpStage3RootDoesntMatch"
    ELSE IF p.stage_3.wide THEN "Panic"
    ELSE IF ~verify_proof(p.stage_3)
         THEN "XcmpStage3ProofDoesntVerify"
    ELSE IF ~verify_leaves_proof(p.stage_3.leaf, p.stage_4)
         THEN "XcmpStage4ProofDoesntVerify"
    ELSE "Ok"

(* The results of submit_xcmp_proof. *)
Verdicts ==
    {"Ok", "Panic", "XcmpBeefyRootTargetedNeverSeen",
     "XcmpStage1ProofDoesntVerify", "XcmpStage1LeavesTooLarge",
     "XcmpStage2LeafDoesntDecode", "XcmpStage2RootDoesntMatch",
     "XcmpStage2ProofDoesntVerify", "XcmpStage3HeaderDoesntDecode",
     "XcmpStage3CannotBeExtracted", "XcmpStage3RootDoesntMatch",
     "XcmpStage3ProofDoesntVerify", "XcmpStage4ProofDoesntVerify"}
=============================================================================
