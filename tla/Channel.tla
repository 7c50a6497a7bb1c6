------------------------------ MODULE Channel -------------------------------
(***************************************************************************)
(* One channel from end to end: the runtime of the sender (Sender), the    *)
(* relay chain that includes its blocks, and the message stuffer of a      *)
(* recipient that records BEEFY roots and checks proofs against them       *)
(* (XcmpVerification).  An accepted proof changes no storage, so that what *)
(* a state accepts is a function of the roots seen.                        *)
(*                                                                         *)
(* Hashing is ideal here too: a root is the sequence of its leaves, tagged *)
(* if it is that of a binary Merkle tree.                                  *)
(***************************************************************************)
EXTENDS Sender

CONSTANTS
    MaxRelay,     \* bound: relay chain blocks
    OtherHeads    \* heads of other parachains, whatever they commit to

ASSUME ChannelAssumption ==
    MaxRelay \in Nat /\ \A h \in OtherHeads : h.para # "sender"

VARIABLES
    relay,   \* the relay chain: heads after each block
    parent,  \* the recipient's relay parent, 0 before it has been given a root
    seen     \* the recipient's SeenBeefyRoots

channelVars == <<vars, relay, parent, seen>>

-----------------------------------------------------------------------------
(* The commitments of the relay chain.  Leaf n of the BEEFY MMR is made    *)
(* when block n starts, from the heads after block n-1.                    *)
MerkleRoot(leaves) == <<"root", leaves>>
LeavesOf(root) == {root[2][i] : i \in DOMAIN root[2]}
NoDigest == <<"no digest">>
Undecodable == <<"undecodable">>

HeaderOf(b) == [para |-> "sender", number |-> b,
                digest |-> IF b = 0 THEN NoDigest ELSE MerkleRoot(digests[b])]
HeadsRoot(n) ==
    MerkleRoot(IF n = 0 THEN <<>> ELSE <<HeaderOf(relay[n].head), relay[n].other>>)
BeefyLeaf(n) == [number |-> n, leaf_extra |-> HeadsRoot(n - 1)]
BeefyRoot(n) == [m \in 1..n |-> BeefyLeaf(m)]

(* What a root commits to, and the check of the recipient. *)
MmrHas(root, leaf) == \E i \in DOMAIN root : root[i] = leaf
TreeHas(root, leaf) == leaf \in LeavesOf(root)
LeafExtra(leaf) == leaf.leaf_extra
extract_xcmp_channel_root(header) == header.digest

V == INSTANCE XcmpVerification WITH ChannelRoot <- extract_xcmp_channel_root

Accepts(target, proof) == V!XcmpVerdict(seen, target, proof) = "Ok"

-----------------------------------------------------------------------------
(* The relay chain, external: includes the next block of the sender, if it *)
(* is finished, or none.                                                   *)
ParaHead == IF relay = <<>> THEN 0 ELSE relay[Len(relay)].head
RelayBlock ==
    /\ Len(relay) < MaxRelay
    /\ \E head \in {ParaHead, ParaHead + 1}, other \in OtherHeads :
          /\ head <= Len(digests)
          /\ relay' = Append(relay, [head |-> head, other |-> other])
    /\ UNCHANGED <<vars, parent, seen>>

(* on_initialize of the recipient's stuffer: the BEEFY root is that of a   *)
(* relay parent no older than the last one or, as long as the chain has    *)
(* been given none, the default root, under which there is no leaf.        *)
RecipientBlock ==
    \E n \in parent..Len(relay) :
        /\ parent' = n
        /\ seen' = seen \cup {BeefyRoot(n)}
        /\ UNCHANGED <<vars, relay>>

ChannelInit == Init /\ relay = <<>> /\ parent = 0 /\ seen = {BeefyRoot(0)}
ChannelNext ==
    \/ Next /\ UNCHANGED <<relay, parent, seen>>
    \/ RelayBlock \/ RecipientBlock
ChannelSpec == ChannelInit /\ [][ChannelNext]_channelVars

-----------------------------------------------------------------------------
(* The stages of a proof: leaf m of the BEEFY MMR at relay block t; the    *)
(* sender's head in the heads tree after relay block n; the root of a      *)
(* channel's MMR in the tree of block b's header; leaf i of that MMR.      *)
Stage1(t, m) == [of |-> BeefyRoot(t), leaves |-> <<BeefyLeaf(m)>>]
Part(root, leaf) == [root |-> root, leaf |-> leaf, path |-> TRUE, wide |-> FALSE]
Stage2(n) == Part(HeadsRoot(n), HeaderOf(relay[n].head))
Stage3(b, id) == Part(MerkleRoot(digests[b]), digests[b][id + 1])
Stage4(b, id, i) == [of |-> digests[b][id + 1], leaves |-> <<mmr[id][i]>>]

(* The leaves are what one channel of the sender committed to, in blocks   *)
(* up to that of the header, and their pages were sent on that channel.    *)
SentBy(header, leaves) ==
    \E id \in MmrId : \A i \in DOMAIN leaves :
        \E n \in 1..header.number :
            /\ leaves[i] = mmr[id][n]
            /\ \A k \in DOMAIN leaves[i].xcmp_msgs :
                  LET page == leaves[i].xcmp_msgs[k]
                  IN  page.to = id + 1 /\ page.id \in 1..sent[id + 1]

(* End to end: however stages that verify by themselves, made at different *)
(* blocks and for different parachains, are put together, a recipient      *)
(* accepts messages under a header of the sender only if they are leaves   *)
(* of one of its channels and their pages were really sent.                *)
ReceivedWasSent ==
    LET channelRoots == {MerkleRoot(digests[b]) : b \in DOMAIN digests}
                        \cup {h.digest : h \in OtherHeads}
        stage1 == UNION {{[of |-> root, leaves |-> <<root[m]>>] : m \in DOMAIN root}
                         : root \in seen}
        stage2 == {Stage2(n) : n \in DOMAIN relay}
        stage3 == UNION {{Part(root, mmrRoot) : mmrRoot \in LeavesOf(root)}
                         : root \in channelRoots}
        leaves == UNION {{s.leaf[i] : i \in DOMAIN s.leaf} : s \in stage3}
    IN  \A s1 \in stage1, s2 \in stage2, s3 \in stage3, leaf \in leaves :
            Accepts(s1.of, [stage_1 |-> s1, stage_2 |-> s2, stage_3 |-> s3,
                            stage_4 |-> [of |-> s3.leaf, leaves |-> <<leaf>>]])
            => SentBy(s2.leaf, <<leaf>>)

(* The converse: whatever a channel of the sender had committed to by a    *)
(* block that the relay chain included can be proved to the recipient from *)
(* the first root on that it sees after the inclusion, under the header of *)
(* that block or of any later one included by then.  (For channel 1 such a *)
(* proof exists but gen_merkle_proof, which proves index 0 whatever the    *)
(* channel, does not give it.)                                             *)
IncludedCanBeReceived ==
    \A n \in DOMAIN relay : \A t \in n + 1..Len(relay) :
        BeefyRoot(t) \in seen =>
            \A id \in MmrId : \A i \in 1..relay[n].head :
                Accepts(BeefyRoot(t),
                        [stage_1 |-> Stage1(t, n + 1),
                         stage_2 |-> Stage2(n),
                         stage_3 |-> Stage3(relay[n].head, id),
                         stage_4 |-> Stage4(relay[n].head, id, i)])
=============================================================================
