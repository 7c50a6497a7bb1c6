------------------------------- MODULE Sender -------------------------------
(***************************************************************************)
(* The runtime of the sending parachain, block by block: the outbound XCMP *)
(* pages, the two channel MMRs that pallet_mmr feeds with leaf_data of the *)
(* two message stuffers, the header digest over both MMR roots, and the    *)
(* runtime APIs the relayer calls at the state a block leaves.             *)
(*                                                                         *)
(* Hashing is ideal: an MMR root is the sequence of its leaves, a Merkle   *)
(* root the sequence of its leaves.  A page is [to, id]; the ids number    *)
(* the pages to one para in the order of sending.                          *)
(***************************************************************************)
EXTENDS Integers, Sequences, FiniteSets

CONSTANTS
    MaxBlocks,   \* bound: blocks
    MaxPages     \* bound: pages sent to one para

ASSUME SenderAssumption == MaxBlocks \in Nat /\ MaxPages \in Nat

VARIABLES
    number,                \* System::block_number()
    open,                  \* between on_initialize and on_finalize
    OutboundXcmpMessages,  \* XcmpQueue storage: para -> index -> page
    nextIndex,             \* XcmpQueue: para -> index of its next page
    mmr,                   \* leaves of MmrParaA (id 0) and MmrParaB (id 1)
    digests,               \* channel root in the header of each block
    sent                   \* history: para -> number of pages sent to it

vars == <<number, open, OutboundXcmpMessages, nextIndex, mmr, digests, sent>>

(* The channels: ids of the MMRs, and the ParaIdentifier of their stuffers *)
MmrId == {0, 1}
OneIdentifier(id) == 1                                           \* mutant
ParaIdentifier(id) == IF id = 0 THEN 1 ELSE 2
Paras == {1, 2}

Init ==
    /\ number = 0 /\ open = FALSE
    /\ OutboundXcmpMessages = [p \in Paras |-> <<>>]
    /\ nextIndex = [p \in Paras |-> 0]
    /\ mmr = [id \in MmrId |-> <<>>]
    /\ digests = <<>>
    /\ sent = [p \in Paras |-> 0]

-----------------------------------------------------------------------------
(* get_xcmp_messages: the pages from index 0 up to the first index without *)
(* one.                                                                    *)
Contiguous(pages) == {n \in 0..Cardinality(DOMAIN pages) : 0..(n - 1) \subseteq DOMAIN pages}
LastOfRun(pages) == CHOOSE n \in Contiguous(pages) : \A m \in Contiguous(pages) : m <= n

get_xcmp_messages(para) ==
    LET pages == OutboundXcmpMessages[para]
    IN  [i \in 1..LastOfRun(pages) |-> pages[i - 1]]

(* The leaf a stuffer gives its MMR. *)
OwnNumberLeaf(id) ==                                             \* mutant
    [xcmp_msgs |-> get_xcmp_messages(ParaIdentifier(id)), parent_number |-> number + 1]
leaf_data(id) == [xcmp_msgs |-> get_xcmp_messages(ParaIdentifier(id)),
                  parent_number |-> number]

(* collect_roots, and the runtime APIs.  Those that take the id of an MMR  *)
(* know two of them.                                                       *)
mmr_root_hash(id) == mmr[id]
SwappedRoots == <<mmr_root_hash(1), mmr_root_hash(0)>>           \* mutant
collect_roots == <<mmr_root_hash(0), mmr_root_hash(1)>>
gen_merkle_proof(channel_id) == [root |-> <<mmr_root_hash(0), mmr_root_hash(1)>>,
                                 leaf |-> mmr_root_hash(0), leaf_index |-> 0]
mmr_root(mmr_id) ==
    IF mmr_id \in MmrId THEN [Ok |-> mmr_root_hash(mmr_id)] ELSE [Err |-> "GetRoot"]
mmr_leaf_count == Len(mmr[0])

(* generate_proof for one block: the leaf pallet_mmr keeps for it, and the *)
(* root its items belong to.  verify_proof always asks MmrParaA.           *)
generate_proof(block, mmr_id) ==
    IF mmr_id \in MmrId
    THEN [Ok |-> [of |-> mmr_root_hash(mmr_id), leaf |-> mmr[mmr_id][block], at |-> block]]
    ELSE [Err |-> "GenerateProof"]
verify_proof_stateless(root, proof) ==
    proof.of = root /\ proof.at \in DOMAIN root /\ root[proof.at] = proof.leaf
verify_proof(proof) == verify_proof_stateless(mmr_root_hash(0), proof)

-----------------------------------------------------------------------------
(* on_initialize of the pallets, in the order of construct_runtime: both   *)
(* stuffers before both MMRs; the MMRs take their leaves before any        *)
(* transaction of the block.                                               *)
LeafIfMessages ==                                                \* mutant
    /\ ~open /\ number < MaxBlocks
    /\ open' = TRUE
    /\ number' = number + 1
    /\ mmr' = [id \in MmrId |-> IF leaf_data(id).xcmp_msgs = <<>> THEN mmr[id]
                                ELSE Append(mmr[id], leaf_data(id))]
    /\ UNCHANGED <<OutboundXcmpMessages, nextIndex, digests, sent>>
InitializeBlock ==
    /\ ~open /\ number < MaxBlocks
    /\ open' = TRUE
    /\ number' = number + 1
    /\ mmr' = [id \in MmrId |-> Append(mmr[id], leaf_data(id))]
    /\ UNCHANGED <<OutboundXcmpMessages, nextIndex, digests, sent>>

(* XcmpQueue, external: a message to a sibling goes to a new page.  (More  *)
(* fragments in the same page are the same page.)                          *)
SendXcm(para) ==
    /\ open /\ sent[para] < MaxPages
    /\ sent' = [sent EXCEPT ![para] = @ + 1]
    /\ OutboundXcmpMessages' =
          [OutboundXcmpMessages EXCEPT ![para] =
              [i \in DOMAIN @ \cup {nextIndex[para]} |->
                  IF i = nextIndex[para] THEN [to |-> para, id |-> sent[para] + 1]
                  ELSE @[i]]]
    /\ nextIndex' = [nextIndex EXCEPT ![para] = @ + 1]
    /\ UNCHANGED <<number, open, mmr, digests>>

(* ParachainSystem::on_finalize, external but for collect_roots: takes     *)
(* pages, oldest first, from the OutboundXcmpMessageSource (all, some or   *)
(* none, as the channel has room) and puts the channel root in the digest. *)
(* An emptied queue starts again at index 0.                               *)
TakeOutbound(para, n) ==
    LET pages == OutboundXcmpMessages[para]
    IN  [i \in {k \in DOMAIN pages : k >= nextIndex[para] - n} |-> pages[i]]

FinalizeBlock ==
    /\ open
    /\ open' = FALSE
    /\ \E left \in [Paras -> 0..MaxPages] :
          /\ \A p \in Paras : left[p] <= Cardinality(DOMAIN OutboundXcmpMessages[p])
          /\ OutboundXcmpMessages' = [p \in Paras |-> TakeOutbound(p, left[p])]
          /\ nextIndex' = [p \in Paras |-> IF left[p] = 0 THEN 0 ELSE nextIndex[p]]
    /\ digests' = Append(digests, collect_roots)
    /\ UNCHANGED <<number, mmr, sent>>

Next ==
    \/ InitializeBlock \/ FinalizeBlock
    \/ \E p \in Paras : SendXcm(p)

Spec == Init /\ [][Next]_vars

-----------------------------------------------------------------------------
Page == [to : Paras, id : 1..MaxPages]
IsLeaf(leaf) == leaf.xcmp_msgs \in Seq(Page) /\ leaf.parent_number \in 0..MaxBlocks - 1

(* Every storage item has its type. *)
TypeOK ==
    /\ number \in 0..MaxBlocks
    /\ open \in BOOLEAN
    /\ \A p \in Paras :
          /\ DOMAIN OutboundXcmpMessages[p] \subseteq 0..MaxPages - 1
          /\ \A i \in DOMAIN OutboundXcmpMessages[p] : OutboundXcmpMessages[p][i] \in Page
          /\ nextIndex[p] \in 0..MaxPages
    /\ \A id \in MmrId : \A i \in DOMAIN mmr[id] : IsLeaf(mmr[id][i])
    /\ sent \in [Paras -> 0..MaxPages]

(* At the state any block leaves, what the relayer asks for fits together: *)
(* the channels proof has the root in that block's header and proves the   *)
(* root of MMR 0, and the MMR proof asked for by the block's own number is *)
(* that of the leaf made in it, under that root.                           *)
ApisFitHeader ==
    ~open /\ number > 0 =>
        /\ gen_merkle_proof(0).root = digests[number]
        /\ gen_merkle_proof(0).leaf = mmr_root(0).Ok
        /\ \A id \in MmrId :
              LET proof == generate_proof(number, id).Ok
              IN  /\ verify_proof_stateless(mmr_root(id).Ok, proof)
                  /\ proof.leaf.parent_number = number - 1
        /\ verify_proof(generate_proof(number, 0).Ok)

(* The MMRs grow by one leaf a block, together, so that mmr_leaf_count     *)
(* (of MmrParaA) holds for both, and no later block changes what an older  *)
(* header commits to: each is the root of the leaves up to that block.     *)
HeadersKeepHistory ==
    /\ \A id \in MmrId : Len(mmr[id]) = number
    /\ mmr_leaf_count = number
    /\ \A n \in DOMAIN digests :
          digests[n] = <<SubSeq(mmr[0], 1, n), SubSeq(mmr[1], 1, n)>>

(* Whatever the queue has drained or kept: a leaf holds pages of its own   *)
(* channel only, consecutive ones in the order of sending, and a later     *)
(* leaf never starts before an earlier one did, though pages that stay     *)
(* queued are committed again.                                             *)
LeavesInOrder ==
    \A id \in MmrId : \A n \in DOMAIN mmr[id] :
        LET msgs == mmr[id][n].xcmp_msgs
        IN  \A i \in DOMAIN msgs :
              /\ msgs[i].to = id + 1
              /\ msgs[i].id = msgs[1].id + i - 1
              /\ \A m \in 1..n - 1 :
                    mmr[id][m].xcmp_msgs # <<>> =>
                        mmr[id][m].xcmp_msgs[1].id <= msgs[1].id

(* "we aggregate all the fragments destined to a particular Parachain per  *)
(* block": the leaf the next block makes for a channel holds every page    *)
(* that waits in its queue.                                                *)
AggregatesAllFragments ==
    ~open => \A id \in MmrId :
        LET queue == OutboundXcmpMessages[ParaIdentifier(id)]
            msgs == leaf_data(id).xcmp_msgs
        IN  \A i \in DOMAIN queue : \E j \in DOMAIN msgs : msgs[j] = queue[i]
=============================================================================
