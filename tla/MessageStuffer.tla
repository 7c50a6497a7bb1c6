--------------------------- MODULE MessageStuffer ---------------------------
(***************************************************************************)
(* One instance of pallet xcmp_message_stuffer on a parachain: its         *)
(* storage, its on_initialize hook and its three extrinsics.  An extrinsic *)
(* that returns an error, or panics, changes no storage.                   *)
(***************************************************************************)
EXTENDS Naturals, Sequences, FiniteSets

CONSTANTS
    Undecodable, NoDigest,
    Hash,               \* H256 values
    ZeroHash,           \* H256::default()
    NoRoot,             \* None, from BeefyRootProvider::get_root()
    Leaf,               \* opaque MMR leaves
    Header,             \* head data of parachains
    ChannelId,
    MmrCommits,         \* the leaves of the MMR behind a root
    TreeCommits,        \* the leaves of the Merkle tree behind a root
    LeafExtraOf,        \* decoding of a BEEFY MMR leaf
    ChannelRootOf,      \* decoding of a header and its digest
    BeefyRoots,         \* the roots the relay chain really has
    Submissions,        \* inputs of submit_xcmp_proof: [target, proof]
    TestSubmissions,    \* inputs of submit_test_proof: MMR proofs
    ChannelRootInputs,  \* inputs of update_root
    MaxBeefyRootsKept,
    MaxBlocks           \* bound: blocks of the modelled chain

(* The types of the inputs. *)
MmrProof == [of : Hash, leaves : Seq(Leaf)]
ParaMerkleProof == [root : Hash, leaf : Header, path : BOOLEAN, wide : BOOLEAN]
ChannelMerkleProof == [root : Hash, leaf : Hash, path : BOOLEAN, wide : BOOLEAN]
XcmpProof == [stage_1 : MmrProof, stage_2 : ParaMerkleProof,
              stage_3 : ChannelMerkleProof, stage_4 : MmrProof]

(* No preimage of the default root is known: nothing verifies against it.  *)
(* A missing root and a failed decoding are not hashes.                    *)
ASSUME StufferAssumption ==
    /\ ZeroHash \in Hash
    /\ NoRoot \notin Hash /\ Undecodable \notin Hash /\ NoDigest \notin Hash
    /\ BeefyRoots \subseteq Hash
    /\ MmrCommits \in [Hash -> SUBSET Leaf]
    /\ MmrCommits[ZeroHash] = {}
    /\ TreeCommits \in [Hash -> SUBSET (Header \cup Hash)]
    /\ LeafExtraOf \in [Leaf -> Hash \cup {Undecodable}]
    /\ ChannelRootOf \in [Header -> Hash \cup {Undecodable, NoDigest}]
    /\ Submissions \subseteq [target : Hash, proof : XcmpProof]
    /\ TestSubmissions \subseteq MmrProof
    /\ ChannelRootInputs \subseteq Hash
    /\ MaxBeefyRootsKept \in Nat
    /\ MaxBlocks \in Nat

VARIABLES
    number,               \* System::block_number()
    XcmpChannelRoots,     \* storage map: channel -> root
    SeenBeefyRoots,       \* storage map: root -> block number
    SeenBeefyRootsOrder,  \* storage value: roots in the order seen
    result,               \* DispatchResult of the last extrinsic
    provided,             \* history: roots get_root() really returned
    accepted,             \* history: the submission submit_xcmp_proof has
                          \* just accepted, if it has
    testAccepted          \* the XcmpMessagesAccepted event just deposited, with
                          \* the leaves of its proof

storage == <<number, XcmpChannelRoots, SeenBeefyRoots, SeenBeefyRootsOrder>>
vars == <<storage, result, provided, accepted, testAccepted>>

Init ==
    /\ number = 0
    /\ XcmpChannelRoots = <<>>
    /\ SeenBeefyRoots = <<>>
    /\ SeenBeefyRootsOrder = <<>>
    /\ result = "None"
    /\ provided = {}
    /\ accepted = {}
    /\ testAccepted = {}

(* StorageMap::insert *)
Insert(map, key, value) ==
    [k \in DOMAIN map \cup {key} |-> IF k = key THEN value ELSE map[k]]

-----------------------------------------------------------------------------
(* What the roots commit to, and the results of the two proof extrinsics.  *)
MmrHas(root, leaf) == leaf \in MmrCommits[root]
TreeHas(root, leaf) == leaf \in TreeCommits[root]
LeafExtra(leaf) == LeafExtraOf[leaf]
extract_xcmp_channel_root(header) == ChannelRootOf[header]

INSTANCE XcmpVerification WITH ChannelRoot <- extract_xcmp_channel_root

Verdict(s) == XcmpVerdict(DOMAIN SeenBeefyRoots, s.target, s.proof)

TestVerdict(mmr, channel_id) ==
    IF channel_id \notin DOMAIN XcmpChannelRoots
    THEN "XcmpNoChannelRootForChannelId"
    ELSE IF ~verify_leaves_proof(XcmpChannelRoots[channel_id], mmr)
         THEN "XcmpProofNotValid"
    ELSE "Ok"

(* ensure_signed comes first in every extrinsic. *)
Origins == {"Signed", "Root"}
ensure_signed(origin, verdict) ==
    IF origin = "Signed" THEN verdict ELSE "BadOrigin"

-----------------------------------------------------------------------------
(* What on_initialize makes of a missing root. *)
KeepNoRoot(root) == root                                         \* mutant
unwrap_or_default(root) == IF root = NoRoot THEN ZeroHash ELSE root

(* The map after the insertion, and the vector after the push: force_from  *)
(* stores it as it is, longer than MaxBeefyRootsKept or not.               *)
InsertAndPrune(root, n) ==                                       \* mutant
    LET seen == Insert(SeenBeefyRoots, root, n)
        kept == {r \in DOMAIN seen : seen[r] + MaxBeefyRootsKept > n}
    IN  [r \in kept |-> seen[r]]
InsertSeen(root, n) == Insert(SeenBeefyRoots, root, n)

PushIfNew(root) ==                                               \* mutant
    IF root \in DOMAIN SeenBeefyRoots
    THEN SeenBeefyRootsOrder ELSE Append(SeenBeefyRootsOrder, root)
PushOrder(root) == Append(SeenBeefyRootsOrder, root)

(* on_initialize of the next block: `root' is what BeefyRootProvider       *)
(* returns.                                                                *)
on_initialize(root) ==
    /\ number < MaxBlocks
    /\ number' = number + 1
    /\ SeenBeefyRoots' = InsertSeen(unwrap_or_default(root), number + 1)
    /\ SeenBeefyRootsOrder' = PushOrder(unwrap_or_default(root))
    /\ provided' = provided \cup ({root} \ {NoRoot})
    /\ result' = "None"
    /\ accepted' = {} /\ testAccepted' = {}
    /\ UNCHANGED XcmpChannelRoots

(* update_root: whatever root a signed origin gives. *)
update_root(origin, root, channel_id) ==
    /\ number > 0
    /\ result' = ensure_signed(origin, "Ok")
    /\ XcmpChannelRoots' = IF result' = "Ok"
                           THEN Insert(XcmpChannelRoots, channel_id, root)
                           ELSE XcmpChannelRoots
    /\ accepted' = {} /\ testAccepted' = {}
    /\ UNCHANGED <<number, SeenBeefyRoots, SeenBeefyRootsOrder, provided>>

(* submit_test_proof: on success the only effect is the event. *)
submit_test_proof(origin, mmr, channel_id) ==
    /\ number > 0
    /\ result' = ensure_signed(origin, TestVerdict(mmr, channel_id))
    /\ testAccepted' =
          IF result' = "Ok"
          THEN {[mmr_channel_root |-> XcmpChannelRoots[channel_id],
                 channel_id |-> channel_id, leaves |-> mmr.leaves]}
          ELSE {}
    /\ accepted' = {}
    /\ UNCHANGED <<storage, provided>>

(* submit_xcmp_proof: an accepted proof changes no storage and deposits no *)
(* event; only the history records it.                                     *)
submit_xcmp_proof(origin, s) ==
    /\ number > 0
    /\ result' = ensure_signed(origin, Verdict(s))
    /\ accepted' = IF result' = "Ok" THEN {s} ELSE {}
    /\ testAccepted' = {}
    /\ UNCHANGED <<storage, provided>>

Next ==
    \/ \E root \in BeefyRoots \cup {NoRoot} : on_initialize(root)
    \/ \E origin \in Origins, root \in ChannelRootInputs, c \in ChannelId :
           update_root(origin, root, c)
    \/ \E origin \in Origins, mmr \in TestSubmissions, c \in ChannelId :
           submit_test_proof(origin, mmr, c)
    \/ \E origin \in Origins, s \in Submissions : submit_xcmp_proof(origin, s)

Spec == Init /\ [][Next]_vars

-----------------------------------------------------------------------------
Results == Verdicts \cup {"None", "BadOrigin", "XcmpProofNotValid",
                          "XcmpNoChannelRootForChannelId"}

(* Every storage item, the result and the histories have their types. *)
TypeOK ==
    /\ number \in 0..MaxBlocks
    /\ DOMAIN XcmpChannelRoots \subseteq ChannelId
    /\ XcmpChannelRoots \in [DOMAIN XcmpChannelRoots -> Hash]
    /\ DOMAIN SeenBeefyRoots \subseteq Hash
    /\ SeenBeefyRoots \in [DOMAIN SeenBeefyRoots -> 1..MaxBlocks]
    /\ SeenBeefyRootsOrder \in Seq(Hash)
    /\ result \in Results
    /\ provided \subseteq BeefyRoots
    /\ accepted \subseteq Submissions
    /\ testAccepted \subseteq
          [mmr_channel_root : Hash, channel_id : ChannelId, leaves : Seq(Leaf)]

(* The map and the vector on_initialize writes agree, whatever roots come  *)
(* back, repeat or are missing: the vector has one entry per block, the    *)
(* map has exactly the roots of the vector, and maps each to the last      *)
(* block that saw it.                                                      *)
SeenMatchesOrder ==
    /\ Len(SeenBeefyRootsOrder) = number
    /\ \A i \in 1..number : SeenBeefyRootsOrder[i] \in DOMAIN SeenBeefyRoots
    /\ \A r \in DOMAIN SeenBeefyRoots :
          /\ SeenBeefyRoots[r] \in 1..number
          /\ SeenBeefyRootsOrder[SeenBeefyRoots[r]] = r
          /\ \A i \in 1..number : SeenBeefyRootsOrder[i] = r => i <= SeenBeefyRoots[r]

(* The root of a channel MMR is in the channel tree of a parachain header  *)
(* that a BEEFY leaf commits to.                                           *)
Commits(leaf, header, channelMmr) ==
    /\ LeafExtraOf[leaf] \in Hash
    /\ header \in TreeCommits[LeafExtraOf[leaf]]
    /\ ChannelRootOf[header] \in Hash
    /\ channelMmr \in TreeCommits[ChannelRootOf[header]]

(* The messages are leaves of a channel MMR that a BEEFY leaf under `root' *)
(* leads to.                                                               *)
CommittedUnder(root, messages) ==
    \E leaf \in MmrCommits[root], header \in Header, channelMmr \in Hash :
        /\ Commits(leaf, header, channelMmr)
        /\ \A i \in 1..Len(messages) : messages[i] \in MmrCommits[channelMmr]

(* submit_xcmp_proof accepts only messages that a root committed to which  *)
(* the relay chain really had and this chain saw in some earlier block: in *)
(* particular the default root recorded when get_root() is None lets       *)
(* nothing through.                                                        *)
AcceptedIsCommitted ==
    \A s \in accepted :
        /\ s.target \in provided
        /\ CommittedUnder(s.target, s.proof.stage_4.leaves)

(* The proof an honest relayer makes of messages so committed. *)
HonestProof(root, leaf, header, channelMmr, messages) ==
    [stage_1 |-> [of |-> root, leaves |-> <<leaf>>],
     stage_2 |-> [root |-> LeafExtraOf[leaf], leaf |-> header,
                  path |-> TRUE, wide |-> FALSE],
     stage_3 |-> [root |-> ChannelRootOf[header], leaf |-> channelMmr,
                  path |-> TRUE, wide |-> FALSE],
     stage_4 |-> [of |-> channelMmr, leaves |-> messages]]

(* The converse: whatever a root commits to that get_root() has ever       *)
(* returned has a proof that submit_xcmp_proof accepts, in the block that  *)
(* saw the root and in every later one, however many roots, repetitions    *)
(* and missing roots have come since.                                      *)
CommittedIsAccepted ==
    \A root \in provided : \A leaf \in MmrCommits[root] :
        \A header \in Header, channelMmr \in Hash :
            Commits(leaf, header, channelMmr) =>
                \A message \in MmrCommits[channelMmr] :
                    Verdict([target |-> root,
                             proof |-> HonestProof(root, leaf, header, channelMmr,
                                                   <<message>>)]) = "Ok"

(* No later block turns a submission that verifies into one that is        *)
(* refused: the roots seen are never pruned, and an accepted proof leaves  *)
(* nothing behind, so that it is accepted again whenever it comes again.   *)
VerifiableStaysVerifiable ==
    [][SeenBeefyRoots' # SeenBeefyRoots =>
          \A s \in Submissions : Verdict(s) = "Ok" => Verdict(s)' = "Ok"]_vars

(* "MaxBeefyRootsKept", the bound of the vector's type: the pallet keeps   *)
(* at most that many roots.                                                *)
OrderWithinBound == Len(SeenBeefyRootsOrder) <= MaxBeefyRootsKept
=============================================================================
