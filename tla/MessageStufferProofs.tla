------------------------ MODULE MessageStufferProofs ------------------------
(***************************************************************************)
(* What one instance of the message stuffer pallet guarantees, for every   *)
(* set of hashes, leaves, headers and inputs and every number of blocks.   *)
(***************************************************************************)
EXTENDS MessageStuffer, TLAPS

(* The verdict of submit_xcmp_proof is one of the results in Verdicts. *)
LEMMA VerdictType ==
    ASSUME NEW s PROVE Verdict(s) \in Verdicts
  BY DEF Verdict, XcmpVerdict, Verdicts

-----------------------------------------------------------------------------
(* Storage, result and histories keep their types. *)
THEOREM TypeCorrect == Spec => []TypeOK
  <1>1. Init => TypeOK
    BY StufferAssumption DEF Init, TypeOK, Results
  <1>2. TypeOK /\ [Next]_vars => TypeOK'
    <2> SUFFICES ASSUME TypeOK, [Next]_vars PROVE TypeOK'
      OBVIOUS
    <2> USE StufferAssumption
    <2>1. CASE \E root \in BeefyRoots \cup {NoRoot} : on_initialize(root)
      <3>1. PICK root \in BeefyRoots \cup {NoRoot} : on_initialize(root)
        BY <2>1
      <3> DEFINE beefy == unwrap_or_default(root)
      <3>2. beefy \in Hash /\ number + 1 \in 1..MaxBlocks
        BY <3>1 DEF on_initialize, unwrap_or_default, InsertSeen, PushOrder, TypeOK
      <3>3. SeenBeefyRoots' = Insert(SeenBeefyRoots, beefy, number + 1)
        BY <3>1 DEF on_initialize, unwrap_or_default, InsertSeen, PushOrder
      <3>4. /\ DOMAIN SeenBeefyRoots' \subseteq Hash
            /\ SeenBeefyRoots' \in [DOMAIN SeenBeefyRoots' -> 1..MaxBlocks]
        <4> HIDE DEF beefy
        <4> QED BY <3>2, <3>3 DEF TypeOK, Insert
      <3>5. QED
        BY <3>1, <3>2, <3>4 DEF on_initialize, unwrap_or_default, InsertSeen, PushOrder, TypeOK, Results
    <2>2. CASE \E origin \in Origins, root \in ChannelRootInputs,
                  c \in ChannelId : update_root(origin, root, c)
      <3>1. PICK origin \in Origins, root \in ChannelRootInputs,
                 c \in ChannelId : update_root(origin, root, c)
        BY <2>2
      <3>2. /\ DOMAIN XcmpChannelRoots' \subseteq ChannelId
            /\ XcmpChannelRoots' \in [DOMAIN XcmpChannelRoots' -> Hash]
        BY <3>1 DEF update_root, TypeOK, Insert
      <3>3. QED
        BY <3>1, <3>2 DEF update_root, TypeOK, Results, ensure_signed, Verdicts
    <2>3. CASE \E origin \in Origins, mmr \in TestSubmissions,
                  c \in ChannelId : submit_test_proof(origin, mmr, c)
      <3>1. PICK origin \in Origins, mmr \in TestSubmissions,
                 c \in ChannelId : submit_test_proof(origin, mmr, c)
        BY <2>3
      <3>2. result' \in Results
        BY <3>1 DEF submit_test_proof, ensure_signed, TestVerdict, Results,
                    Verdicts
      <3>3. result' = "Ok" => c \in DOMAIN XcmpChannelRoots
        BY <3>1 DEF submit_test_proof, ensure_signed, TestVerdict
      <3>4. QED
        BY <3>1, <3>2, <3>3 DEF submit_test_proof, TypeOK, storage, MmrProof
    <2>4. CASE \E origin \in Origins, s \in Submissions :
                  submit_xcmp_proof(origin, s)
      BY <2>4, VerdictType DEF submit_xcmp_proof, TypeOK, storage, Results,
                               ensure_signed
    <2>5. CASE UNCHANGED vars
      BY <2>5 DEF vars, storage, TypeOK
    <2>6. QED
      BY <2>1, <2>2, <2>3, <2>4, <2>5 DEF Next
  <1>3. QED
    BY <1>1, <1>2, PTL DEF Spec

-----------------------------------------------------------------------------
(* The step every argument below rests on: only on_initialize touches the  *)
(* roots seen, and it adds exactly one.                                    *)
LEMMA SeenStep ==
    ASSUME TypeOK, [Next]_vars
    PROVE  \/ \E root \in BeefyRoots \cup {NoRoot} : on_initialize(root)
           \/ UNCHANGED <<number, SeenBeefyRoots, SeenBeefyRootsOrder, provided>>
  BY DEF Next, vars, storage, update_root, submit_test_proof,
         submit_xcmp_proof

(* The map of roots and the vector of roots that on_initialize writes      *)
(* always agree: one entry per block, and each root maps to the last block *)
(* that saw it.                                                            *)
THEOREM SeenRootsConsistent == Spec => []SeenMatchesOrder
  <1>1. Init => SeenMatchesOrder
    BY DEF Init, SeenMatchesOrder
  <1>2. TypeOK /\ SeenMatchesOrder /\ [Next]_vars => SeenMatchesOrder'
    <2> SUFFICES ASSUME TypeOK, SeenMatchesOrder, [Next]_vars
                 PROVE  SeenMatchesOrder'
      OBVIOUS
    <2> USE StufferAssumption
    <2>1. CASE \E root \in BeefyRoots \cup {NoRoot} : on_initialize(root)
      <3>1. PICK root \in BeefyRoots \cup {NoRoot} : on_initialize(root)
        BY <2>1
      <3> DEFINE beefy == unwrap_or_default(root)
      <3>2. /\ SeenBeefyRoots' = Insert(SeenBeefyRoots, beefy, number + 1)
            /\ SeenBeefyRootsOrder' = Append(SeenBeefyRootsOrder, beefy)
            /\ number' = number + 1
            /\ beefy \in Hash /\ number \in Nat
        BY <3>1 DEF on_initialize, unwrap_or_default, InsertSeen, PushOrder, TypeOK
      <3> HIDE DEF beefy
      <3>3. /\ Len(SeenBeefyRootsOrder') = number + 1
            /\ SeenBeefyRootsOrder'[number + 1] = beefy
            /\ \A i \in 1..number :
                  SeenBeefyRootsOrder'[i] = SeenBeefyRootsOrder[i]
        BY <3>2 DEF TypeOK, SeenMatchesOrder
      <3>4. /\ DOMAIN SeenBeefyRoots' = DOMAIN SeenBeefyRoots \cup {beefy}
            /\ SeenBeefyRoots'[beefy] = number + 1
            /\ \A r \in DOMAIN SeenBeefyRoots :
                  r # beefy => SeenBeefyRoots'[r] = SeenBeefyRoots[r]
        BY <3>2 DEF Insert
      <3>5. \A i \in 1..number' : i = number + 1 \/ i \in 1..number
        BY <3>2
      <3>6. \A r \in DOMAIN SeenBeefyRoots : SeenBeefyRoots[r] \in 1..number
        BY DEF SeenMatchesOrder
      <3>7. \A i \in 1..number' :
               SeenBeefyRootsOrder'[i] \in DOMAIN SeenBeefyRoots'
        BY <3>3, <3>4, <3>5 DEF SeenMatchesOrder
      <3>8. ASSUME NEW r \in DOMAIN SeenBeefyRoots'
            PROVE  /\ SeenBeefyRoots'[r] \in 1..number'
                   /\ SeenBeefyRootsOrder'[SeenBeefyRoots'[r]] = r
                   /\ \A i \in 1..number' :
                        SeenBeefyRootsOrder'[i] = r => i <= SeenBeefyRoots'[r]
        <4>1. CASE r = beefy
          BY <4>1, <3>2, <3>3, <3>4, <3>5
        <4>2. CASE r # beefy
          BY <4>2, <3>2, <3>3, <3>4, <3>5, <3>6 DEF SeenMatchesOrder
        <4>3. QED
          BY <4>1, <4>2
      <3>9. QED
        BY <3>2, <3>3, <3>7, <3>8 DEF SeenMatchesOrder
    <2>2. CASE UNCHANGED <<number, SeenBeefyRoots, SeenBeefyRootsOrder, provided>>
      BY <2>2 DEF SeenMatchesOrder
    <2>3. QED
      BY <2>1, <2>2, SeenStep
  <1>3. QED
    BY <1>1, <1>2, TypeCorrect, PTL DEF Spec

-----------------------------------------------------------------------------
(* Acceptance.  The invariant needs, besides the statement about accepted  *)
(* submissions, that a root on record is either one get_root() returned or *)
(* the default: nothing verifies against the default, as no leaf is        *)
(* committed under it and a submission without leaves is never accepted.   *)
SeenWasProvided == DOMAIN SeenBeefyRoots \subseteq provided \cup {ZeroHash}
AcceptedInv == SeenWasProvided /\ AcceptedIsCommitted

(* What "Ok" from submit_xcmp_proof means. *)
LEMMA OkIsCommitted ==
    ASSUME NEW s \in Submissions, Verdict(s) = "Ok"
    PROVE  /\ s.target \in DOMAIN SeenBeefyRoots
           /\ s.target # ZeroHash
           /\ CommittedUnder(s.target, s.proof.stage_4.leaves)
  <1> USE StufferAssumption
  <1> DEFINE p == s.proof
             leaf == p.stage_1.leaves[1]
             header == p.stage_2.leaf
             channelMmr == p.stage_3.leaf
  <1>1. s \in [target : Hash, proof : XcmpProof]
    OBVIOUS
  <1>2. /\ s.target \in Hash
        /\ p.stage_1 \in MmrProof /\ p.stage_4 \in MmrProof
        /\ p.stage_2.root \in Hash /\ header \in Header
        /\ p.stage_3.root \in Hash /\ channelMmr \in Hash
        /\ Len(p.stage_1.leaves) \in Nat
    BY <1>1 DEF XcmpProof, MmrProof, ParaMerkleProof, ChannelMerkleProof
  <1>3. /\ s.target \in DOMAIN SeenBeefyRoots
        /\ verify_leaves_proof(s.target, p.stage_1)
        /\ LeafExtra(leaf) = p.stage_2.root
        /\ verify_proof(p.stage_2)
        /\ extract_xcmp_channel_root(header) = p.stage_3.root
        /\ verify_proof(p.stage_3)
        /\ verify_leaves_proof(channelMmr, p.stage_4)
    BY DEF Verdict, XcmpVerdict, ChannelRootMatches
  <1>4. Len(p.stage_1.leaves) = 1
    <2> DEFINE n == Len(p.stage_1.leaves)
    <2>1. ~(n > 1) /\ n # 0
      BY DEF Verdict, XcmpVerdict
    <2>2. n \in Nat
      BY <1>2
    <2>3. QED
      <3> HIDE DEF n
      <3>1. n = 1
        BY <2>1, <2>2
      <3>2. QED
        BY <3>1 DEF n
  <1>5. leaf \in MmrCommits[s.target]
    BY <1>3, <1>4 DEF verify_leaves_proof, MmrHas
  <1>6. /\ LeafExtraOf[leaf] \in Hash
        /\ header \in TreeCommits[LeafExtraOf[leaf]]
        /\ ChannelRootOf[header] \in Hash
        /\ channelMmr \in TreeCommits[ChannelRootOf[header]]
    BY <1>2, <1>3 DEF verify_proof, TreeHas, LeafExtra,
                      extract_xcmp_channel_root
  <1>7. \A i \in 1..Len(p.stage_4.leaves) :
           p.stage_4.leaves[i] \in MmrCommits[channelMmr]
    BY <1>3 DEF verify_leaves_proof, MmrHas
  <1>8. CommittedUnder(s.target, p.stage_4.leaves)
    <2> HIDE DEF p, leaf, header, channelMmr
    <2>1. Commits(leaf, header, channelMmr)
      BY <1>6 DEF Commits
    <2>2. QED
      BY <1>2, <1>5, <1>7, <2>1 DEF CommittedUnder
  <1>9. QED
    BY <1>3, <1>5, <1>8

(* Whatever is submitted, by anyone and in any order, submit_xcmp_proof    *)
(* accepts only messages committed to under a BEEFY root that the relay    *)
(* chain really had and the parachain saw.                                 *)
THEOREM AcceptanceSound == Spec => []AcceptedIsCommitted
  <1>1. Init => AcceptedInv
    BY DEF Init, AcceptedInv, SeenWasProvided, AcceptedIsCommitted
  <1>2. TypeOK /\ AcceptedInv /\ [Next]_vars => AcceptedInv'
    <2> SUFFICES ASSUME TypeOK, AcceptedInv, [Next]_vars PROVE AcceptedInv'
      OBVIOUS
    <2> USE StufferAssumption
    <2>1. SeenWasProvided'
      <3>1. CASE \E root \in BeefyRoots \cup {NoRoot} : on_initialize(root)
        BY <3>1 DEF on_initialize, unwrap_or_default, InsertSeen, PushOrder, Insert, AcceptedInv, SeenWasProvided
      <3>2. CASE UNCHANGED <<number, SeenBeefyRoots, SeenBeefyRootsOrder, provided>>
        BY <3>2 DEF AcceptedInv, SeenWasProvided
      <3>3. QED
        BY <3>1, <3>2, SeenStep
    <2>2. provided \subseteq provided'
      BY SeenStep DEF on_initialize
    <2>3. AcceptedIsCommitted'
      <3>1. CASE \E origin \in Origins, s \in Submissions :
                    submit_xcmp_proof(origin, s)
        <4>1. PICK origin \in Origins, s \in Submissions :
                   submit_xcmp_proof(origin, s)
          BY <3>1
        <4>2. accepted' = {} \/ (Verdict(s) = "Ok" /\ accepted' = {s})
          BY <4>1 DEF submit_xcmp_proof, ensure_signed
        <4>3. Verdict(s) = "Ok" =>
                 s.target \in provided
                 /\ CommittedUnder(s.target, s.proof.stage_4.leaves)
          BY OkIsCommitted DEF AcceptedInv, SeenWasProvided
        <4>4. QED
          BY <2>2, <4>2, <4>3 DEF AcceptedInv, AcceptedIsCommitted,
                                  CommittedUnder
      <3>2. CASE accepted' = {}
        BY <3>2 DEF AcceptedIsCommitted
      <3>3. CASE UNCHANGED accepted
        BY <2>2, <3>3 DEF AcceptedInv, AcceptedIsCommitted, CommittedUnder
      <3>4. QED
        BY <3>1, <3>2, <3>3 DEF Next, vars, on_initialize, update_root,
                                submit_test_proof
    <2>4. QED
      BY <2>1, <2>3 DEF AcceptedInv
  <1>3. AcceptedInv => AcceptedIsCommitted
    BY DEF AcceptedInv
  <1>4. QED
    BY <1>1, <1>2, <1>3, TypeCorrect, PTL DEF Spec

-----------------------------------------------------------------------------
(* Completeness.  A root get_root() returned stays on record, and nothing  *)
(* in the four stages refuses a proof put together from the commitments    *)
(* themselves, of any number of messages.                                  *)
ProvidedIsSeen == provided \subseteq DOMAIN SeenBeefyRoots

LEMMA HonestProofVerifies ==
    ASSUME NEW root \in DOMAIN SeenBeefyRoots, root \in Hash, NEW leaf \in MmrCommits[root],
           NEW header \in Header, NEW channelMmr \in Hash,
           Commits(leaf, header, channelMmr),
           NEW messages \in Seq(MmrCommits[channelMmr])
    PROVE  /\ HonestProof(root, leaf, header, channelMmr, messages) \in XcmpProof
           /\ Verdict([target |-> root,
                       proof |-> HonestProof(root, leaf, header, channelMmr, messages)]) = "Ok"
  <1> DEFINE p == HonestProof(root, leaf, header, channelMmr, messages)
  <1>1. /\ p.stage_1 = [of |-> root, leaves |-> <<leaf>>]
        /\ p.stage_2 = [root |-> LeafExtraOf[leaf], leaf |-> header, path |-> TRUE, wide |-> FALSE]
        /\ p.stage_3 = [root |-> ChannelRootOf[header], leaf |-> channelMmr,
                        path |-> TRUE, wide |-> FALSE]
        /\ p.stage_4 = [of |-> channelMmr, leaves |-> messages]
        /\ p = [stage_1 |-> p.stage_1, stage_2 |-> p.stage_2,
                stage_3 |-> p.stage_3, stage_4 |-> p.stage_4]
    BY DEF HonestProof
  <1>2. leaf \in Leaf /\ MmrCommits[channelMmr] \subseteq Leaf
    BY StufferAssumption
  <1> HIDE DEF p
  <1>3. p \in XcmpProof
    <2>1. p.stage_1 \in MmrProof /\ p.stage_4 \in MmrProof
      BY <1>1, <1>2 DEF MmrProof
    <2>2. p.stage_2 \in ParaMerkleProof /\ p.stage_3 \in ChannelMerkleProof
      BY <1>1 DEF Commits, ParaMerkleProof, ChannelMerkleProof
    <2>3. QED
      BY <1>1, <2>1, <2>2 DEF XcmpProof
  <1>4. verify_leaves_proof(root, p.stage_1) /\ Len(p.stage_1.leaves) = 1
        /\ p.stage_1.leaves[1] = leaf
    BY <1>1 DEF verify_leaves_proof, MmrHas
  <1>5. LeafExtra(leaf) # Undecodable /\ LeafExtra(leaf) = p.stage_2.root
    BY <1>1, StufferAssumption DEF LeafExtra, Commits
  <1>6. verify_proof(p.stage_2) /\ ~p.stage_2.wide /\ p.stage_2.leaf = header
    BY <1>1 DEF verify_proof, TreeHas, Commits
  <1>7. /\ extract_xcmp_channel_root(header) \notin {Undecodable, NoDigest}
        /\ extract_xcmp_channel_root(header) = p.stage_3.root
    BY <1>1, StufferAssumption DEF extract_xcmp_channel_root, Commits
  <1>8. verify_proof(p.stage_3) /\ ~p.stage_3.wide /\ p.stage_3.leaf = channelMmr
    BY <1>1 DEF verify_proof, TreeHas, Commits
  <1>9. verify_leaves_proof(channelMmr, p.stage_4)
    BY <1>1 DEF verify_leaves_proof, MmrHas
  <1>10. XcmpVerdict(DOMAIN SeenBeefyRoots, root, p) = "Ok"
    BY <1>4, <1>5, <1>6, <1>7, <1>8, <1>9 DEF XcmpVerdict, ChannelRootMatches
  <1>11. QED
    BY <1>3, <1>10 DEF Verdict, p

(* Messages that a root commits to which the parachain has ever been given *)
(* can be proved to it in every later state.                               *)
THEOREM AcceptanceComplete == Spec => []CommittedIsAccepted
  <1>1. Init => ProvidedIsSeen
    BY DEF Init, ProvidedIsSeen
  <1>2. TypeOK /\ ProvidedIsSeen /\ [Next]_vars => ProvidedIsSeen'
    <2> SUFFICES ASSUME TypeOK, ProvidedIsSeen, [Next]_vars PROVE ProvidedIsSeen'
      OBVIOUS
    <2>1. CASE \E root \in BeefyRoots \cup {NoRoot} : on_initialize(root)
      BY <2>1 DEF on_initialize, unwrap_or_default, InsertSeen, Insert, ProvidedIsSeen
    <2>2. CASE UNCHANGED <<number, SeenBeefyRoots, SeenBeefyRootsOrder, provided>>
      BY <2>2 DEF ProvidedIsSeen
    <2>3. QED
      BY <2>1, <2>2, SeenStep
  <1>3. TypeOK /\ ProvidedIsSeen => CommittedIsAccepted
    <2> SUFFICES ASSUME TypeOK, ProvidedIsSeen, NEW root \in provided,
                        NEW leaf \in MmrCommits[root], NEW header \in Header,
                        NEW channelMmr \in Hash, Commits(leaf, header, channelMmr),
                        NEW message \in MmrCommits[channelMmr]
                 PROVE  Verdict([target |-> root,
                                 proof |-> HonestProof(root, leaf, header, channelMmr,
                                                       <<message>>)]) = "Ok"
      BY DEF CommittedIsAccepted
    <2>1. root \in DOMAIN SeenBeefyRoots /\ root \in Hash
      BY StufferAssumption DEF TypeOK, ProvidedIsSeen
    <2>2. <<message>> \in Seq(MmrCommits[channelMmr])
      <3> DEFINE committed == MmrCommits[channelMmr]
      <3>1. message \in committed
        OBVIOUS
      <3> HIDE DEF committed
      <3>2. <<message>> \in Seq(committed)
        BY <3>1
      <3>3. QED
        BY <3>2 DEF committed
    <2>3. QED
      BY <2>1, <2>2, HonestProofVerifies
  <1>4. QED
    BY <1>1, <1>2, <1>3, TypeCorrect, PTL DEF Spec

-----------------------------------------------------------------------------
(* A submission that verifies in one state verifies in every later one.    *)
THEOREM VerifiableForever == Spec => VerifiableStaysVerifiable
  <1>1. TypeOK /\ [Next]_vars =>
           [SeenBeefyRoots' # SeenBeefyRoots =>
              \A s \in Submissions : Verdict(s) = "Ok" => Verdict(s)' = "Ok"]_vars
    <2> SUFFICES ASSUME TypeOK, [Next]_vars, NEW s \in Submissions,
                        Verdict(s) = "Ok"
                 PROVE  Verdict(s)' = "Ok"
      OBVIOUS
    <2>1. DOMAIN SeenBeefyRoots \subseteq DOMAIN SeenBeefyRoots'
      BY SeenStep DEF on_initialize, unwrap_or_default, InsertSeen, PushOrder, Insert
    <2>2. QED
      BY <2>1 DEF Verdict, XcmpVerdict, ChannelRootMatches
  <1>2. QED
    BY <1>1, TypeCorrect, PTL DEF Spec, VerifiableStaysVerifiable
=============================================================================
