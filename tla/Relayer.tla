------------------------------ MODULE Relayer -------------------------------
(***************************************************************************)
(* The relayer (xcmp_relayer) between the relay chain and the sending      *)
(* parachain: three tokio tasks on a multi-threaded runtime share five     *)
(* maps behind mutexes.                                                    *)
(*                                                                         *)
(*   collect_relay_data    LEAVES_BEEFY_MMR_MAP, PARA_HEADERS_MAP          *)
(*   collect_para_data     MSG_ROOT_MAP, CHANNEL_ROOT_PROOF_MAP,           *)
(*                         MSG_ROOT_CHANNEL_MERKLE_MAP                     *)
(*   get_proof_and_verify  runs generate_xcmp_proof once per sender block: *)
(*                         reads the four maps, removes from MSG_ROOT_MAP, *)
(*                         submits                                         *)
(*                                                                         *)
(* A step ends where a task awaits or releases a mutex.  A map is only     *)
(* ever taken with try_lock: the step that uses it is atomic, and may      *)
(* instead find the mutex taken whenever another task is at a step that    *)
(* uses the same map.                                                      *)
(*                                                                         *)
(* Block ids stand for hashes, and hashes are tagged ids.  rank is the     *)
(* order of the message roots as keys of a BTreeMap: a hash says nothing   *)
(* about the age of its block.                                             *)
(***************************************************************************)
EXTENDS Integers, Sequences, FiniteSets

CONSTANTS
    MaxRelay,   \* bound: relay chain blocks
    MaxPara,    \* bound: blocks of the sender, orphans included
    MaxOther,   \* bound: blocks of other parachains included
    MaxFaults,  \* bound: failed RPC calls
    RelayParents, \* bound: relay blocks whose BEEFY root the sender may record
    StartPara,    \* best block of the sender when the relayer starts
    StartHeads,   \* heads the relay chain may have then
    Orders,       \* orders of the message roots, by the block they are built on
    Undecodable, NoDigest,
    Nil         \* a local variable not yet assigned

ASSUME RelayerAssumption ==
    /\ MaxRelay \in Nat \ {0} /\ MaxPara \in Nat \ {0}
    /\ MaxOther \in Nat /\ MaxFaults \in Nat
    /\ RelayParents \subseteq Nat /\ 0 \in RelayParents
    /\ StartPara \in 1..MaxPara /\ StartHeads \subseteq 0..StartPara
    \* a decoding error is no hash
    /\ \A p \in 0..MaxPara : <<"channels", p>> \notin {Undecodable, NoDigest}
    /\ \A b \in 0..MaxPara, o \in 0..MaxOther : Undecodable # <<"heads", b, o>>

VARIABLES
    relay,   \* the relay chain: heads after each block
    para,    \* the sender's blocks, in the order they became best
    rank,    \* order of the message roots in BTreeMaps
    LEAVES_BEEFY_MMR_MAP, PARA_HEADERS_MAP, MSG_ROOT_MAP,
    MSG_ROOT_CHANNEL_MERKLE_MAP, CHANNEL_ROOT_PROOF_MAP,
    relayTask,     \* collect_relay_data: [pc, block, root]
    paraTask,      \* collect_para_data: [pc, block]
    submitTask,    \* get_proof_and_verify: [pc, job]
    submissions,   \* history: submit_xcmp_proof calls and their results
    faults

chains == <<relay, para, rank>>
relayMaps == <<LEAVES_BEEFY_MMR_MAP, PARA_HEADERS_MAP>>
paraMaps == <<MSG_ROOT_CHANNEL_MERKLE_MAP, CHANNEL_ROOT_PROOF_MAP>>
vars == <<chains, relayMaps, paraMaps, MSG_ROOT_MAP, relayTask, paraTask,
          submitTask, submissions, faults>>

-----------------------------------------------------------------------------
(* The commitments.  Relay block n's BEEFY MMR has the leaves 1..n; leaf n *)
(* is made when block n starts, so its leaf_extra is the root of the heads *)
(* after block n-1.  The leaf a block of the sender adds to its message    *)
(* MMR, and with it the roots of this MMR and of the channels tree, is     *)
(* made in on_initialize from the state, number and hash of the parent p:  *)
(* all blocks built on p have the same, and differ in their headers.       *)
BeefyRoot(n) == <<"beefy", n>>
BeefyLeaf(n) == <<"beefy leaf", n>>
ChannelsRoot(p) == <<"channels", p>>
MsgRoot(p) == <<"msgs", p>>
Messages(p) == <<"messages", p>>
Genesis == [parent |-> 0, root |-> 0, seen |-> {}]
Block(b) == IF b = 0 THEN Genesis ELSE para[b]
HeaderOf(b) == <<"header", b, Block(b).parent>>
HeadsRoot(n) ==
    IF n = 0 THEN <<"heads", 0, 0>> ELSE <<"heads", relay[n].head, relay[n].other>>

MmrHas(root, leaf) ==
    \/ \E n \in 1..Len(relay) :
          root = BeefyRoot(n) /\ \E m \in 1..n : leaf = BeefyLeaf(m)
    \/ \E b \in 1..Len(para) :
          root = MsgRoot(para[b].parent) /\ leaf = Messages(para[b].parent)
TreeHas(root, leaf) ==
    \/ root[1] = "heads" /\ leaf = HeaderOf(root[2])
    \/ root[1] = "channels" /\ leaf = MsgRoot(root[2])
LeafExtra(leaf) == HeadsRoot(leaf[2] - 1)
extract_xcmp_channel_root(header) ==
    IF header[2] = 0 THEN NoDigest ELSE ChannelsRoot(header[3])

INSTANCE XcmpVerification WITH ChannelRoot <- extract_xcmp_channel_root

(* The proofs the RPC and runtime API calls return. *)
BeefyProof(n) == [of |-> BeefyRoot(n), leaves |-> <<BeefyLeaf(n)>>]
MsgProof(p) == [of |-> MsgRoot(p), leaves |-> <<Messages(p)>>]
ParaHeadsProof(n) == [root |-> HeadsRoot(n), leaf |-> HeaderOf(relay[n].head),
                      path |-> TRUE, wide |-> FALSE]
ChannelProof(p) == [root |-> ChannelsRoot(p), leaf |-> MsgRoot(p),
                    path |-> TRUE, wide |-> FALSE]

-----------------------------------------------------------------------------
(* The chains.  A relay block may include a block of the sender built on   *)
(* the head it has, and blocks of other parachains.  A block of the sender *)
(* is built on the best block or on the head the relay chain has, which    *)
(* makes it a sibling of the blocks already built there; its message       *)
(* stuffer records one more BEEFY root, no older than the last one, or the *)
(* default root (0) as long as the chain has been given none.              *)
ParaHead == relay[Len(relay)].head
NextRoots(parent) == RelayParents \cap (Block(parent).root .. Len(relay))

RelayBlock ==
    /\ Len(relay) < MaxRelay
    /\ \E head \in {ParaHead} \cup {b \in 1..Len(para) : para[b].parent = ParaHead},
          other \in {relay[Len(relay)].other, relay[Len(relay)].other + 1} :
          /\ other <= MaxOther
          /\ relay' = Append(relay, [head |-> head, other |-> other])
    /\ UNCHANGED <<para, rank, relayMaps, paraMaps, MSG_ROOT_MAP, relayTask,
                   paraTask, submitTask, submissions, faults>>

ParaBlock ==
    /\ Len(para) < MaxPara
    /\ \E parent \in {ParaHead, Len(para)} :
       \E root \in NextRoots(parent) :
          para' = Append(para, [parent |-> parent, root |-> root,
                                seen |-> Block(parent).seen \cup {root}])
    /\ UNCHANGED <<relay, rank, relayMaps, paraMaps, MSG_ROOT_MAP, relayTask,
                   paraTask, submitTask, submissions, faults>>

-----------------------------------------------------------------------------
Insert(map, key, value) ==
    [k \in DOMAIN map \cup {key} |-> IF k = key THEN value ELSE map[k]]
KeepKey(map, key) == map                                         \* mutant
RemoveKey(map, key) == [k \in DOMAIN map \ {key} |-> map[k]]

(* The steps at which a task uses a map: another task's try_lock may fail. *)
CollectingHeads == relayTask.pc = "head"
CollectingLeaves == relayTask.pc = "leaf"
CollectingRoots == \/ paraTask.pc = "match"
                   \/ paraTask.pc = "next" /\ paraTask.block < Len(para)
CollectingMerkle == paraTask.pc = "merkle"
UsingRoots == submitTask.pc \in {"next", "remove"}

(* try_lock and insert: contended says that the mutex may be taken. *)
TryInsert(map, key, value, contended) ==
    {Insert(map, key, value)} \cup (IF contended THEN {map} ELSE {})

-----------------------------------------------------------------------------
(* collect_relay_data.  The MMR root is asked of the node's best block,    *)
(* everything else of the block of the subscription.                       *)
RelayNext ==
    /\ relayTask.pc = "next" /\ relayTask.block < Len(relay)
    /\ relayTask' = [pc |-> "leaf", block |-> relayTask.block + 1,
                     root |-> BeefyRoot(Len(relay))]
    /\ UNCHANGED <<chains, relayMaps, paraMaps, MSG_ROOT_MAP, paraTask,
                   submitTask, submissions, faults>>

(* The keys of the two maps: the leaf_extra of the BEEFY leaf with the     *)
(* number of the block, and the channels root in the header's digest.      *)
KeyOfBlockHeads(n) == <<HeadsRoot(n), n>>                        \* mutant
LeafKey(n) == <<LeafExtra(BeefyLeaf(n)), n>>
HeadsRootKey(proof) == proof.root                                \* mutant
HeadKey(proof) == extract_xcmp_channel_root(proof.leaf)

RelayInsertLeaf ==
    LET n == relayTask.block
    IN  /\ relayTask.pc = "leaf"
        /\ LEAVES_BEEFY_MMR_MAP' \in
              TryInsert(LEAVES_BEEFY_MMR_MAP, LeafKey(n),
                        [root |-> relayTask.root, proof |-> BeefyProof(n)],
                        submitTask.pc = "leaf")
        /\ relayTask' = [relayTask EXCEPT !.pc = "head"]
        /\ UNCHANGED <<chains, PARA_HEADERS_MAP, paraMaps, MSG_ROOT_MAP,
                       paraTask, submitTask, submissions, faults>>

(* A header without the digest item ends the task. *)
RelayInsertHead ==
    LET proof == ParaHeadsProof(relayTask.block)
        channels == HeadKey(proof)
    IN  /\ relayTask.pc = "head"
        /\ IF channels = NoDigest
           THEN /\ relayTask' = [relayTask EXCEPT !.pc = "dead"]
                /\ UNCHANGED PARA_HEADERS_MAP
           ELSE /\ relayTask' = [relayTask EXCEPT !.pc = "next"]
                /\ PARA_HEADERS_MAP' \in
                      TryInsert(PARA_HEADERS_MAP, channels, proof,
                                submitTask.pc = "head")
        /\ UNCHANGED <<chains, LEAVES_BEEFY_MMR_MAP, paraMaps, MSG_ROOT_MAP,
                       paraTask, submitTask, submissions, faults>>

(* A failed RPC call: `?' ends the spawned task, and nobody restarts it. *)
RelayFault ==
    /\ faults < MaxFaults /\ faults' = faults + 1
    /\ relayTask.pc # "dead"
    /\ relayTask' = [relayTask EXCEPT !.pc = "dead"]
    /\ UNCHANGED <<chains, relayMaps, paraMaps, MSG_ROOT_MAP, paraTask,
                   submitTask, submissions>>

-----------------------------------------------------------------------------
(* collect_para_data: every call is made at the block of the subscription. *)
ParaInsertRoot ==
    LET b == paraTask.block + 1
    IN  /\ paraTask.pc = "next" /\ paraTask.block < Len(para)
        /\ paraTask' = [pc |-> "match", block |-> b]
        /\ MSG_ROOT_MAP' \in TryInsert(MSG_ROOT_MAP, MsgRoot(para[b].parent),
                                       MsgProof(para[b].parent), UsingRoots)
        /\ UNCHANGED <<chains, relayMaps, paraMaps, relayTask, submitTask,
                       submissions, faults>>

ParaMatchRoots ==
    LET proof == ChannelProof(para[paraTask.block].parent)
    IN  /\ paraTask.pc = "match"
        /\ CHANNEL_ROOT_PROOF_MAP' =
              Insert(CHANNEL_ROOT_PROOF_MAP, proof.root, proof)
        /\ \/ /\ proof.leaf \in DOMAIN MSG_ROOT_MAP
              /\ paraTask' = [paraTask EXCEPT !.pc = "merkle"]
           \/ /\ proof.leaf \notin DOMAIN MSG_ROOT_MAP \/ UsingRoots
              /\ paraTask' = [paraTask EXCEPT !.pc = "next"]
        /\ UNCHANGED <<chains, relayMaps, MSG_ROOT_MAP,
                       MSG_ROOT_CHANNEL_MERKLE_MAP, relayTask, submitTask,
                       submissions, faults>>

ParaInsertMerkle ==
    LET p == para[paraTask.block].parent
    IN  /\ paraTask.pc = "merkle"
        /\ MSG_ROOT_CHANNEL_MERKLE_MAP' \in
              TryInsert(MSG_ROOT_CHANNEL_MERKLE_MAP, MsgRoot(p), ChannelProof(p),
                        submitTask.pc = "merkle")
        /\ paraTask' = [paraTask EXCEPT !.pc = "next"]
        /\ UNCHANGED <<chains, relayMaps, MSG_ROOT_MAP, CHANNEL_ROOT_PROOF_MAP,
                       relayTask, submitTask, submissions, faults>>

ParaFault ==
    /\ faults < MaxFaults /\ faults' = faults + 1
    /\ paraTask.pc \in {"next", "match"}
    /\ paraTask' = [paraTask EXCEPT !.pc = "dead"]
    /\ UNCHANGED <<chains, relayMaps, paraMaps, MSG_ROOT_MAP, relayTask,
                   submitTask, submissions>>

-----------------------------------------------------------------------------
(* generate_xcmp_proof, called by the loop of get_proof_and_verify for     *)
(* every best block of the sender; the loop ignores its result.  job holds *)
(* its local variables.                                                    *)
NoJob == [stage_4_root |-> Nil, stage_4 |-> Nil, stage_3 |-> Nil,
          stage_2 |-> Nil, stage_1 |-> Nil, target |-> Nil]
GiveUp == submitTask' = [pc |-> "next", job |-> NoJob]
Proceed(pc, job) == submitTask' = [pc |-> pc, job |-> job]
SubmitStep == UNCHANGED <<chains, relayMaps, paraMaps, relayTask, paraTask>>

(* The first key of MSG_ROOT_MAP.  When the map is empty or taken the call *)
(* returns at once.                                                        *)
IsLast(map, k) ==                                                \* mutant
    k \in DOMAIN map /\ \A l \in DOMAIN map : rank[k[2]] >= rank[l[2]]
IsFirst(map, k) == k \in DOMAIN map /\ \A l \in DOMAIN map : rank[k[2]] <= rank[l[2]]

PopRoot ==                                                       \* mutant
    /\ submitTask.pc = "next"
    /\ \E root \in DOMAIN MSG_ROOT_MAP :
          /\ IsFirst(MSG_ROOT_MAP, root)
          /\ Proceed("merkle", [NoJob EXCEPT !.stage_4_root = root,
                                             !.stage_4 = MSG_ROOT_MAP[root]])
          /\ MSG_ROOT_MAP' = RemoveKey(MSG_ROOT_MAP, root)
    /\ SubmitStep /\ UNCHANGED <<submissions, faults>>
PickRoot ==
    /\ submitTask.pc = "next"
    /\ \E root \in DOMAIN MSG_ROOT_MAP :
          /\ IsFirst(MSG_ROOT_MAP, root)
          /\ Proceed("merkle", [NoJob EXCEPT !.stage_4_root = root,
                                             !.stage_4 = MSG_ROOT_MAP[root]])
    /\ SubmitStep /\ UNCHANGED <<MSG_ROOT_MAP, submissions, faults>>

LookupMerkle ==
    LET root == submitTask.job.stage_4_root
    IN  /\ submitTask.pc = "merkle"
        /\ \/ /\ root \in DOMAIN MSG_ROOT_CHANNEL_MERKLE_MAP
              /\ Proceed("head", [submitTask.job EXCEPT
                            !.stage_3 = MSG_ROOT_CHANNEL_MERKLE_MAP[root]])
           \/ /\ \/ root \notin DOMAIN MSG_ROOT_CHANNEL_MERKLE_MAP
                 \/ CollectingMerkle
              /\ GiveUp
        /\ SubmitStep /\ UNCHANGED <<MSG_ROOT_MAP, submissions, faults>>

LookupHead ==
    LET root == submitTask.job.stage_3.root
    IN  /\ submitTask.pc = "head"
        /\ \/ /\ root \in DOMAIN PARA_HEADERS_MAP
              /\ Proceed("leaf", [submitTask.job EXCEPT
                                    !.stage_2 = PARA_HEADERS_MAP[root]])
           \/ /\ root \notin DOMAIN PARA_HEADERS_MAP \/ CollectingHeads
              /\ GiveUp
        /\ SubmitStep /\ UNCHANGED <<MSG_ROOT_MAP, submissions, faults>>

(* The entries for the root of stage 2; the last one is taken. *)
AnyEntry(root) == DOMAIN LEAVES_BEEFY_MMR_MAP                    \* mutant
BeefyEntries(root) == {k \in DOMAIN LEAVES_BEEFY_MMR_MAP : k[1] = root}

LookupLeaf ==
    LET entries == BeefyEntries(submitTask.job.stage_2.root)
    IN  /\ submitTask.pc = "leaf"
        /\ \/ \E k \in entries :
                 /\ \A l \in entries : l[2] <= k[2]
                 /\ Proceed("remove", [submitTask.job EXCEPT
                           !.stage_1 = LEAVES_BEEFY_MMR_MAP[k].proof,
                           !.target = LEAVES_BEEFY_MMR_MAP[k].root])
           \/ /\ entries = {} \/ CollectingLeaves
              /\ GiveUp
        /\ SubmitStep /\ UNCHANGED <<MSG_ROOT_MAP, submissions, faults>>

(* The message root leaves the map before the proof is submitted. *)
RemoveRoot ==
    LET root == submitTask.job.stage_4_root
    IN  /\ submitTask.pc = "remove"
        /\ \/ /\ root \in DOMAIN MSG_ROOT_MAP
              /\ MSG_ROOT_MAP' = RemoveKey(MSG_ROOT_MAP, root)
              /\ Proceed("submit", submitTask.job)
           \/ /\ root \notin DOMAIN MSG_ROOT_MAP \/ CollectingRoots
              /\ GiveUp
              /\ UNCHANGED MSG_ROOT_MAP
        /\ SubmitStep /\ UNCHANGED <<submissions, faults>>

(* The two Merkle proofs are converted, field by field, from the types of  *)
(* one client's metadata to those of the other's.                          *)
IntoParaProof(p) == [root |-> p.root, leaf |-> p.leaf, path |-> p.path, wide |-> p.wide]
IntoChannelProof(p) == [root |-> p.root, leaf |-> p.leaf, path |-> p.path, wide |-> p.wide]

JobProof(job) ==
    [stage_1 |-> job.stage_1, stage_2 |-> IntoParaProof(job.stage_2),
     stage_3 |-> IntoChannelProof(job.stage_3), stage_4 |-> job.stage_4]

(* submit_xcmp_proof goes to the client of the sender, and is executed in  *)
(* a block built on the best one, whose on_initialize has recorded one     *)
(* more root by then; the relayer only logs the result.                    *)
SeenRoots(root) == {BeefyRoot(n) : n \in Block(Len(para)).seen \cup {root}}

SubmitProof ==
    LET job == submitTask.job
    IN  /\ submitTask.pc = "submit"
        /\ \E root \in NextRoots(Len(para)) :
              submissions' = Append(submissions,
                 [stage_4_root |-> job.stage_4_root, target |-> job.target,
                  proof |-> JobProof(job),
                  verdict |-> XcmpVerdict(SeenRoots(root), job.target, JobProof(job))])
        /\ GiveUp
        /\ SubmitStep /\ UNCHANGED <<MSG_ROOT_MAP, faults>>

(* A call fails, or the transaction never gets in a block: the root is not *)
(* put back.  A failed query in the loop itself ends the task.             *)
SubmitFault ==
    /\ faults < MaxFaults /\ faults' = faults + 1
    /\ \/ submitTask.pc = "submit" /\ GiveUp
       \/ /\ submitTask.pc = "next"
          /\ submitTask' = [pc |-> "dead", job |-> NoJob]
    /\ SubmitStep /\ UNCHANGED <<MSG_ROOT_MAP, submissions>>
-----------------------------------------------------------------------------
(* The relayer starts when the sender has some blocks, and its best block  *)
(* is the first one that the subscription gives.                           *)
Init ==
    /\ \E head \in StartHeads : relay = <<[head |-> head, other |-> 0]>>
    /\ para = [b \in 1..StartPara |-> [parent |-> b - 1, root |-> 0, seen |-> {0}]]
    /\ paraTask = [pc |-> "next", block |-> StartPara - 1]
    /\ rank \in Orders
    /\ LEAVES_BEEFY_MMR_MAP = <<>> /\ PARA_HEADERS_MAP = <<>>
    /\ MSG_ROOT_MAP = <<>> /\ MSG_ROOT_CHANNEL_MERKLE_MAP = <<>>
    /\ CHANNEL_ROOT_PROOF_MAP = <<>>
    /\ relayTask = [pc |-> "next", block |-> 0, root |-> Nil]
    /\ submitTask = [pc |-> "next", job |-> NoJob]
    /\ submissions = <<>>
    /\ faults = 0

RelayCollector == RelayNext \/ RelayInsertLeaf \/ RelayInsertHead
ParaCollector == ParaInsertRoot \/ ParaMatchRoots \/ ParaInsertMerkle
Submitter == \/ PickRoot \/ LookupMerkle \/ LookupHead \/ LookupLeaf
             \/ RemoveRoot \/ SubmitProof

Next ==
    \/ RelayBlock \/ ParaBlock
    \/ RelayCollector \/ ParaCollector \/ Submitter
    \/ RelayFault \/ ParaFault \/ SubmitFault

Spec == Init /\ [][Next]_vars

(* The runtime keeps polling every task. *)
Fairness == WF_vars(RelayCollector) /\ WF_vars(ParaCollector) /\ WF_vars(Submitter)
FairSpec == Spec /\ Fairness

-----------------------------------------------------------------------------
(* Records of the maps and of the locals have their types. *)
Parents(S) == {para[b].parent : b \in S}
ChannelProofs == {ChannelProof(p) : p \in Parents(1..Len(para))}
BeefyRootsSoFar == {BeefyRoot(n) : n \in 1..Len(relay)}
MsgRootsSoFar == {MsgRoot(p) : p \in Parents(1..Len(para))}

TypeOK ==
    /\ DOMAIN MSG_ROOT_MAP \subseteq MsgRootsSoFar
    /\ DOMAIN MSG_ROOT_CHANNEL_MERKLE_MAP \subseteq MsgRootsSoFar
    /\ DOMAIN CHANNEL_ROOT_PROOF_MAP \subseteq {p.root : p \in ChannelProofs}
    /\ DOMAIN PARA_HEADERS_MAP \subseteq {p.root : p \in ChannelProofs}
    /\ DOMAIN LEAVES_BEEFY_MMR_MAP \subseteq
          {<<HeadsRoot(n - 1), n>> : n \in 1..Len(relay)}
    /\ relayTask.pc \in {"next", "leaf", "head", "dead"}
    /\ relayTask.block \in 0..Len(relay)
    /\ relayTask.root \in BeefyRootsSoFar \cup {Nil}
    /\ paraTask \in [pc : {"next", "match", "merkle", "dead"}, block : 0..Len(para)]
    /\ submitTask.pc \in {"next", "merkle", "head", "leaf", "remove", "submit", "dead"}
    /\ submitTask.job.target \in BeefyRootsSoFar \cup {Nil}
    /\ faults \in 0..MaxFaults

(* Whatever the interleaving of the collectors and the submitter, and      *)
(* however often an insert is skipped or overwritten, stages 2, 3 and 4 of *)
(* a submitted proof fit together and fit stage 1: submit_xcmp_proof can   *)
(* only refuse it because the chain has not seen the targeted root or, if  *)
(* the relay chain went on between the two calls that gave root and stage  *)
(* 1, because they are of different blocks.                                *)
CoherentVerdicts == {"Ok", "XcmpBeefyRootTargetedNeverSeen", "XcmpStage1ProofDoesntVerify"}
Coherent(s) ==
    /\ s.verdict \in CoherentVerdicts
    /\ s.verdict = "XcmpStage1ProofDoesntVerify" => s.proof.stage_1.of # s.target
SubmissionsCoherent == \A i \in DOMAIN submissions : Coherent(submissions[i])

(* generate_xcmp_proof submits the same messages no more often than there  *)
(* are blocks in the subscription that commit to them: once, or once more  *)
(* for every sibling that the collector inserts when the root has already  *)
(* been removed.                                                           *)
SubmittedFor(root) == {i \in DOMAIN submissions : submissions[i].stage_4_root = root}
CollectedFor(root) == {b \in 1..paraTask.block : MsgRoot(para[b].parent) = root}
SubmittedOncePerBlock ==
    \A i \in DOMAIN submissions :
        LET root == submissions[i].stage_4_root
        IN  Cardinality(SubmittedFor(root)) <= Cardinality(CollectedFor(root))

(* Messages are submitted only when the relay chain has included a block   *)
(* of the sender that commits to them, whether it is the one they were     *)
(* collected from or a sibling of it, and against a BEEFY root of a later  *)
(* relay block than the inclusion.                                         *)
SubmittedWasIncluded ==
    \A i \in DOMAIN submissions : \E n \in 1..Len(relay) :
        /\ relay[n].head # 0
        /\ submissions[i].stage_4_root = MsgRoot(para[relay[n].head].parent)
        /\ \E m \in n + 1..Len(relay) : submissions[i].target = BeefyRoot(m)

(* A message root leaves MSG_ROOT_MAP only when a complete proof for it is *)
(* in hand.                                                                *)
Complete(job, root) ==
    /\ job.stage_4_root = root /\ job.stage_4.of = root
    /\ job.stage_3.leaf = root
    /\ extract_xcmp_channel_root(job.stage_2.leaf) = job.stage_3.root
    /\ LeafExtra(job.stage_1.leaves[1]) = job.stage_2.root
RemovedWithProof ==
    [][\A root \in DOMAIN MSG_ROOT_MAP \ DOMAIN MSG_ROOT_MAP' :
          Complete(submitTask.job, root)]_vars

(* The relayer keeps the promise of Delivery: the messages are held at     *)
(* most once at a time, taken one root at a time, only after inclusion,    *)
(* and then submitted or lost; to be held again they must be collected     *)
(* from another block.                                                     *)
MsgRoots == {MsgRoot(p) : p \in 0..MaxPara}
Announced == [b \in 1..Len(para) |-> MsgRoot(para[b].parent)]
IncludedRoots == {MsgRoot(para[relay[n].head].parent) :
                     n \in {m \in 1..Len(relay) : relay[m].head # 0}}
InHand == IF submitTask.pc = "submit" THEN {submitTask.job.stage_4_root} ELSE {}
HandedOver == [i \in 1..Len(submissions) |-> submissions[i].stage_4_root]
D == INSTANCE Delivery WITH
        Roots <- MsgRoots, announced <- Announced, collected <- paraTask.block,
        included <- IncludedRoots, held <- DOMAIN MSG_ROOT_MAP, taken <- InHand,
        handed <- HandedOver
DeliversAsPromised == D!Spec

(* The blocks that the collected ones may be built on. *)
Bases == UNION {{head} \cup (StartPara - 1..MaxPara - 1) : head \in StartHeads}

(* A root whose proof is complete in the maps is submitted sooner or later *)
(* once the relay chain has gone on to another head and the collector has  *)
(* read all blocks with the old one, so that no other proof replaces it;   *)
(* unless a smaller root waits in front of it whose proof is not complete. *)
Provable(p) ==
    /\ MsgRoot(p) \in DOMAIN MSG_ROOT_MAP \cap DOMAIN MSG_ROOT_CHANNEL_MERKLE_MAP
    /\ ChannelsRoot(p) \in DOMAIN PARA_HEADERS_MAP
    /\ \E k \in DOMAIN LEAVES_BEEFY_MMR_MAP :
          k[1] = PARA_HEADERS_MAP[ChannelsRoot(p)].root
Settled(p) ==
    /\ Block(ParaHead).parent # p
    /\ \A n \in 1..Len(relay) : Block(relay[n].head).parent = p =>
          n < relayTask.block \/ (n = relayTask.block /\ relayTask.pc = "next")
Behind(p) ==
    \E k \in DOMAIN MSG_ROOT_MAP : rank[k[2]] < rank[p] /\ ~Provable(k[2])
ProvableIsSubmitted ==
    \A p \in Bases :
        Provable(p) /\ Settled(p) ~> MsgRoot(p) \notin DOMAIN MSG_ROOT_MAP \/ Behind(p)

-----------------------------------------------------------------------------
(* "Mapping (ParaHeaderRoot, RelayBlockNum) -> (BeefyMmrRoot, Proof)", of  *)
(* which generate_xcmp_proof says "Beefy Root needed to verify proof is":  *)
(* the root of an entry is the one its proof verifies against.             *)
EntryVerifies ==
    \A k \in DOMAIN LEAVES_BEEFY_MMR_MAP :
        LEAVES_BEEFY_MMR_MAP[k].proof.of = LEAVES_BEEFY_MMR_MAP[k].root

(* "Stage 4 root doesnt exist yet for stage 3 generation": the stage 3     *)
(* proof of a root in MSG_ROOT_MAP arrives sooner or later.                *)
Stage3Arrives ==
    \A p \in Bases :
        MsgRoot(p) \in DOMAIN MSG_ROOT_MAP ~>
            MsgRoot(p) \in DOMAIN MSG_ROOT_CHANNEL_MERKLE_MAP
=============================================================================
