-------------------------- MODULE RelayerJobProofs --------------------------
(***************************************************************************)
(* The inductive invariant of Relayer, and that steps keep what it says of *)
(* the chains, the maps, the collectors and the locals of                  *)
(* generate_xcmp_proof.                                                    *)
(*                                                                         *)
(* The invariant says of each map which block its entries come from, and   *)
(* of the locals that the stages found so far are those of one block of    *)
(* the sender.  The relay blocks behind stages 1 and 2 may differ; what    *)
(* fits is that they have the same heads.                                  *)
(***************************************************************************)
EXTENDS Relayer, TLAPS

RelayBlocks == [head : 0..MaxPara, other : 0..MaxOther]
ParaBlocks == [parent : 0..MaxPara, root : Nat, seen : SUBSET Nat]

ChainOK ==
    /\ relay \in Seq(RelayBlocks)
    /\ Len(relay) >= 1
    /\ para \in Seq(ParaBlocks)
    /\ Len(para) \in 1..MaxPara
    /\ \A n \in 1..Len(relay) : relay[n].head <= Len(para)

(* The head of relay block n is a block of the sender built on p. *)
Includes(n, p) ==
    n \in 1..Len(relay) /\ relay[n].head # 0 /\ para[relay[n].head].parent = p

(* The maps. *)
RootsOK ==
    \A k \in DOMAIN MSG_ROOT_MAP : \E p \in Parents(1..paraTask.block) :
        k = MsgRoot(p) /\ MSG_ROOT_MAP[k] = MsgProof(p)
MerkleOK ==
    \A k \in DOMAIN MSG_ROOT_CHANNEL_MERKLE_MAP : \E p \in Parents(1..Len(para)) :
        k = MsgRoot(p) /\ MSG_ROOT_CHANNEL_MERKLE_MAP[k] = ChannelProof(p)
ChannelsOK ==
    \A k \in DOMAIN CHANNEL_ROOT_PROOF_MAP :
        \E p \in Parents(1..Len(para)) : k = ChannelsRoot(p)
HeadsOK ==
    \A k \in DOMAIN PARA_HEADERS_MAP : \E n \in 1..Len(relay), p \in 0..MaxPara :
        /\ Includes(n, p) /\ k = ChannelsRoot(p)
        /\ PARA_HEADERS_MAP[k] = ParaHeadsProof(n)
LeavesOK ==
    \A k \in DOMAIN LEAVES_BEEFY_MMR_MAP : \E n \in 1..Len(relay) : \E m \in n..Len(relay) :
        /\ k = <<HeadsRoot(n - 1), n>>
        /\ LEAVES_BEEFY_MMR_MAP[k] = [root |-> BeefyRoot(m), proof |-> BeefyProof(n)]

(* The collectors. *)
RelayTaskOK ==
    /\ relayTask \in [pc : {"next", "leaf", "head", "dead"}, block : 0..Len(relay),
                      root : BeefyRootsSoFar \cup {Nil}]
    /\ relayTask.pc \in {"leaf", "head"} => relayTask.block >= 1
    /\ relayTask.pc = "leaf" => \E m \in relayTask.block..Len(relay) :
                                   relayTask.root = BeefyRoot(m)
ParaTaskOK ==
    /\ paraTask \in [pc : {"next", "match", "merkle", "dead"}, block : 0..Len(para)]
    /\ paraTask.pc \in {"match", "merkle"} => paraTask.block >= 1

(* The locals of generate_xcmp_proof with stage 4, 3, 2 and 1 found, for   *)
(* the messages of the blocks built on p.                                  *)
JobWith(p, stage_3, stage_2) ==
    [stage_4_root |-> MsgRoot(p), stage_4 |-> MsgProof(p), stage_3 |-> stage_3,
     stage_2 |-> stage_2, stage_1 |-> Nil, target |-> Nil]
Job4(p) == JobWith(p, Nil, Nil)
Job3(p) == JobWith(p, ChannelProof(p), Nil)
Job2(p, n) == JobWith(p, ChannelProof(p), ParaHeadsProof(n))
Job1(p, n, m, l) == [Job2(p, n) EXCEPT !.stage_1 = BeefyProof(m), !.target = BeefyRoot(l)]

(* Relay blocks m - 1 and n have the same head, built on block p.          *)
SameHeads(p, n, m, l) ==
    /\ m \in 2..Len(relay) /\ l \in m..Len(relay)
    /\ Includes(n, p) /\ Includes(m - 1, p)
    /\ HeadsRoot(m - 1) = HeadsRoot(n)

JobOK ==
    \/ submitTask.pc \in {"next", "dead"} /\ submitTask.job = NoJob
    \/ \E p \in Parents(1..paraTask.block) :
          \/ submitTask.pc = "merkle" /\ submitTask.job = Job4(p)
          \/ submitTask.pc = "head" /\ submitTask.job = Job3(p)
          \/ /\ submitTask.pc = "leaf"
             /\ \E n \in 1..Len(relay) : Includes(n, p) /\ submitTask.job = Job2(p, n)
          \/ /\ submitTask.pc \in {"remove", "submit"}
             /\ \E n, m, l \in 1..Len(relay) :
                   SameHeads(p, n, m, l) /\ submitTask.job = Job1(p, n, m, l)

(* What was submitted. *)
SubmissionOK(s) ==
    /\ Coherent(s)
    /\ \E n \in 1..Len(relay), p \in 0..MaxPara :
          /\ Includes(n, p) /\ s.stage_4_root = MsgRoot(p)
          /\ \E m \in n + 1..Len(relay) : s.target = BeefyRoot(m)
SubmissionsOK ==
    /\ \E S : submissions \in Seq(S)
    /\ \A i \in 1..Len(submissions) : SubmissionOK(submissions[i])

(* Every block that was collected accounts for its root being in           *)
(* MSG_ROOT_MAP, in the hands of the submitter or submitted, once.         *)
Held(root) == IF root \in DOMAIN MSG_ROOT_MAP THEN 1 ELSE 0
Taken(root) == IF submitTask.pc = "submit" /\ submitTask.job.stage_4_root = root THEN 1 ELSE 0
CountOK ==
    \A root \in MsgRoots :
        Cardinality(SubmittedFor(root)) + Taken(root) + Held(root)
            <= Cardinality(CollectedFor(root))

MapsOK == RootsOK /\ MerkleOK /\ ChannelsOK /\ HeadsOK /\ LeavesOK
TasksOK == RelayTaskOK /\ ParaTaskOK /\ JobOK
RelayerInv ==
    /\ ChainOK /\ MapsOK /\ TasksOK /\ SubmissionsOK /\ CountOK
    /\ faults \in 0..MaxFaults

-----------------------------------------------------------------------------
(* Which steps change what. *)
LEMMA Frames ==
    ASSUME [Next]_vars
    PROVE  /\ RelayBlock \/ UNCHANGED relay
           /\ ParaBlock \/ UNCHANGED para
           /\ RelayInsertLeaf \/ UNCHANGED LEAVES_BEEFY_MMR_MAP
           /\ RelayInsertHead \/ UNCHANGED PARA_HEADERS_MAP
           /\ ParaInsertRoot \/ RemoveRoot \/ UNCHANGED MSG_ROOT_MAP
           /\ ParaInsertMerkle \/ UNCHANGED MSG_ROOT_CHANNEL_MERKLE_MAP
           /\ ParaMatchRoots \/ UNCHANGED CHANNEL_ROOT_PROOF_MAP
           /\ RelayCollector \/ RelayFault \/ UNCHANGED relayTask
           /\ ParaCollector \/ ParaFault \/ UNCHANGED paraTask
           /\ Submitter \/ SubmitFault \/ UNCHANGED submitTask
           /\ SubmitProof \/ UNCHANGED submissions
           /\ RelayFault \/ ParaFault \/ SubmitFault \/ UNCHANGED faults
<1>1. CASE RelayBlock
  BY Zenon, <1>1 DEF RelayBlock, relayMaps, paraMaps
<1>2. CASE ParaBlock
  BY Zenon, <1>2 DEF ParaBlock, relayMaps, paraMaps
<1>3. CASE RelayCollector
  BY <1>3 DEF RelayCollector, RelayNext, RelayInsertLeaf, RelayInsertHead, chains,
              relayMaps, paraMaps
<1>4. CASE ParaCollector
  BY Zenon, <1>4 DEF ParaCollector, ParaInsertRoot, ParaMatchRoots, ParaInsertMerkle, chains,
              relayMaps, paraMaps
<1>5. CASE Submitter
  BY Zenon, <1>5 DEF Submitter, PickRoot, LookupMerkle, LookupHead, LookupLeaf, RemoveRoot,
              SubmitProof, SubmitStep, chains, relayMaps, paraMaps
<1>6. CASE RelayFault
  BY <1>6 DEF RelayFault, chains, relayMaps, paraMaps
<1>7. CASE ParaFault
  BY <1>7 DEF ParaFault, chains, relayMaps, paraMaps
<1>8. CASE SubmitFault
  BY <1>8 DEF SubmitFault, SubmitStep, chains, relayMaps, paraMaps
<1>9. CASE UNCHANGED vars
  BY <1>9 DEF vars, chains, relayMaps, paraMaps
<1>10. QED
  BY <1>1, <1>2, <1>3, <1>4, <1>5, <1>6, <1>7, <1>8, <1>9 DEF Next

(* Sequences such as the two chains and the submissions: as functions. *)
LEMMA SeqFacts ==
    ASSUME NEW S, NEW s \in Seq(S)
    PROVE  Len(s) \in Nat /\ DOMAIN s = 1..Len(s) /\ s \in [1..Len(s) -> S]
  OBVIOUS

(* The elements of a chain. *)
LEMMA SeqElement ==
    ASSUME NEW S, NEW s \in Seq(S), NEW n \in 1..Len(s)
    PROVE  s[n] \in S
  OBVIOUS

(* A sequence over a set is one over any larger set. *)
LEMMA SeqSubset ==
    ASSUME NEW S, NEW T, S \subseteq T
    PROVE  Seq(S) \subseteq Seq(T)
  OBVIOUS

(* What a new block or submission changes, and what not. *)
LEMMA AppendFacts ==
    ASSUME NEW S, NEW s \in Seq(S), NEW e \in S
    PROVE  /\ Append(s, e) \in Seq(S)
           /\ Len(Append(s, e)) = Len(s) + 1
           /\ \A i \in 1..Len(s) : Append(s, e)[i] = s[i]
           /\ Append(s, e)[Len(s) + 1] = e
  OBVIOUS

(* The chains only grow. *)
LEMMA AppendAny ==
    ASSUME NEW S, NEW s \in Seq(S), NEW e
    PROVE  /\ Append(s, e) \in Seq(S \cup {e})
           /\ Len(Append(s, e)) = Len(s) + 1
           /\ \A i \in 1..Len(s) : Append(s, e)[i] = s[i]
           /\ Append(s, e)[Len(s) + 1] = e
<1>1. s \in Seq(S \cup {e})
  BY SeqSubset
<1>2. QED
  BY <1>1, AppendFacts

LEMMA ChainFacts ==
    ASSUME ChainOK
    PROVE  /\ Len(relay) \in Nat /\ Len(relay) \in 1..Len(relay)
           /\ Len(para) \in Nat /\ Len(para) <= MaxPara /\ MaxPara \in Nat
           /\ \A n \in 1..Len(relay) :
                 /\ relay[n] \in RelayBlocks
                 /\ relay[n].head \in 0..Len(para) /\ relay[n].head \in 0..MaxPara
                 /\ relay[n].other \in 0..MaxOther
           /\ \A b \in 1..Len(para) : para[b] \in ParaBlocks /\ para[b].parent \in 0..MaxPara
<1>1. Len(relay) \in Nat /\ Len(relay) >= 1
  BY SeqFacts DEF ChainOK
<1>2. Len(para) \in Nat /\ Len(para) <= MaxPara /\ MaxPara \in Nat
  BY RelayerAssumption DEF ChainOK
<1>3. ASSUME NEW n \in 1..Len(relay)
      PROVE  /\ relay[n] \in RelayBlocks
             /\ relay[n].head \in 0..Len(para) /\ relay[n].head \in 0..MaxPara
             /\ relay[n].other \in 0..MaxOther
  <2>1. relay[n] \in RelayBlocks
    BY SeqElement DEF ChainOK
  <2>2. relay[n].head <= Len(para)
    BY DEF ChainOK
  <2>3. relay[n].head \in 0..MaxPara /\ relay[n].other \in 0..MaxOther
    BY <2>1 DEF RelayBlocks
  <2>4. QED
    BY <1>2, <2>1, <2>2, <2>3
<1>4. ASSUME NEW b \in 1..Len(para)
      PROVE  para[b] \in ParaBlocks /\ para[b].parent \in 0..MaxPara
  <2>1. para[b] \in ParaBlocks
    BY SeqElement DEF ChainOK
  <2>2. QED
    BY <2>1 DEF ParaBlocks
<1>5. QED
  BY <1>1, <1>2, <1>3, <1>4

LEMMA ChainGrows ==
    ASSUME ChainOK, [Next]_vars
    PROVE  /\ ChainOK'
           /\ Len(relay) <= Len(relay')
           /\ \A n \in 1..Len(relay) : relay'[n] = relay[n]
           /\ Len(para) <= Len(para')
           /\ \A b \in 1..Len(para) : para'[b] = para[b]
<1>1. CASE RelayBlock
  <2>1. PICK head \in {ParaHead} \cup {b \in 1..Len(para) : para[b].parent = ParaHead},
             other \in {relay[Len(relay)].other, relay[Len(relay)].other + 1} :
          other <= MaxOther /\ relay' = Append(relay, [head |-> head, other |-> other])
    BY Zenon, <1>1 DEF RelayBlock
  <2>2. para' = para
    BY <1>1 DEF RelayBlock
  <2>3. ParaHead \in 0..Len(para)
    BY ChainFacts DEF ParaHead
  <2>4. head \in 0..Len(para)
    BY <2>3, ChainFacts
  <2>5. head \in 0..MaxPara
    BY <2>4, ChainFacts
  <2>6. other \in 0..MaxOther
    BY <2>1, ChainFacts, RelayerAssumption
  <2>7. [head |-> head, other |-> other] \in RelayBlocks
    BY <2>5, <2>6 DEF RelayBlocks
  <2>8. /\ relay' \in Seq(RelayBlocks)
        /\ Len(relay') = Len(relay) + 1
        /\ \A n \in 1..Len(relay) : relay'[n] = relay[n]
        /\ relay'[Len(relay) + 1] = [head |-> head, other |-> other]
    BY <2>1, <2>7, AppendFacts DEF ChainOK
  <2>9. ASSUME NEW n \in 1..Len(relay') PROVE relay'[n].head <= Len(para)
    <3>1. n \in 1..Len(relay) \/ n = Len(relay) + 1
      BY <2>8, ChainFacts
    <3>2. CASE n \in 1..Len(relay)
      BY <2>8, <3>2, ChainFacts
    <3>3. CASE n = Len(relay) + 1
      BY <2>4, <2>8, <3>3, ChainFacts
    <3>4. QED
      BY <3>1, <3>2, <3>3
  <2>10. Len(relay') >= 1 /\ Len(relay) <= Len(relay')
    BY <2>8, ChainFacts
  <2>11. /\ para' \in Seq(ParaBlocks) /\ Len(para') \in 1..MaxPara
         /\ Len(para) <= Len(para')
    BY <2>2, ChainFacts DEF ChainOK
  <2>12. ChainOK'
    BY <2>2, <2>8, <2>9, <2>10, <2>11 DEF ChainOK
  <2>13. QED
    BY <2>2, <2>8, <2>10, <2>11, <2>12
<1>2. CASE ParaBlock
  <2>1. PICK parent \in {ParaHead, Len(para)} :
        \E root \in NextRoots(parent) :
          para' = Append(para, [parent |-> parent, root |-> root,
                                seen |-> Block(parent).seen \cup {root}])
    BY Zenon, <1>2 DEF ParaBlock
  <2>2. PICK root \in NextRoots(parent) :
          para' = Append(para, [parent |-> parent, root |-> root,
                                seen |-> Block(parent).seen \cup {root}])
    BY Zenon, <2>1
  <2>3. relay' = relay /\ Len(para) < MaxPara
    BY <1>2 DEF ParaBlock
  <2>4. parent \in 0..Len(para)
    BY ChainFacts DEF ParaHead
  <2>5. Block(parent).seen \in SUBSET Nat
    <3>1. CASE parent = 0
      BY <3>1 DEF Block, Genesis
    <3>2. CASE parent # 0
      <4>1. para[parent] \in ParaBlocks
        BY <2>4, <3>2, ChainFacts
      <4>2. QED
        BY <3>2, <4>1 DEF Block, ParaBlocks
    <3>3. QED
      BY <3>1, <3>2
  <2>6. root \in Nat /\ parent \in 0..MaxPara
    BY <2>4, ChainFacts, RelayerAssumption DEF NextRoots
  <2>7. [parent |-> parent, root |-> root, seen |-> Block(parent).seen \cup {root}]
           \in ParaBlocks
    BY <2>5, <2>6 DEF ParaBlocks
  <2>8. /\ para' \in Seq(ParaBlocks) /\ Len(para') = Len(para) + 1
        /\ \A b \in 1..Len(para) : para'[b] = para[b]
    BY <2>2, <2>7, AppendFacts DEF ChainOK
  <2>9. Len(para') \in 1..MaxPara /\ Len(para) <= Len(para')
    BY <2>3, <2>8, ChainFacts
  <2>10. ASSUME NEW n \in 1..Len(relay) PROVE relay[n].head <= Len(para')
    BY <2>9, ChainFacts
  <2>11. ChainOK'
    BY <2>3, <2>8, <2>9, <2>10 DEF ChainOK
  <2>12. QED
    BY <2>3, <2>8, <2>9, <2>11, ChainFacts
<1>3. CASE UNCHANGED <<relay, para>>
  BY <1>3, ChainFacts DEF ChainOK
<1>4. QED
  <2>1. RelayBlock \/ ParaBlock \/ UNCHANGED <<relay, para>>
    BY Frames
  <2>2. QED
    BY <1>1, <1>2, <1>3, <2>1

(* So the commitments of the blocks there are do not change. *)
LEMMA Commitments ==
    ASSUME ChainOK, [Next]_vars
    PROVE  /\ \A n \in 0..Len(relay) : HeadsRoot(n)' = HeadsRoot(n)
           /\ \A n \in 1..Len(relay) :
                 /\ n \in 1..Len(relay')
                 /\ ParaHeadsProof(n)' = ParaHeadsProof(n)
                 /\ relay'[n].head = relay[n].head
<1>1. ASSUME NEW n \in 0..Len(relay) PROVE HeadsRoot(n)' = HeadsRoot(n)
  <2>1. n = 0 \/ n \in 1..Len(relay)
    BY ChainFacts
  <2>2. QED
    BY <2>1, ChainGrows DEF HeadsRoot
<1>2. ASSUME NEW n \in 1..Len(relay)
      PROVE  /\ n \in 1..Len(relay')
             /\ ParaHeadsProof(n)' = ParaHeadsProof(n)
             /\ relay'[n].head = relay[n].head
  <2>1. ChainOK' /\ Len(relay) <= Len(relay') /\ relay'[n] = relay[n]
    BY ChainGrows
  <2>2. Len(relay) \in Nat
    BY ChainFacts
  <2>3. Len(relay') \in Nat
    BY <2>1, SeqFacts DEF ChainOK
  <2>4. n \in 1..Len(relay') /\ n \in 0..Len(relay)
    BY <2>1, <2>2, <2>3
  <2>5. HeadsRoot(n)' = HeadsRoot(n)
    BY <1>1, <2>4
  <2>6. PICK head \in 0..Len(para) : head = relay[n].head
    BY ChainFacts
  <2>7. HeaderOf(head)' = HeaderOf(head)
    <3>1. head = 0 \/ (head # 0 /\ head \in 1..Len(para))
      BY ChainFacts
    <3>2. QED
      BY <3>1, ChainGrows DEF HeaderOf, Block, Genesis
  <2>8. relay'[n].head = head /\ ParaHeadsProof(n)' =
           [root |-> HeadsRoot(n)', leaf |-> HeaderOf(head)', path |-> TRUE, wide |-> FALSE]
    BY <2>1, <2>6 DEF ParaHeadsProof, HeaderOf, Block
  <2>9. ParaHeadsProof(n) =
           [root |-> HeadsRoot(n), leaf |-> HeaderOf(head), path |-> TRUE, wide |-> FALSE]
    BY <2>6 DEF ParaHeadsProof
  <2>10. QED
    BY <2>4, <2>5, <2>6, <2>7, <2>8, <2>9
<1>3. QED
  BY <1>1, <1>2

(* What is included or announced stays so. *)
LEMMA InclusionStays ==
    ASSUME ChainOK, [Next]_vars, NEW n, NEW p, Includes(n, p)
    PROVE  Includes(n, p)' /\ n \in 1..Len(relay') /\ p \in 0..MaxPara
<1>1. PICK head \in 1..Len(para) : head = relay[n].head /\ head # 0 /\ para[head].parent = p
  BY ChainFacts DEF Includes
<1>2. n \in 1..Len(relay') /\ relay'[n].head = head
  BY <1>1, Commitments DEF Includes
<1>3. para'[head].parent = p /\ p \in 0..MaxPara
  BY <1>1, ChainGrows, ChainFacts
<1>4. QED
  BY <1>1, <1>2, <1>3 DEF Includes

LEMMA ParentStays ==
    ASSUME ChainOK, [Next]_vars, NEW k \in Nat, k <= Len(para), NEW l \in Nat, k <= l,
           NEW p \in Parents(1..k)
    PROVE  /\ \E b \in 1..l : p = para'[b].parent
           /\ p \in 0..MaxPara /\ p \in Parents(1..Len(para))
<1>1. PICK b \in 1..k : p = para[b].parent
  BY DEF Parents
<1>2. b \in 1..Len(para) /\ b \in 1..l
  BY ChainFacts
<1>3. para'[b].parent = p /\ p \in 0..MaxPara
  BY <1>1, <1>2, ChainGrows, ChainFacts
<1>4. p \in Parents(1..Len(para))
  BY <1>1, <1>2 DEF Parents
<1>5. QED
  BY <1>2, <1>3, <1>4

LEMMA LeavesOKPreserved ==
    ASSUME ChainOK, LeavesOK, RelayTaskOK, [Next]_vars
    PROVE  LeavesOK'
<1> SUFFICES ASSUME NEW k \in DOMAIN LEAVES_BEEFY_MMR_MAP'
             PROVE  \E n \in 1..Len(relay') : \E m \in n..Len(relay') :
                       /\ k = <<HeadsRoot(n - 1)', n>>
                       /\ LEAVES_BEEFY_MMR_MAP'[k] =
                             [root |-> BeefyRoot(m), proof |-> BeefyProof(n)]
  BY Zenon DEF LeavesOK, BeefyProof, BeefyRoot, BeefyLeaf
<1>1. SUFFICES ASSUME NEW n \in 1..Len(relay), NEW m \in n..Len(relay),
                      k = <<HeadsRoot(n - 1), n>>,
                      LEAVES_BEEFY_MMR_MAP'[k] =
                          [root |-> BeefyRoot(m), proof |-> BeefyProof(n)]
               PROVE  /\ n \in 1..Len(relay') /\ m \in n..Len(relay')
                      /\ HeadsRoot(n - 1)' = HeadsRoot(n - 1)
  <2>1. CASE /\ k \in DOMAIN LEAVES_BEEFY_MMR_MAP
             /\ LEAVES_BEEFY_MMR_MAP'[k] = LEAVES_BEEFY_MMR_MAP[k]
    BY <1>1, <2>1 DEF LeavesOK
  <2>2. CASE RelayInsertLeaf /\ k = LeafKey(relayTask.block)
             /\ LEAVES_BEEFY_MMR_MAP'[k] = [root |-> relayTask.root,
                                            proof |-> BeefyProof(relayTask.block)]
    <3>1. relayTask.block \in 1..Len(relay)
      BY <2>2, ChainFacts DEF RelayInsertLeaf, RelayTaskOK
    <3>2. PICK m \in relayTask.block..Len(relay) : relayTask.root = BeefyRoot(m)
      BY <2>2 DEF RelayInsertLeaf, RelayTaskOK
    <3>3. k = <<HeadsRoot(relayTask.block - 1), relayTask.block>>
      BY <2>2 DEF LeafKey, LeafExtra, BeefyLeaf
    <3>4. QED
      BY <1>1, <2>2, <3>1, <3>2, <3>3
  <2>3. QED
    BY <2>1, <2>2, Frames DEF RelayInsertLeaf, TryInsert, Insert
<1>2. n - 1 \in 0..Len(relay)
  BY ChainFacts
<1>3. n \in 1..Len(relay') /\ m \in 1..Len(relay) /\ n \in Nat
  BY Commitments, ChainFacts
<1>4. m \in 1..Len(relay')
  BY <1>3, Commitments
<1>5. QED
  BY <1>2, <1>3, <1>4, Commitments

LEMMA HeadsOKPreserved ==
    ASSUME ChainOK, HeadsOK, RelayTaskOK, [Next]_vars
    PROVE  HeadsOK'
<1> SUFFICES ASSUME NEW k \in DOMAIN PARA_HEADERS_MAP'
             PROVE  \E n \in 1..Len(relay'), p \in 0..MaxPara :
                       /\ Includes(n, p)' /\ k = ChannelsRoot(p)
                       /\ PARA_HEADERS_MAP'[k] = ParaHeadsProof(n)'
  BY Zenon DEF HeadsOK, ChannelsRoot
<1>1. SUFFICES \E n \in 1..Len(relay), p \in 0..MaxPara :
                  /\ Includes(n, p) /\ k = ChannelsRoot(p)
                  /\ PARA_HEADERS_MAP'[k] = ParaHeadsProof(n)
  BY <1>1, Commitments, InclusionStays
<1>2. CASE k \in DOMAIN PARA_HEADERS_MAP /\ PARA_HEADERS_MAP'[k] = PARA_HEADERS_MAP[k]
  BY <1>2 DEF HeadsOK
<1>3. CASE /\ RelayInsertHead
           /\ k = HeadKey(ParaHeadsProof(relayTask.block)) /\ k # NoDigest
           /\ PARA_HEADERS_MAP'[k] = ParaHeadsProof(relayTask.block)
  <2>1. relayTask.block \in 1..Len(relay)
    BY <1>3, ChainFacts DEF RelayInsertHead, RelayTaskOK
  <2>2. PICK head \in 0..Len(para) : head = relay[relayTask.block].head
    BY <2>1, ChainFacts
  <2>3. head # 0 /\ k = ChannelsRoot(para[head].parent)
    BY <1>3, <2>2 DEF HeadKey, ParaHeadsProof, extract_xcmp_channel_root, HeaderOf, Block
  <2>4. para[head].parent \in 0..MaxPara
    BY <2>3, ChainFacts
  <2>5. Includes(relayTask.block, para[head].parent)
    BY <2>1, <2>2, <2>3 DEF Includes
  <2>6. QED
    BY <1>3, <2>1, <2>3, <2>4, <2>5
<1>4. QED
  BY <1>2, <1>3, Frames DEF RelayInsertHead, TryInsert, Insert

LEMMA RelayTaskOKPreserved ==
    ASSUME ChainOK, RelayTaskOK, [Next]_vars
    PROVE  RelayTaskOK'
<1>1. Len(relay) <= Len(relay') /\ Len(relay) \in Nat /\ Len(relay') \in Nat
  BY ChainGrows, ChainFacts, SeqFacts DEF ChainOK
<1>2. BeefyRootsSoFar \subseteq BeefyRootsSoFar'
  BY <1>1 DEF BeefyRootsSoFar, BeefyRoot
<1>3. CASE RelayNext
  <2>1. relayTask' = [pc |-> "leaf", block |-> relayTask.block + 1,
                      root |-> BeefyRoot(Len(relay))] /\ relay' = relay
    BY <1>3 DEF RelayNext, chains
  <2>2. relayTask.block + 1 \in 1..Len(relay)
    BY <1>1, <1>3 DEF RelayNext, RelayTaskOK
  <2>3. Len(relay) \in relayTask.block + 1..Len(relay) /\ Len(relay) \in 1..Len(relay)
    BY <1>1, <2>2
  <2>4. BeefyRoot(Len(relay)) \in BeefyRootsSoFar
    BY <2>3 DEF BeefyRootsSoFar
  <2>5. relayTask'.block \in 0..Len(relay') /\ relayTask'.block >= 1
    BY <1>1, <2>1, <2>2
  <2>6. QED
    BY <1>2, <2>1, <2>3, <2>4, <2>5 DEF RelayTaskOK
<1>4. CASE \E pc \in {"head", "next", "dead"} :
              /\ relayTask' = [relayTask EXCEPT !.pc = pc]
              /\ pc = "head" => relayTask.pc = "leaf"
  <2>1. PICK pc \in {"head", "next", "dead"} :
              /\ relayTask' = [relayTask EXCEPT !.pc = pc]
              /\ pc = "head" => relayTask.pc = "leaf"
    BY <1>4
  <2>2. /\ relayTask'.pc = pc /\ relayTask'.block = relayTask.block
        /\ relayTask' \in [pc : {"next", "leaf", "head", "dead"}, block : 0..Len(relay),
                           root : BeefyRootsSoFar \cup {Nil}]
    BY <2>1 DEF RelayTaskOK
  <2>3. relayTask' \in [pc : {"next", "leaf", "head", "dead"}, block : 0..Len(relay'),
                        root : BeefyRootsSoFar' \cup {Nil}]
    BY <1>1, <1>2, <2>2
  <2>4. QED
    BY <2>1, <2>2, <2>3 DEF RelayTaskOK
<1>5. CASE UNCHANGED relayTask
  <2>1. relayTask' \in [pc : {"next", "leaf", "head", "dead"}, block : 0..Len(relay'),
                        root : BeefyRootsSoFar' \cup {Nil}]
    BY <1>1, <1>2, <1>5 DEF RelayTaskOK
  <2>2. \A m \in relayTask.block..Len(relay) : m \in relayTask.block..Len(relay')
    BY <1>1 DEF RelayTaskOK
  <2>3. QED
    BY <1>5, <2>1, <2>2 DEF RelayTaskOK, BeefyRoot
<1>6. QED
  <2>1. CASE RelayInsertLeaf
    BY <1>4, <2>1 DEF RelayInsertLeaf
  <2>2. CASE RelayInsertHead
    BY <1>4, <2>2 DEF RelayInsertHead
  <2>3. CASE RelayFault
    BY <1>4, <2>3 DEF RelayFault
  <2>4. QED
    BY <1>3, <1>5, <2>1, <2>2, <2>3, Frames DEF RelayCollector

LEMMA ParaTaskOKPreserved ==
    ASSUME ChainOK, ParaTaskOK, [Next]_vars
    PROVE  /\ ParaTaskOK' /\ paraTask.block \in Nat /\ paraTask'.block \in Nat
           /\ IF ParaInsertRoot
              THEN /\ paraTask'.block = paraTask.block + 1 /\ paraTask.block < Len(para)
              ELSE paraTask'.block = paraTask.block
<1>1. Len(para) <= Len(para') /\ Len(para) \in Nat /\ Len(para') \in Nat
  BY ChainGrows, ChainFacts, SeqFacts DEF ChainOK
<1>2. paraTask.block \in 0..Len(para) /\ paraTask.block \in Nat
  BY <1>1 DEF ParaTaskOK
<1>3. CASE ParaInsertRoot
  <2>1. paraTask' = [pc |-> "match", block |-> paraTask.block + 1] /\ paraTask.block < Len(para)
    BY <1>3 DEF ParaInsertRoot
  <2>2. paraTask.block + 1 \in 0..Len(para') /\ paraTask.block + 1 >= 1
    BY <1>1, <1>2, <2>1
  <2>3. ParaTaskOK'
    BY <2>1, <2>2 DEF ParaTaskOK
  <2>4. QED
    BY <1>2, <1>3, <2>1, <2>2, <2>3
<1>4. ASSUME ~ParaInsertRoot PROVE ParaTaskOK' /\ paraTask'.block = paraTask.block
  <2>1. CASE \E pc \in {"next", "merkle", "dead"} :
                /\ paraTask' = [paraTask EXCEPT !.pc = pc]
                /\ pc = "merkle" => paraTask.pc = "match"
    <3>1. PICK pc \in {"next", "merkle", "dead"} :
             /\ paraTask' = [paraTask EXCEPT !.pc = pc]
             /\ pc = "merkle" => paraTask.pc = "match"
      BY <2>1
    <3>2. /\ paraTask'.pc = pc /\ paraTask'.block = paraTask.block
          /\ paraTask' \in [pc : {"next", "match", "merkle", "dead"}, block : 0..Len(para)]
      BY <3>1 DEF ParaTaskOK
    <3>3. paraTask' \in [pc : {"next", "match", "merkle", "dead"}, block : 0..Len(para')]
      BY <1>1, <3>2
    <3>4. QED
      BY <3>1, <3>2, <3>3 DEF ParaTaskOK
  <2>2. CASE UNCHANGED paraTask
    BY <1>1, <2>2 DEF ParaTaskOK
  <2>3. CASE ParaMatchRoots
    BY <2>1, <2>3 DEF ParaMatchRoots
  <2>4. CASE ParaInsertMerkle
    BY <2>1, <2>4 DEF ParaInsertMerkle
  <2>5. CASE ParaFault
    BY <2>1, <2>5 DEF ParaFault
  <2>6. QED
    BY <1>4, <2>2, <2>3, <2>4, <2>5, Frames DEF ParaCollector
<1>5. QED
  BY <1>2, <1>3, <1>4

(* Where the parents of the blocks collected so far are found next. *)
LEMMA CollectedStays ==
    ASSUME ChainOK, ParaTaskOK, [Next]_vars, NEW p \in Parents(1..paraTask.block)
    PROVE  /\ p \in Parents(1..paraTask.block)' /\ p \in 0..MaxPara
           /\ p \in Parents(1..Len(para))
<1>1. /\ paraTask.block \in Nat /\ paraTask.block <= Len(para)
      /\ paraTask'.block \in Nat /\ paraTask.block <= paraTask'.block
  BY ParaTaskOKPreserved, ChainFacts DEF ParaTaskOK
<1>2. PICK k \in Nat : k = paraTask.block
  BY <1>1
<1>3. PICK l \in Nat : l = paraTask'.block
  BY <1>1
<1>4. k <= Len(para) /\ k <= l
  BY <1>1, <1>2, <1>3
<1>5. p \in Parents(1..k)
  BY <1>2
<1>6. /\ \E b \in 1..l : p = para'[b].parent
      /\ p \in 0..MaxPara /\ p \in Parents(1..Len(para))
  BY Zenon, <1>4, <1>5, ParentStays
<1>7. QED
  BY Zenon, <1>3, <1>6 DEF Parents

LEMMA AnnouncedStays ==
    ASSUME ChainOK, [Next]_vars, NEW p \in Parents(1..Len(para))
    PROVE  p \in Parents(1..Len(para))'
<1>1. Len(para) \in Nat /\ Len(para') \in Nat /\ Len(para) <= Len(para')
  BY ChainGrows, ChainFacts, SeqFacts DEF ChainOK
<1>2. \E b \in 1..Len(para') : p = para'[b].parent
  BY <1>1, ParentStays
<1>3. QED
  BY Zenon, <1>2 DEF Parents

(* The block the collector is at. *)
LEMMA CollectorAt ==
    ASSUME ChainOK, ParaTaskOK, paraTask.pc \in {"match", "merkle"}
    PROVE  para[paraTask.block].parent \in Parents(1..Len(para))
<1>1. paraTask.block \in 1..Len(para)
  BY ChainFacts DEF ParaTaskOK
<1>2. QED
  BY <1>1 DEF Parents

LEMMA MerkleOKPreserved ==
    ASSUME ChainOK, MerkleOK, ParaTaskOK, [Next]_vars
    PROVE  MerkleOK'
<1> SUFFICES ASSUME NEW k \in DOMAIN MSG_ROOT_CHANNEL_MERKLE_MAP'
             PROVE  \E p \in Parents(1..Len(para))' :
                       k = MsgRoot(p) /\ MSG_ROOT_CHANNEL_MERKLE_MAP'[k] = ChannelProof(p)
  BY Zenon DEF MerkleOK, MsgRoot, ChannelProof, ChannelsRoot
<1>1. SUFFICES \E p \in Parents(1..Len(para)) :
                  k = MsgRoot(p) /\ MSG_ROOT_CHANNEL_MERKLE_MAP'[k] = ChannelProof(p)
  BY Zenon, <1>1, AnnouncedStays
<1>2. CASE /\ k \in DOMAIN MSG_ROOT_CHANNEL_MERKLE_MAP
           /\ MSG_ROOT_CHANNEL_MERKLE_MAP'[k] = MSG_ROOT_CHANNEL_MERKLE_MAP[k]
  BY Zenon, <1>2 DEF MerkleOK
<1>3. ASSUME NEW p, p = para[paraTask.block].parent, ParaInsertMerkle,
             k = MsgRoot(p), MSG_ROOT_CHANNEL_MERKLE_MAP'[k] = ChannelProof(p)
      PROVE  \E q \in Parents(1..Len(para)) :
                k = MsgRoot(q) /\ MSG_ROOT_CHANNEL_MERKLE_MAP'[k] = ChannelProof(q)
  <2>1. p \in Parents(1..Len(para))
    BY <1>3, CollectorAt DEF ParaInsertMerkle
  <2>2. QED
    BY Zenon, <1>3, <2>1
<1>4. QED
  BY <1>2, <1>3, Frames DEF ParaInsertMerkle, TryInsert, Insert

LEMMA ChannelsOKPreserved ==
    ASSUME ChainOK, ChannelsOK, ParaTaskOK, [Next]_vars
    PROVE  ChannelsOK'
<1> SUFFICES ASSUME NEW k \in DOMAIN CHANNEL_ROOT_PROOF_MAP'
             PROVE  \E p \in Parents(1..Len(para))' : k = ChannelsRoot(p)
  BY Zenon DEF ChannelsOK, ChannelsRoot
<1>1. SUFFICES \E p \in Parents(1..Len(para)) : k = ChannelsRoot(p)
  BY Zenon, <1>1, AnnouncedStays
<1>2. CASE k \in DOMAIN CHANNEL_ROOT_PROOF_MAP
  BY Zenon, <1>2 DEF ChannelsOK
<1>3. CASE ParaMatchRoots /\ k = ChannelsRoot(para[paraTask.block].parent)
  <2>1. para[paraTask.block].parent \in Parents(1..Len(para))
    BY <1>3, CollectorAt DEF ParaMatchRoots
  <2>2. QED
    BY Zenon, <1>3, <2>1
<1>4. QED
  BY <1>2, <1>3, Frames DEF ParaMatchRoots, Insert, ChannelProof

LEMMA RootsOKPreserved ==
    ASSUME ChainOK, RootsOK, ParaTaskOK, [Next]_vars
    PROVE  RootsOK'
<1> SUFFICES ASSUME NEW k \in DOMAIN MSG_ROOT_MAP'
             PROVE  \E p \in Parents(1..paraTask.block)' :
                       k = MsgRoot(p) /\ MSG_ROOT_MAP'[k] = MsgProof(p)
  BY Zenon DEF RootsOK, MsgRoot, MsgProof, Messages
<1>1. CASE k \in DOMAIN MSG_ROOT_MAP /\ MSG_ROOT_MAP'[k] = MSG_ROOT_MAP[k]
  <2>1. PICK p \in Parents(1..paraTask.block) : k = MsgRoot(p) /\ MSG_ROOT_MAP[k] = MsgProof(p)
    BY Zenon, <1>1 DEF RootsOK
  <2>2. p \in Parents(1..paraTask.block)'
    BY Zenon, CollectedStays
  <2>3. QED
    BY Zenon, <1>1, <2>1, <2>2
<1>2. ASSUME NEW p, p = para[paraTask.block + 1].parent, ParaInsertRoot,
             k = MsgRoot(p), MSG_ROOT_MAP'[k] = MsgProof(p)
      PROVE  \E q \in Parents(1..paraTask.block)' :
                k = MsgRoot(q) /\ MSG_ROOT_MAP'[k] = MsgProof(q)
  <2>1. /\ paraTask.block \in Nat /\ paraTask.block < Len(para)
        /\ paraTask'.block = paraTask.block + 1
    BY <1>2, ParaTaskOKPreserved
  <2>2. paraTask.block + 1 \in 1..Len(para) /\ paraTask.block + 1 \in 1..paraTask'.block
    BY <2>1, ChainFacts
  <2>3. p = para'[paraTask.block + 1].parent
    BY <1>2, <2>2, ChainGrows
  <2>4. p \in Parents(1..paraTask.block)'
    BY <2>2, <2>3 DEF Parents
  <2>5. QED
    BY Zenon, <1>2, <2>4
<1>3. CASE RemoveRoot
  BY <1>1, <1>3 DEF RemoveRoot, RemoveKey
<1>4. QED
  BY <1>1, <1>2, <1>3, Frames DEF ParaInsertRoot, TryInsert, Insert

-----------------------------------------------------------------------------
(* The locals of generate_xcmp_proof. *)
LEMMA JobFields ==
    ASSUME NEW p, NEW s3, NEW s2
    PROVE  /\ JobWith(p, s3, s2).stage_4_root = MsgRoot(p)
           /\ JobWith(p, s3, s2).stage_3 = s3
           /\ JobWith(p, s3, s2).stage_2 = s2
           /\ JobWith(p, s3, s2).target = Nil
BY DEF JobWith

LEMMA CompleteJobFields ==
    ASSUME NEW p, NEW n, NEW m, NEW l
    PROVE  /\ Job1(p, n, m, l).stage_4_root = MsgRoot(p)
           /\ Job1(p, n, m, l).stage_4 = MsgProof(p)
           /\ Job1(p, n, m, l).stage_3 = ChannelProof(p)
           /\ Job1(p, n, m, l).stage_2 = ParaHeadsProof(n)
           /\ Job1(p, n, m, l).stage_1 = BeefyProof(m)
           /\ Job1(p, n, m, l).target = BeefyRoot(l)
BY DEF Job1, Job2, JobWith

LEMMA Stage4Found ==
    ASSUME NEW p
    PROVE  [NoJob EXCEPT !.stage_4_root = MsgRoot(p), !.stage_4 = MsgProof(p)] = Job4(p)
<1> DEFINE R(proof) == [stage_4_root |-> MsgRoot(p), stage_4 |-> proof, stage_3 |-> Nil,
                        stage_2 |-> Nil, stage_1 |-> Nil, target |-> Nil]
<1>1. [NoJob EXCEPT !.stage_4_root = MsgRoot(p)] = R(Nil)
  BY DEF NoJob
<1>2. [R(Nil) EXCEPT !.stage_4 = MsgProof(p)] = R(MsgProof(p))
  OBVIOUS
<1>3. [NoJob EXCEPT !.stage_4_root = MsgRoot(p), !.stage_4 = MsgProof(p)] =
         [[NoJob EXCEPT !.stage_4_root = MsgRoot(p)] EXCEPT !.stage_4 = MsgProof(p)]
  OBVIOUS
<1>4. R(MsgProof(p)) = Job4(p)
  BY DEF Job4, JobWith
<1> HIDE DEF R
<1>5. QED
  BY Zenon, <1>1, <1>2, <1>3, <1>4

LEMMA Stage3Found ==
    ASSUME NEW p
    PROVE  [Job4(p) EXCEPT !.stage_3 = ChannelProof(p)] = Job3(p)
BY DEF Job4, Job3, JobWith

LEMMA Stage2Found ==
    ASSUME NEW p, NEW n
    PROVE  [Job3(p) EXCEPT !.stage_2 = ParaHeadsProof(n)] = Job2(p, n)
BY DEF Job3, Job2, JobWith

LEMMA JobConstant ==
    ASSUME NEW p
    PROVE  /\ MsgRoot(p)' = MsgRoot(p) /\ MsgProof(p)' = MsgProof(p)
           /\ ChannelProof(p)' = ChannelProof(p) /\ Nil' = Nil
           /\ NoJob' = NoJob
BY DEF MsgRoot, MsgProof, Messages, ChannelProof, ChannelsRoot, NoJob

(* The locals stay those of blocks built on p while the chains grow. *)
LEMMA JobFrame ==
    ASSUME ChainOK, ParaTaskOK, [Next]_vars,
           \/ submitTask'.pc \in {"next", "dead"} /\ submitTask'.job = NoJob
           \/ \E p \in Parents(1..paraTask.block) :
                \/ submitTask'.pc = "merkle" /\ submitTask'.job = Job4(p)
                \/ submitTask'.pc = "head" /\ submitTask'.job = Job3(p)
                \/ /\ submitTask'.pc = "leaf"
                   /\ \E n \in 1..Len(relay) : Includes(n, p) /\ submitTask'.job = Job2(p, n)
                \/ /\ submitTask'.pc \in {"remove", "submit"}
                   /\ \E n, m, l \in 1..Len(relay) :
                         SameHeads(p, n, m, l) /\ submitTask'.job = Job1(p, n, m, l)
    PROVE  JobOK'
<1>1. CASE submitTask'.pc \in {"next", "dead"} /\ submitTask'.job = NoJob
  BY <1>1 DEF JobOK, NoJob
<1>2. ASSUME NEW p \in Parents(1..paraTask.block) PROVE p \in Parents(1..paraTask.block)'
  BY Zenon, CollectedStays
<1>3. ASSUME NEW p, NEW n \in 1..Len(relay)
      PROVE  Job2(p, n)' = Job2(p, n) /\ n \in 1..Len(relay') /\ relay'[n].head = relay[n].head
  <2>1. ParaHeadsProof(n)' = ParaHeadsProof(n)
    BY Commitments
  <2>2. Job2(p, n)' = Job2(p, n)
    BY <2>1, JobConstant DEF Job2, JobWith
  <2>3. QED
    BY <2>2, Commitments
<1>4. ASSUME NEW p \in Parents(1..paraTask.block), submitTask'.pc = "merkle",
             submitTask'.job = Job4(p)
      PROVE  JobOK'
  <2>1. Job4(p)' = Job4(p)
    BY JobConstant DEF Job4, JobWith
  <2>2. QED
    BY Zenon, <1>2, <1>4, <2>1 DEF JobOK
<1>5. ASSUME NEW p \in Parents(1..paraTask.block), submitTask'.pc = "head",
             submitTask'.job = Job3(p)
      PROVE  JobOK'
  <2>1. Job3(p)' = Job3(p)
    BY JobConstant DEF Job3, JobWith
  <2>2. QED
    BY Zenon, <1>2, <1>5, <2>1 DEF JobOK
<1>6. ASSUME NEW p \in Parents(1..paraTask.block), submitTask'.pc = "leaf",
             NEW n \in 1..Len(relay), Includes(n, p), submitTask'.job = Job2(p, n)
      PROVE  JobOK'
  <2>1. n \in 1..Len(relay') /\ Includes(n, p)' /\ submitTask'.job = Job2(p, n)'
    BY Zenon, <1>3, <1>6, InclusionStays
  <2>2. QED
    BY Zenon, <1>2, <1>6, <2>1 DEF JobOK
<1>7. ASSUME NEW p \in Parents(1..paraTask.block), submitTask'.pc \in {"remove", "submit"},
             NEW n \in 1..Len(relay), NEW m \in 1..Len(relay), NEW l \in 1..Len(relay),
             SameHeads(p, n, m, l), submitTask'.job = Job1(p, n, m, l)
      PROVE  JobOK'
  <2>1. Job1(p, n, m, l)' = Job1(p, n, m, l)
    <3>1. BeefyProof(m)' = BeefyProof(m) /\ BeefyRoot(l)' = BeefyRoot(l)
      BY DEF BeefyProof, BeefyRoot, BeefyLeaf
    <3>2. QED
      BY Zenon, <1>3, <3>1 DEF Job1
  <2>2. n \in 1..Len(relay') /\ m \in 1..Len(relay') /\ l \in 1..Len(relay')
    BY Zenon, <1>3
  <2>3. Len(relay) \in Nat /\ Len(relay') \in Nat /\ Len(relay) <= Len(relay')
    BY ChainGrows, ChainFacts, SeqFacts DEF ChainOK
  <2>4. m \in 2..Len(relay) /\ l \in m..Len(relay)
    BY Zenon, <1>7 DEF SameHeads
  <2>5. m - 1 \in 0..Len(relay) /\ n \in 0..Len(relay)
    BY <2>3, <2>4
  <2>6. m \in 2..Len(relay') /\ l \in m..Len(relay')
    BY <2>3, <2>4
  <2>7. HeadsRoot(m - 1)' = HeadsRoot(m - 1) /\ HeadsRoot(n)' = HeadsRoot(n)
    BY <2>5, Commitments
  <2>8. Includes(n, p)' /\ Includes(m - 1, p)' /\ HeadsRoot(m - 1)' = HeadsRoot(n)'
    BY Zenon, <1>7, <2>7, InclusionStays DEF SameHeads
  <2>9. SameHeads(p, n, m, l)'
    BY Zenon, <2>6, <2>8 DEF SameHeads
  <2>10. QED
    BY Zenon, <1>2, <1>7, <2>1, <2>2, <2>9 DEF JobOK
<1>8. QED
  BY Zenon, <1>1, <1>4, <1>5, <1>6, <1>7

(* A lookup finds what belongs to the head whose stages it has. *)
LEMMA FoundLeaf ==
    ASSUME ChainOK, LeavesOK,
           NEW p, NEW n \in 1..Len(relay), Includes(n, p),
           NEW k \in BeefyEntries(HeadsRoot(n))
    PROVE  \E m, l \in 1..Len(relay) :
              /\ SameHeads(p, n, m, l)
              /\ LEAVES_BEEFY_MMR_MAP[k].proof = BeefyProof(m)
              /\ LEAVES_BEEFY_MMR_MAP[k].root = BeefyRoot(l)
<1>1. k \in DOMAIN LEAVES_BEEFY_MMR_MAP /\ k[1] = HeadsRoot(n)
  BY DEF BeefyEntries
<1>2. PICK m \in 1..Len(relay) : \E l \in m..Len(relay) :
        /\ k = <<HeadsRoot(m - 1), m>>
        /\ LEAVES_BEEFY_MMR_MAP[k] = [root |-> BeefyRoot(l), proof |-> BeefyProof(m)]
  BY <1>1 DEF LeavesOK
<1>3. PICK l \in m..Len(relay) :
        /\ k = <<HeadsRoot(m - 1), m>>
        /\ LEAVES_BEEFY_MMR_MAP[k] = [root |-> BeefyRoot(l), proof |-> BeefyProof(m)]
  BY <1>2
<1>4. HeadsRoot(m - 1) = HeadsRoot(n)
  BY <1>1, <1>3
<1>5. HeadsRoot(n) = <<"heads", relay[n].head, relay[n].other>> /\ relay[n].head # 0
  <2>1. n # 0
    BY ChainFacts
  <2>2. QED
    BY <2>1 DEF HeadsRoot, Includes
<1>6. m - 1 # 0
  <2>1. ASSUME m - 1 = 0 PROVE FALSE
    <3>1. HeadsRoot(m - 1) = <<"heads", 0, 0>>
      BY <2>1 DEF HeadsRoot
    <3>2. QED
      BY <1>4, <1>5, <3>1
  <2>2. QED
    BY <2>1
<1>7. HeadsRoot(m - 1) = <<"heads", relay[m - 1].head, relay[m - 1].other>>
  BY <1>6 DEF HeadsRoot
<1>8. relay[m - 1].head = relay[n].head
  BY <1>4, <1>5, <1>7
<1>9. m \in 2..Len(relay) /\ l \in 1..Len(relay) /\ m - 1 \in 1..Len(relay)
  BY <1>6, ChainFacts
<1>10. Includes(m - 1, p)
  BY <1>8, <1>9 DEF Includes
<1>11. SameHeads(p, n, m, l)
  BY <1>4, <1>9, <1>10 DEF SameHeads
<1>12. QED
  BY <1>3, <1>9, <1>11

LEMMA JobOKPreserved ==
    ASSUME ChainOK, MapsOK, TasksOK, [Next]_vars
    PROVE  JobOK'
<1> USE DEF TasksOK, MapsOK
<1>1. CASE UNCHANGED submitTask
  BY Zenon, <1>1, JobFrame DEF JobOK
<1>2. ASSUME submitTask'.pc \in {"next", "dead"} /\ submitTask'.job = NoJob PROVE JobOK'
  BY Zenon, <1>2, JobFrame
<1>3. CASE GiveUp
  BY <1>2, <1>3 DEF GiveUp
<1>4. CASE PickRoot
  <2>1. PICK root \in DOMAIN MSG_ROOT_MAP :
          submitTask' = [pc |-> "merkle", job |-> [NoJob EXCEPT !.stage_4_root = root,
                                                   !.stage_4 = MSG_ROOT_MAP[root]]]
    BY Zenon, <1>4 DEF PickRoot, Proceed
  <2>2. PICK p \in Parents(1..paraTask.block) :
          root = MsgRoot(p) /\ MSG_ROOT_MAP[root] = MsgProof(p)
    BY Zenon DEF RootsOK
  <2>3. submitTask'.pc = "merkle" /\ submitTask'.job = Job4(p)
    BY Zenon, <2>1, <2>2, Stage4Found
  <2>4. QED
    BY Zenon, <2>3, JobFrame
<1>5. CASE LookupMerkle /\ ~GiveUp
  <2>1. PICK p \in Parents(1..paraTask.block) : submitTask.job = Job4(p)
    BY <1>5 DEF LookupMerkle, JobOK
  <2>2. /\ MsgRoot(p) \in DOMAIN MSG_ROOT_CHANNEL_MERKLE_MAP
        /\ submitTask' = [pc |-> "head", job |-> [Job4(p) EXCEPT
                               !.stage_3 = MSG_ROOT_CHANNEL_MERKLE_MAP[MsgRoot(p)]]]
    <3>1. submitTask.job.stage_4_root = MsgRoot(p)
      BY <2>1, JobFields DEF Job4
    <3>2. QED
      BY <1>5, <2>1, <3>1 DEF LookupMerkle, Proceed
  <2>3. PICK q \in Parents(1..Len(para)) :
          /\ MsgRoot(p) = MsgRoot(q)
          /\ MSG_ROOT_CHANNEL_MERKLE_MAP[MsgRoot(p)] = ChannelProof(q)
    BY Zenon, <2>2 DEF MerkleOK
  <2>4. p = q
    BY <2>3 DEF MsgRoot
  <2>5. submitTask'.pc = "head" /\ submitTask'.job = Job3(p)
    BY Zenon, <2>2, <2>3, <2>4, Stage3Found
  <2>6. QED
    BY Zenon, <2>5, JobFrame
<1>6. CASE LookupHead /\ ~GiveUp
  <2>1. PICK p \in Parents(1..paraTask.block) : submitTask.job = Job3(p)
    BY <1>6 DEF LookupHead, JobOK
  <2>2. submitTask.job.stage_3.root = ChannelsRoot(p)
    <3>1. Job3(p).stage_3 = ChannelProof(p)
      BY JobFields DEF Job3
    <3>2. QED
      BY <2>1, <3>1 DEF ChannelProof
  <2>3. /\ ChannelsRoot(p) \in DOMAIN PARA_HEADERS_MAP
        /\ submitTask' = [pc |-> "leaf", job |-> [Job3(p) EXCEPT
                               !.stage_2 = PARA_HEADERS_MAP[ChannelsRoot(p)]]]
    BY <1>6, <2>1, <2>2 DEF LookupHead, Proceed
  <2>4. PICK n \in 1..Len(relay), q \in 0..MaxPara :
          /\ Includes(n, q) /\ ChannelsRoot(p) = ChannelsRoot(q)
          /\ PARA_HEADERS_MAP[ChannelsRoot(p)] = ParaHeadsProof(n)
    BY Zenon, <2>3 DEF HeadsOK
  <2>5. p = q
    BY <2>4 DEF ChannelsRoot
  <2>6. submitTask'.pc = "leaf" /\ submitTask'.job = Job2(p, n)
    BY Zenon, <2>3, <2>4, Stage2Found
  <2>7. QED
    BY Zenon, <2>4, <2>5, <2>6, JobFrame
<1>7. CASE LookupLeaf /\ ~GiveUp
  <2>1. PICK p \in Parents(1..paraTask.block) :
          \E n \in 1..Len(relay) : Includes(n, p) /\ submitTask.job = Job2(p, n)
    BY Zenon, <1>7 DEF LookupLeaf, JobOK
  <2>2. PICK n \in 1..Len(relay) : Includes(n, p) /\ submitTask.job = Job2(p, n)
    BY <2>1
  <2>3. submitTask.job.stage_2.root = HeadsRoot(n)
    <3>1. Job2(p, n).stage_2 = ParaHeadsProof(n)
      BY SMTT(30), JobFields DEF Job2
    <3>2. QED
      BY <2>2, <3>1 DEF ParaHeadsProof
  <2>4. PICK k \in BeefyEntries(HeadsRoot(n)) :
          submitTask' = [pc |-> "remove", job |-> [Job2(p, n) EXCEPT
                            !.stage_1 = LEAVES_BEEFY_MMR_MAP[k].proof,
                            !.target = LEAVES_BEEFY_MMR_MAP[k].root]]
    BY Zenon, <1>7, <2>2, <2>3 DEF LookupLeaf, Proceed
  <2>5. PICK m, l \in 1..Len(relay) :
          /\ SameHeads(p, n, m, l)
          /\ LEAVES_BEEFY_MMR_MAP[k].proof = BeefyProof(m)
          /\ LEAVES_BEEFY_MMR_MAP[k].root = BeefyRoot(l)
    BY Zenon, <2>2, FoundLeaf
  <2>6. submitTask'.pc = "remove" /\ submitTask'.job = Job1(p, n, m, l)
    BY <2>4, <2>5 DEF Job1
  <2>7. QED
    BY Zenon, <2>5, <2>6, JobFrame
<1>8. CASE RemoveRoot /\ ~GiveUp
  <2>1. submitTask.pc = "remove" /\ submitTask' = [pc |-> "submit", job |-> submitTask.job]
    BY <1>8 DEF RemoveRoot, Proceed
  <2>2. PICK p \in Parents(1..paraTask.block) : \E n, m, l \in 1..Len(relay) :
          SameHeads(p, n, m, l) /\ submitTask.job = Job1(p, n, m, l)
    BY <2>1 DEF JobOK
  <2>3. submitTask'.pc = "submit" /\ submitTask'.job = submitTask.job
    BY <2>1
  <2>4. QED
    BY Zenon, <2>2, <2>3, JobFrame
<1>9. CASE SubmitFault
  BY <1>2, <1>9 DEF SubmitFault, GiveUp
<1>10. QED
  <2>1. CASE Submitter
    BY Zenon, <1>3, <1>4, <1>5, <1>6, <1>7, <1>8, <2>1 DEF Submitter, SubmitProof
  <2>2. QED
    BY <1>1, <1>9, <2>1, Frames
=============================================================================
