---------------------------- MODULE RelayerProofs ---------------------------
(***************************************************************************)
(* Proofs about Relayer, for any number of blocks and failed calls: the    *)
(* rest of the inductive invariant, which is about submissions; the        *)
(* properties that follow from it; and that Relayer implements Delivery.   *)
(***************************************************************************)
EXTENDS RelayerJobProofs, FiniteSetTheorems

(* A complete proof is coherent: no stage but the first can be refused,    *)
(* and that one only if it is of an older block than the targeted root.    *)
LEMMA CompleteProof ==
    ASSUME ChainOK, NEW p, NEW n, NEW m, NEW l, SameHeads(p, n, m, l), NEW seen
    PROVE  LET proof == JobProof(Job1(p, n, m, l))
               verdict == XcmpVerdict(seen, BeefyRoot(l), proof)
           IN  /\ verdict \in CoherentVerdicts
               /\ verdict = "XcmpStage1ProofDoesntVerify" => proof.stage_1.of # BeefyRoot(l)
<1> DEFINE proof == JobProof(Job1(p, n, m, l))
<1> HIDE DEF proof
<1>1. /\ proof.stage_1 = BeefyProof(m) /\ proof.stage_2 = IntoParaProof(ParaHeadsProof(n))
      /\ proof.stage_3 = IntoChannelProof(ChannelProof(p)) /\ proof.stage_4 = MsgProof(p)
  <2>1. proof = [stage_1 |-> Job1(p, n, m, l).stage_1,
                 stage_2 |-> IntoParaProof(Job1(p, n, m, l).stage_2),
                 stage_3 |-> IntoChannelProof(Job1(p, n, m, l).stage_3),
                 stage_4 |-> Job1(p, n, m, l).stage_4]
    BY DEF proof, JobProof
  <2>2. /\ Job1(p, n, m, l).stage_1 = BeefyProof(m)
        /\ Job1(p, n, m, l).stage_2 = ParaHeadsProof(n)
        /\ Job1(p, n, m, l).stage_3 = ChannelProof(p)
        /\ Job1(p, n, m, l).stage_4 = MsgProof(p)
    BY CompleteJobFields
  <2>3. QED
    BY <2>1, <2>2
<1>2. PICK head \in 1..Len(para) : /\ head = relay[n].head /\ head # 0
                                   /\ para[head].parent = p
  BY ChainFacts DEF SameHeads, Includes
<1>3. n \in 1..Len(relay) /\ n # 0 /\ Len(relay) \in Nat
  BY ChainFacts DEF SameHeads, Includes
<1>4. /\ proof.stage_2.root = HeadsRoot(n) /\ proof.stage_2.leaf = HeaderOf(head)
      /\ proof.stage_2.path = TRUE /\ proof.stage_2.wide = FALSE
  BY SMTT(30), <1>1, <1>2 DEF IntoParaProof, ParaHeadsProof
<1>5. /\ proof.stage_3.root = ChannelsRoot(p) /\ proof.stage_3.leaf = MsgRoot(p)
      /\ proof.stage_3.path = TRUE /\ proof.stage_3.wide = FALSE
  BY <1>1 DEF IntoChannelProof, ChannelProof
<1>6. HeadsRoot(n) = <<"heads", head, relay[n].other>>
  BY <1>2, <1>3 DEF HeadsRoot
<1>7. head \in 0..MaxPara /\ relay[n].other \in 0..MaxOther /\ p \in 0..MaxPara
  BY <1>2, <1>3, ChainFacts
<1>8. Len(proof.stage_1.leaves) = 1 /\ LeafExtra(proof.stage_1.leaves[1]) = proof.stage_2.root
  <2>1. proof.stage_1.leaves = <<BeefyLeaf(m)>>
    BY <1>1 DEF BeefyProof
  <2>2. LeafExtra(BeefyLeaf(m)) = HeadsRoot(m - 1)
    BY DEF LeafExtra, BeefyLeaf
  <2>3. QED
    BY SMTT(30), <1>4, <2>1, <2>2 DEF SameHeads
<1>9. proof.stage_2.root # Undecodable
  BY <1>4, <1>6, <1>7, RelayerAssumption
<1>10. verify_proof(proof.stage_2)
  BY <1>4, <1>6 DEF verify_proof, TreeHas
<1>11. /\ extract_xcmp_channel_root(proof.stage_2.leaf) = ChannelsRoot(p)
       /\ ChannelsRoot(p) # Undecodable /\ ChannelsRoot(p) # NoDigest
  <2>1. HeaderOf(head) = <<"header", head, p>>
    BY <1>2 DEF HeaderOf, Block
  <2>2. QED
    BY <1>2, <1>4, <1>7, <2>1, RelayerAssumption DEF extract_xcmp_channel_root, ChannelsRoot
<1>12. verify_proof(proof.stage_3)
  BY <1>5 DEF verify_proof, TreeHas, ChannelsRoot, MsgRoot
<1>13. verify_leaves_proof(proof.stage_3.leaf, proof.stage_4)
  <2>1. MmrHas(MsgRoot(p), Messages(p))
    BY Zenon, <1>2 DEF MmrHas
  <2>2. proof.stage_4.of = MsgRoot(p) /\ proof.stage_4.leaves = <<Messages(p)>>
    BY <1>1 DEF MsgProof
  <2>3. \A i \in 1..Len(proof.stage_4.leaves) : proof.stage_4.leaves[i] = Messages(p)
    BY SMTT(30), <2>2
  <2>4. QED
    BY <1>5, <2>1, <2>2, <2>3 DEF verify_leaves_proof
<1>14. XcmpVerdict(seen, BeefyRoot(l), proof) \in CoherentVerdicts
  BY <1>4, <1>5, <1>8, <1>9, <1>10, <1>11, <1>12, <1>13
  DEF XcmpVerdict, ChannelRootMatches, CoherentVerdicts
<1>15. proof.stage_1.of = BeefyRoot(l) => verify_leaves_proof(BeefyRoot(l), proof.stage_1)
  <2> SUFFICES ASSUME proof.stage_1.of = BeefyRoot(l)
               PROVE  verify_leaves_proof(BeefyRoot(l), proof.stage_1)
    OBVIOUS
  <2>1. proof.stage_1.of = BeefyRoot(m) /\ proof.stage_1.leaves = <<BeefyLeaf(m)>>
    BY <1>1 DEF BeefyProof
  <2>2. m \in 1..Len(relay) /\ m \in 1..m
    BY <1>3 DEF SameHeads
  <2>3. MmrHas(BeefyRoot(m), BeefyLeaf(m))
    BY Zenon, <2>2 DEF MmrHas
  <2>4. \A i \in 1..Len(proof.stage_1.leaves) : proof.stage_1.leaves[i] = BeefyLeaf(m)
    BY SMTT(30), <2>1
  <2>5. QED
    BY <2>1, <2>3, <2>4 DEF verify_leaves_proof
<1>16. XcmpVerdict(seen, BeefyRoot(l), proof) = "XcmpStage1ProofDoesntVerify" =>
          ~verify_leaves_proof(BeefyRoot(l), proof.stage_1)
  BY DEF XcmpVerdict
<1>17. QED
  BY <1>14, <1>15, <1>16 DEF proof

(* What was submitted stays as it is, and its block stays included. *)
LEMMA SubmissionOKPreserved ==
    ASSUME ChainOK, [Next]_vars, NEW s, SubmissionOK(s)
    PROVE  \E n \in 1..Len(relay'), p \in 0..MaxPara :
              /\ Includes(n, p)' /\ s.stage_4_root = MsgRoot(p)
              /\ \E m \in n + 1..Len(relay') : s.target = BeefyRoot(m)
<1>1. PICK n \in 1..Len(relay), p \in 0..MaxPara :
        /\ Includes(n, p) /\ s.stage_4_root = MsgRoot(p)
        /\ \E m \in n + 1..Len(relay) : s.target = BeefyRoot(m)
  BY Zenon DEF SubmissionOK
<1>2. PICK m \in n + 1..Len(relay) : s.target = BeefyRoot(m)
  BY <1>1
<1>3. Includes(n, p)' /\ n \in 1..Len(relay')
  BY Zenon, <1>1, InclusionStays
<1>4. m \in n + 1..Len(relay')
  <2>1. Len(relay) \in Nat /\ Len(relay') \in Nat /\ Len(relay) <= Len(relay')
    BY ChainGrows, ChainFacts, SeqFacts DEF ChainOK
  <2>2. QED
    BY <2>1
<1>5. QED
  BY Zenon, <1>1, <1>2, <1>3, <1>4

(* The proof at hand, when it is submitted. *)
LEMMA JobAtHand ==
    ASSUME ChainOK, TasksOK, submitTask.pc \in {"remove", "submit"}
    PROVE  \E p \in Parents(1..paraTask.block) : \E n, m, l \in 1..Len(relay) :
              /\ SameHeads(p, n, m, l) /\ submitTask.job = Job1(p, n, m, l)
              /\ submitTask.job.stage_4_root = MsgRoot(p) /\ p \in 0..MaxPara
<1>1. PICK p \in Parents(1..paraTask.block) : \E n, m, l \in 1..Len(relay) :
        SameHeads(p, n, m, l) /\ submitTask.job = Job1(p, n, m, l)
  BY DEF TasksOK, JobOK
<1>2. PICK n, m, l \in 1..Len(relay) :
        SameHeads(p, n, m, l) /\ submitTask.job = Job1(p, n, m, l)
  BY <1>1
<1>3. submitTask.job.stage_4_root = MsgRoot(p)
  BY <1>2, CompleteJobFields
<1>4. p \in 0..MaxPara
  BY <1>2, ChainFacts DEF SameHeads, Includes
<1>5. QED
  BY Zenon, <1>2, <1>3, <1>4

LEMMA NewSubmission ==
    ASSUME ChainOK, TasksOK, SubmitProof
    PROVE  \E s : /\ submissions' = Append(submissions, s) /\ SubmissionOK(s)
                  /\ s.stage_4_root = submitTask.job.stage_4_root
<1>1. PICK root :
        submissions' = Append(submissions,
            [stage_4_root |-> submitTask.job.stage_4_root, target |-> submitTask.job.target,
             proof |-> JobProof(submitTask.job),
             verdict |-> XcmpVerdict(SeenRoots(root), submitTask.job.target,
                                     JobProof(submitTask.job))])
  BY Zenon DEF SubmitProof
<1> DEFINE s == [stage_4_root |-> submitTask.job.stage_4_root,
                 target |-> submitTask.job.target,
                 proof |-> JobProof(submitTask.job),
                 verdict |-> XcmpVerdict(SeenRoots(root), submitTask.job.target,
                                         JobProof(submitTask.job))]
<1>2. submitTask.pc = "submit" /\ submissions' = Append(submissions, s)
  BY <1>1 DEF SubmitProof
<1>3. PICK p \in Parents(1..paraTask.block) : \E n, m, l \in 1..Len(relay) :
        /\ SameHeads(p, n, m, l) /\ submitTask.job = Job1(p, n, m, l)
        /\ submitTask.job.stage_4_root = MsgRoot(p) /\ p \in 0..MaxPara
  BY <1>2, JobAtHand
<1>4. PICK n, m, l \in 1..Len(relay) :
        /\ SameHeads(p, n, m, l) /\ submitTask.job = Job1(p, n, m, l)
        /\ submitTask.job.stage_4_root = MsgRoot(p) /\ p \in 0..MaxPara
  BY <1>3
<1>5. submitTask.job.target = BeefyRoot(l)
  BY <1>4, CompleteJobFields
<1>6. Coherent(s)
  <2>1. JobProof(submitTask.job) = JobProof(Job1(p, n, m, l))
    BY Zenon, <1>4
  <2>2. /\ s.verdict = XcmpVerdict(SeenRoots(root), BeefyRoot(l), JobProof(Job1(p, n, m, l)))
        /\ s.proof = JobProof(Job1(p, n, m, l)) /\ s.target = BeefyRoot(l)
    BY Zenon, <1>5, <2>1
  <2> HIDE DEF s
  <2>3. QED
    BY Zenon, <1>4, <2>2, CompleteProof DEF Coherent
<1>7. m - 1 \in 1..Len(relay) /\ l \in (m - 1) + 1..Len(relay) /\ Includes(m - 1, p)
  <2>1. m \in 2..Len(relay) /\ l \in m..Len(relay) /\ Includes(m - 1, p)
    BY Zenon, <1>4 DEF SameHeads
  <2>2. Len(relay) \in Nat
    BY ChainFacts
  <2>3. QED
    BY <2>1, <2>2
<1>8. s.stage_4_root = MsgRoot(p) /\ s.target = BeefyRoot(l)
  BY <1>4, <1>5
<1> HIDE DEF s
<1>9. SubmissionOK(s)
  BY Zenon, <1>4, <1>6, <1>7, <1>8 DEF SubmissionOK
<1>10. QED
  BY <1>2, <1>4, <1>8, <1>9

LEMMA SubmissionsOKPreserved ==
    ASSUME ChainOK, TasksOK, SubmissionsOK, [Next]_vars
    PROVE  SubmissionsOK'
<1> DEFINE StaysOK(s) == /\ Coherent(s)
                         /\ \E n \in 1..Len(relay'), p \in 0..MaxPara :
                               /\ Includes(n, p)' /\ s.stage_4_root = MsgRoot(p)
                               /\ \E m \in n + 1..Len(relay') : s.target = BeefyRoot(m)
<1>1. ASSUME NEW s, SubmissionOK(s) PROVE StaysOK(s)
  BY Zenon, <1>1, SubmissionOKPreserved DEF SubmissionOK
<1>2. SUFFICES /\ \E S : submissions' \in Seq(S)
               /\ \A i \in 1..Len(submissions') : StaysOK(submissions'[i])
  BY Zenon, <1>2 DEF SubmissionsOK, SubmissionOK, MsgRoot, BeefyRoot, Coherent,
                     CoherentVerdicts
<1> HIDE DEF StaysOK
<1>3. CASE UNCHANGED submissions
  <2>1. ASSUME NEW i \in 1..Len(submissions') PROVE StaysOK(submissions'[i])
    BY <1>1, <1>3, <2>1 DEF SubmissionsOK
  <2>2. QED
    BY <1>3, <1>2, <2>1 DEF SubmissionsOK
<1>4. CASE SubmitProof
  <2>1. PICK S : submissions \in Seq(S)
    BY DEF SubmissionsOK
  <2>2. PICK s : submissions' = Append(submissions, s) /\ SubmissionOK(s)
    BY <1>4, NewSubmission
  <2>3. /\ submissions' \in Seq(S \cup {s}) /\ Len(submissions') = Len(submissions) + 1
        /\ \A i \in 1..Len(submissions) : submissions'[i] = submissions[i]
        /\ submissions'[Len(submissions) + 1] = s
        /\ Len(submissions) \in Nat
    BY <2>1, <2>2, AppendAny, SeqFacts
  <2>4. \A i \in 1..Len(submissions') : i \in 1..Len(submissions) \/ i = Len(submissions) + 1
    BY <2>3
  <2>5. ASSUME NEW i \in 1..Len(submissions') PROVE StaysOK(submissions'[i])
    <3>1. CASE i \in 1..Len(submissions)
      <4>1. SubmissionOK(submissions[i]) /\ submissions'[i] = submissions[i]
        BY Zenon, <2>3, <3>1 DEF SubmissionsOK
      <4>2. QED
        BY <1>1, <4>1
    <3>2. CASE i = Len(submissions) + 1
      BY <1>1, <2>2, <2>3, <3>2
    <3>3. QED
      BY <2>4, <3>1, <3>2
  <2>6. QED
    BY <1>2, <2>3, <2>5
<1>5. QED
  BY <1>3, <1>4, Frames

(* The steps in between neither take nor submit anything. *)
LEMMA Lookups ==
    ASSUME PickRoot \/ LookupMerkle \/ LookupHead \/ LookupLeaf
    PROVE  /\ submitTask.pc # "submit" /\ submitTask'.pc # "submit"
           /\ UNCHANGED <<MSG_ROOT_MAP, submissions, paraTask, relay>>
<1> USE DEF Proceed, GiveUp, SubmitStep, chains
<1>1. CASE PickRoot
  <2>1. \E job : submitTask' = [pc |-> "merkle", job |-> job]
    BY Zenon, <1>1 DEF PickRoot
  <2>2. submitTask'.pc # "submit"
    BY SMTT(30), <2>1
  <2>3. submitTask.pc = "next"
    BY Zenon, <1>1 DEF PickRoot
  <2>4. UNCHANGED <<MSG_ROOT_MAP, submissions, paraTask, relay>>
    BY Zenon, <1>1 DEF PickRoot
  <2>5. QED
    BY Zenon, <2>2, <2>3, <2>4
<1>2. CASE LookupMerkle
  BY <1>2 DEF LookupMerkle
<1>3. CASE LookupHead
  BY <1>3 DEF LookupHead
<1>4. CASE LookupLeaf
  <2>1. GiveUp \/ \E job : submitTask' = [pc |-> "remove", job |-> job]
    BY Zenon, <1>4 DEF LookupLeaf
  <2>2. submitTask'.pc # "submit"
    BY SMTT(30), <2>1
  <2>3. submitTask.pc = "leaf"
    BY Zenon, <1>4 DEF LookupLeaf
  <2>4. UNCHANGED <<MSG_ROOT_MAP, submissions, paraTask, relay>>
    BY Zenon, <1>4 DEF LookupLeaf
  <2>5. QED
    BY Zenon, <2>2, <2>3, <2>4
<1>5. QED
  BY <1>1, <1>2, <1>3, <1>4

-----------------------------------------------------------------------------
(* Counting.  A root is collected from finitely many blocks and submitted  *)
(* finitely often.                                                         *)
LEMMA CountsAreNumbers ==
    ASSUME ChainOK, ParaTaskOK, SubmissionsOK, NEW root
    PROVE  /\ IsFiniteSet(SubmittedFor(root)) /\ Cardinality(SubmittedFor(root)) \in Nat
           /\ IsFiniteSet(CollectedFor(root)) /\ Cardinality(CollectedFor(root)) \in Nat
<1>1. paraTask.block \in Nat
  BY ChainFacts DEF ParaTaskOK
<1>2. DOMAIN submissions = 1..Len(submissions) /\ Len(submissions) \in Nat
  BY SeqFacts DEF SubmissionsOK
<1>3. IsFiniteSet(1..paraTask.block) /\ IsFiniteSet(1..Len(submissions))
  <2>1. paraTask.block \in Int /\ Len(submissions) \in Int /\ 1 \in Int
    BY <1>1, <1>2
  <2>2. QED
    BY Zenon, <2>1, FS_Interval
<1>4. SubmittedFor(root) \subseteq 1..Len(submissions)
  BY <1>2 DEF SubmittedFor
<1>5. CollectedFor(root) \subseteq 1..paraTask.block
  BY DEF CollectedFor
<1>6. IsFiniteSet(SubmittedFor(root)) /\ IsFiniteSet(CollectedFor(root))
  BY <1>3, <1>4, <1>5, FS_Subset
<1>7. QED
  BY <1>6, FS_CardinalityType

(* Only the collector counts blocks, one at a time. *)
LEMMA CollectedCount ==
    ASSUME ChainOK, ParaTaskOK, SubmissionsOK, [Next]_vars, NEW root
    PROVE  Cardinality(CollectedFor(root)') =
              IF ParaInsertRoot /\ root = MsgRoot(para[paraTask.block + 1].parent)
              THEN Cardinality(CollectedFor(root)) + 1
              ELSE Cardinality(CollectedFor(root))
<1>1. /\ paraTask.block \in Nat /\ paraTask'.block \in Nat /\ paraTask.block <= Len(para)
      /\ IF ParaInsertRoot
         THEN paraTask'.block = paraTask.block + 1 /\ paraTask.block < Len(para)
         ELSE paraTask'.block = paraTask.block
  BY ParaTaskOKPreserved, ChainFacts DEF ParaTaskOK
<1>2. ASSUME NEW b \in 1..Len(para)
      PROVE  MsgRoot(para[b].parent)' = MsgRoot(para[b].parent)
  BY ChainGrows DEF MsgRoot
<1>3. \A b \in 1..paraTask.block : b \in 1..Len(para)
  BY <1>1, ChainFacts
<1>4. CASE ParaInsertRoot
  <2>1. PICK b \in 1..Len(para) : b = paraTask.block + 1
    BY <1>1, <1>4, ChainFacts
  <2>2. \A c \in 1..paraTask'.block : c \in 1..paraTask.block \/ c = b
    BY <1>1, <1>4, <2>1
  <2>3. 1..paraTask.block \subseteq 1..paraTask'.block /\ b \in 1..paraTask'.block
    BY <1>1, <1>4, <2>1
  <2>4. CollectedFor(root)' = {c \in 1..paraTask'.block : MsgRoot(para[c].parent)' = root}
    BY Zenon DEF CollectedFor
  <2>5. b \notin CollectedFor(root)
    BY <1>1, <2>1 DEF CollectedFor
  <2>6. CASE root = MsgRoot(para[b].parent)
    <3>1. CollectedFor(root)' = CollectedFor(root) \cup {b}
      BY <1>2, <1>3, <2>2, <2>3, <2>4, <2>6 DEF CollectedFor
    <3>2. Cardinality(CollectedFor(root) \cup {b}) = Cardinality(CollectedFor(root)) + 1
      BY <2>5, FS_AddElement, CountsAreNumbers
    <3>3. QED
      BY <1>4, <2>1, <2>6, <3>1, <3>2
  <2>7. CASE root # MsgRoot(para[b].parent)
    <3>1. CollectedFor(root)' = CollectedFor(root)
      BY <1>2, <1>3, <2>2, <2>3, <2>4, <2>7 DEF CollectedFor
    <3>2. QED
      BY <2>1, <2>7, <3>1
  <2>8. QED
    BY <2>6, <2>7
<1>5. CASE ~ParaInsertRoot
  <2>1. CollectedFor(root)' = {c \in 1..paraTask.block : MsgRoot(para[c].parent)' = root}
    BY Zenon, <1>1, <1>5 DEF CollectedFor
  <2>2. CollectedFor(root)' = CollectedFor(root)
    BY <1>2, <1>3, <2>1 DEF CollectedFor
  <2>3. QED
    BY <1>5, <2>2
<1>6. QED
  BY <1>4, <1>5

(* Only SubmitProof counts submissions, one at a time. *)
LEMMA SubmittedCount ==
    ASSUME ChainOK, TasksOK, SubmissionsOK, [Next]_vars, NEW root
    PROVE  Cardinality(SubmittedFor(root)') =
              IF SubmitProof /\ root = submitTask.job.stage_4_root
              THEN Cardinality(SubmittedFor(root)) + 1
              ELSE Cardinality(SubmittedFor(root))
<1>1. CASE SubmitProof
  <2>1. PICK S : submissions \in Seq(S)
    BY DEF SubmissionsOK
  <2>2. PICK s : /\ submissions' = Append(submissions, s)
                 /\ s.stage_4_root = submitTask.job.stage_4_root
    BY <1>1, NewSubmission
  <2>3. PICK new \in Nat : new = Len(submissions) + 1
    BY <2>1, SeqFacts
  <2>4. /\ submissions' \in Seq(S \cup {s}) /\ Len(submissions') = new
        /\ \A i \in 1..Len(submissions) : submissions'[i] = submissions[i]
        /\ submissions'[new] = s
        /\ DOMAIN submissions = 1..Len(submissions) /\ Len(submissions) \in Nat
    BY <2>1, <2>2, <2>3, AppendAny, SeqFacts
  <2>5. DOMAIN submissions' = DOMAIN submissions \cup {new} /\ new \notin DOMAIN submissions
    <3>1. DOMAIN submissions' = 1..new
      BY <2>4, SeqFacts
    <3>2. QED
      BY <2>3, <2>4, <3>1
  <2>6. SubmittedFor(root)' = {i \in DOMAIN submissions' : submissions'[i].stage_4_root = root}
    BY Zenon DEF SubmittedFor
  <2>7. new \notin SubmittedFor(root)
    BY <2>5 DEF SubmittedFor
  <2>8. CASE root = submitTask.job.stage_4_root
    <3>1. SubmittedFor(root)' = SubmittedFor(root) \cup {new}
      BY <2>2, <2>4, <2>5, <2>6, <2>8 DEF SubmittedFor
    <3>2. Cardinality(SubmittedFor(root) \cup {new}) = Cardinality(SubmittedFor(root)) + 1
      BY <2>7, FS_AddElement, CountsAreNumbers DEF TasksOK
    <3>3. QED
      BY <1>1, <2>8, <3>1, <3>2
  <2>9. CASE root # submitTask.job.stage_4_root
    <3>1. SubmittedFor(root)' = SubmittedFor(root)
      BY <2>2, <2>4, <2>5, <2>6, <2>9 DEF SubmittedFor
    <3>2. QED
      BY <2>9, <3>1
  <2>10. QED
    BY <2>8, <2>9
<1>2. CASE UNCHANGED submissions /\ ~SubmitProof
  <2>1. SubmittedFor(root)' = SubmittedFor(root)
    BY <1>2 DEF SubmittedFor
  <2>2. QED
    BY <1>2, <2>1
<1>3. QED
  BY <1>1, <1>2, Frames

(* The submitter finds the root gone, or the map taken. *)
LEMMA GivenUpRoot ==
    ASSUME RemoveRoot, GiveUp
    PROVE  UNCHANGED MSG_ROOT_MAP /\ submitTask.pc = "remove" /\ submitTask'.pc = "next"
<1>1. submitTask'.pc = "next"
  BY DEF GiveUp
<1>2. ~Proceed("submit", submitTask.job)
  BY <1>1 DEF Proceed
<1>3. QED
  BY Zenon, <1>1, <1>2 DEF RemoveRoot

(* A root comes into MSG_ROOT_MAP with a block, goes to the submitter's    *)
(* hands when it leaves the map, and from there to the chain or nowhere.   *)
LEMMA RootMoves ==
    ASSUME [Next]_vars, NEW root
    PROVE  \/ /\ ParaInsertRoot /\ ~SubmitProof /\ Taken(root)' = Taken(root)
              /\ \/ Held(root)' = Held(root)
                 \/ /\ root = MsgRoot(para[paraTask.block + 1].parent)
                    /\ Held(root)' = 1
           \/ /\ ~ParaInsertRoot /\ ~SubmitProof
              /\ Taken(root)' + Held(root)' <= Taken(root) + Held(root)
           \/ /\ SubmitProof /\ ~ParaInsertRoot /\ Held(root)' = Held(root)
              /\ Taken(root)' = 0
              /\ root = submitTask.job.stage_4_root => Taken(root) = 1
<1>1. /\ Held(root) \in {0, 1} /\ Taken(root) \in {0, 1}
      /\ Held(root)' \in {0, 1} /\ Taken(root)' \in {0, 1}
  BY DEF Held, Taken
<1>2. CASE ParaInsertRoot
  <2>1. UNCHANGED <<submitTask, submissions>> /\ paraTask.pc = "next" /\ paraTask'.pc = "match"
    BY <1>2 DEF ParaInsertRoot
  <2>2. ~SubmitProof
    BY <2>1 DEF SubmitProof, SubmitStep
  <2>3. Taken(root)' = Taken(root)
    BY <2>1 DEF Taken
  <2>4. \/ MSG_ROOT_MAP' = MSG_ROOT_MAP
        \/ DOMAIN MSG_ROOT_MAP' =
              DOMAIN MSG_ROOT_MAP \cup {MsgRoot(para[paraTask.block + 1].parent)}
    BY <1>2 DEF ParaInsertRoot, TryInsert, Insert
  <2>5. QED
    BY <1>2, <2>2, <2>3, <2>4 DEF Held
<1>3. CASE SubmitProof
  <2>1. /\ UNCHANGED <<MSG_ROOT_MAP, paraTask>> /\ submitTask.pc = "submit"
        /\ submitTask'.pc = "next"
    BY <1>3 DEF SubmitProof, SubmitStep, GiveUp
  <2>2. ~ParaInsertRoot
    BY <2>1 DEF ParaInsertRoot
  <2>3. QED
    BY <1>3, <2>1, <2>2 DEF Held, Taken
<1>4. CASE RemoveRoot /\ ~GiveUp
  <2>1. /\ submitTask.pc = "remove" /\ submitTask' = [pc |-> "submit", job |-> submitTask.job]
        /\ submitTask.job.stage_4_root \in DOMAIN MSG_ROOT_MAP
        /\ MSG_ROOT_MAP' = RemoveKey(MSG_ROOT_MAP, submitTask.job.stage_4_root)
        /\ UNCHANGED <<submissions, paraTask>>
    BY Zenon, <1>4 DEF RemoveRoot, Proceed, SubmitStep
  <2>2. ~ParaInsertRoot /\ ~SubmitProof
    BY <2>1 DEF ParaInsertRoot, SubmitProof
  <2>3. Taken(root) = 0 /\ (Taken(root)' = 1 => root = submitTask.job.stage_4_root)
    BY <1>1, <2>1 DEF Taken
  <2>4. /\ Held(root)' <= Held(root)
        /\ root = submitTask.job.stage_4_root => Held(root) = 1 /\ Held(root)' = 0
    BY <2>1 DEF Held, RemoveKey
  <2>5. QED
    BY <1>1, <2>2, <2>3, <2>4
<1>5. CASE UNCHANGED MSG_ROOT_MAP /\ ~ParaInsertRoot /\ ~SubmitProof /\ submitTask'.pc # "submit"
  BY <1>1, <1>5 DEF Held, Taken
<1>6. CASE UNCHANGED <<MSG_ROOT_MAP, submitTask>> /\ ~ParaInsertRoot /\ ~SubmitProof
  BY <1>1, <1>6 DEF Held, Taken
<1>7. QED
  <2>1. CASE RemoveRoot /\ GiveUp
    <3>1. UNCHANGED <<MSG_ROOT_MAP, paraTask>> /\ submitTask'.pc = "next"
      BY Zenon, <2>1, GivenUpRoot DEF RemoveRoot, SubmitStep
    <3>2. ~ParaInsertRoot /\ ~SubmitProof
      BY <2>1, <3>1 DEF ParaInsertRoot, SubmitProof, RemoveRoot
    <3>3. QED
      BY <1>5, <3>1, <3>2
  <2>2. CASE SubmitFault /\ ~ParaInsertRoot /\ ~SubmitProof
    BY <1>5, <2>2 DEF SubmitFault, GiveUp
  <2>3. CASE PickRoot \/ LookupMerkle \/ LookupHead \/ LookupLeaf
    BY <1>2, <1>3, <1>5, <2>3, Lookups
  <2>4. CASE ~ParaInsertRoot /\ ~SubmitProof /\ ~RemoveRoot
    BY <1>6, <2>2, <2>3, <2>4, Frames DEF Submitter
  <2>5. QED
    BY <1>2, <1>3, <1>4, <2>1, <2>4

LEMMA CountOKPreserved ==
    ASSUME ChainOK, TasksOK, SubmissionsOK, CountOK, [Next]_vars
    PROVE  CountOK'
<1> SUFFICES ASSUME NEW root \in MsgRoots
             PROVE  Cardinality(SubmittedFor(root)') + Taken(root)' + Held(root)'
                       <= Cardinality(CollectedFor(root)')
  BY Zenon DEF CountOK, MsgRoots, MsgRoot
<1>1. Cardinality(SubmittedFor(root)) + Taken(root) + Held(root)
         <= Cardinality(CollectedFor(root))
  BY DEF CountOK
<1>2. Cardinality(SubmittedFor(root)) \in Nat /\ Cardinality(CollectedFor(root)) \in Nat
  BY CountsAreNumbers DEF TasksOK
<1>3. /\ Held(root) \in {0, 1} /\ Taken(root) \in {0, 1}
      /\ Held(root)' \in {0, 1} /\ Taken(root)' \in {0, 1}
  BY DEF Held, Taken
<1>4. Cardinality(CollectedFor(root)') =
         IF ParaInsertRoot /\ root = MsgRoot(para[paraTask.block + 1].parent)
         THEN Cardinality(CollectedFor(root)) + 1
         ELSE Cardinality(CollectedFor(root))
  BY Zenon, CollectedCount DEF TasksOK
<1>5. Cardinality(SubmittedFor(root)') =
         IF SubmitProof /\ root = submitTask.job.stage_4_root
         THEN Cardinality(SubmittedFor(root)) + 1
         ELSE Cardinality(SubmittedFor(root))
  BY Zenon, SubmittedCount
<1>6. QED
  BY <1>1, <1>2, <1>3, <1>4, <1>5, RootMoves

-----------------------------------------------------------------------------
LEMMA InitRelayerInv == Init => RelayerInv
<1> SUFFICES ASSUME Init PROVE RelayerInv
  OBVIOUS
<1>1. ChainOK
  <2>1. PICK head \in StartHeads : relay = <<[head |-> head, other |-> 0]>>
    BY Zenon DEF Init
  <2>2. /\ StartPara \in 1..MaxPara /\ MaxPara \in Nat /\ head \in 0..StartPara
        /\ MaxOther \in Nat
    BY RelayerAssumption
  <2>3. [head |-> head, other |-> 0] \in RelayBlocks
    BY <2>2 DEF RelayBlocks
  <2>4. ASSUME NEW b \in 1..StartPara
        PROVE  [parent |-> b - 1, root |-> 0, seen |-> {0}] \in ParaBlocks
    <3>1. b - 1 \in 0..MaxPara
      BY <2>2
    <3>2. QED
      BY SMTT(30), <3>1 DEF ParaBlocks
  <2>5. para = [b \in 1..StartPara |-> [parent |-> b - 1, root |-> 0, seen |-> {0}]]
    BY DEF Init
  <2>6. relay \in Seq(RelayBlocks) /\ Len(relay) = 1 /\ relay[1].head = head
    BY <2>1, <2>3
  <2>7. para \in [1..StartPara -> ParaBlocks]
    BY <2>4, <2>5
  <2>8. para \in Seq(ParaBlocks) /\ Len(para) = StartPara
    BY <2>2, <2>7
  <2>9. QED
    BY <2>2, <2>6, <2>8 DEF ChainOK
<1>2. MapsOK
  BY DEF Init, MapsOK, RootsOK, MerkleOK, ChannelsOK, HeadsOK, LeavesOK
<1>3. RelayTaskOK
  <2>1. relayTask = [pc |-> "next", block |-> 0, root |-> Nil] /\ 0 \in 0..Len(relay)
    BY <1>1, ChainFacts DEF Init
  <2>2. QED
    BY Zenon, <2>1 DEF RelayTaskOK
<1>4. ParaTaskOK
  <2>1. DOMAIN para = 1..StartPara /\ DOMAIN para = 1..Len(para)
    BY <1>1, SeqFacts DEF Init, ChainOK
  <2>2. StartPara - 1 \in 0..Len(para)
    BY <1>1, <2>1, ChainFacts, RelayerAssumption
  <2>3. paraTask = [pc |-> "next", block |-> StartPara - 1]
    BY DEF Init
  <2>4. QED
    BY Zenon, <2>2, <2>3 DEF ParaTaskOK
<1>5. JobOK
  BY DEF Init, JobOK
<1>6. SubmissionsOK
  <2>1. submissions = <<>> /\ Len(<<>>) = 0 /\ <<>> \in Seq({})
    BY SMTT(30) DEF Init
  <2>2. QED
    BY SMTT(30), <2>1 DEF SubmissionsOK
<1>7. CountOK
  <2>1. ASSUME NEW root \in MsgRoots
        PROVE  Cardinality(SubmittedFor(root)) + Taken(root) + Held(root)
                  <= Cardinality(CollectedFor(root))
    <3>1. SubmittedFor(root) = {}
      BY DEF Init, SubmittedFor
    <3>2. Taken(root) = 0 /\ Held(root) = 0
      BY DEF Init, Taken, Held
    <3>3. Cardinality(SubmittedFor(root)) = 0 /\ Cardinality(CollectedFor(root)) \in Nat
      BY <1>1, <1>4, <1>6, <3>1, FS_EmptySet, CountsAreNumbers
    <3>4. QED
      BY <3>2, <3>3
  <2>2. QED
    BY Zenon, <2>1 DEF CountOK
<1>8. faults \in 0..MaxFaults
  BY RelayerAssumption DEF Init
<1>9. QED
  BY <1>1, <1>2, <1>3, <1>4, <1>5, <1>6, <1>7, <1>8 DEF RelayerInv, TasksOK

LEMMA NextRelayerInv ==
    ASSUME RelayerInv, [Next]_vars
    PROVE  RelayerInv'
<1>1. ChainOK /\ MapsOK /\ TasksOK /\ SubmissionsOK /\ CountOK
  BY DEF RelayerInv
<1>2. MapsOK'
  BY <1>1, RootsOKPreserved, MerkleOKPreserved, ChannelsOKPreserved, HeadsOKPreserved,
     LeavesOKPreserved DEF MapsOK, TasksOK
<1>3. TasksOK'
  BY <1>1, RelayTaskOKPreserved, ParaTaskOKPreserved, JobOKPreserved DEF TasksOK
<1>4. faults' \in 0..MaxFaults
  <2>1. faults \in 0..MaxFaults /\ MaxFaults \in Nat
    BY RelayerAssumption DEF RelayerInv
  <2>2. UNCHANGED faults \/ (faults < MaxFaults /\ faults' = faults + 1)
    BY Frames DEF RelayFault, ParaFault, SubmitFault
  <2>3. QED
    BY <2>1, <2>2
<1>5. QED
  BY <1>1, <1>2, <1>3, <1>4, ChainGrows, SubmissionsOKPreserved, CountOKPreserved
     DEF RelayerInv

THEOREM RelayerInvariant == Spec => []RelayerInv
BY InitRelayerInv, NextRelayerInv, PTL DEF Spec

-----------------------------------------------------------------------------
(* The maps and the locals have their types, whatever the chains do. *)
THEOREM RelayerTypeCorrect == Spec => []TypeOK
<1>1. RelayerInv => TypeOK
  <2> SUFFICES ASSUME RelayerInv PROVE TypeOK
    OBVIOUS
  <2>0. ChainOK /\ MapsOK /\ RelayTaskOK /\ ParaTaskOK /\ JobOK
    BY DEF RelayerInv, TasksOK
  <2>1. Parents(1..paraTask.block) \subseteq Parents(1..Len(para))
    <3>1. 1..paraTask.block \subseteq 1..Len(para)
      BY <2>0, ChainFacts DEF ParaTaskOK
    <3>2. QED
      BY Zenon, <3>1 DEF Parents
  <2>2. DOMAIN MSG_ROOT_MAP \subseteq MsgRootsSoFar
    BY Zenon, <2>0, <2>1 DEF MapsOK, RootsOK, MsgRootsSoFar
  <2>3. DOMAIN MSG_ROOT_CHANNEL_MERKLE_MAP \subseteq MsgRootsSoFar
    BY Zenon, <2>0 DEF MapsOK, MerkleOK, MsgRootsSoFar
  <2>4. ASSUME NEW p \in Parents(1..Len(para))
        PROVE  ChannelsRoot(p) \in {q.root : q \in ChannelProofs}
    <3>1. ChannelProof(p) \in ChannelProofs
      BY Zenon DEF ChannelProofs
    <3>2. ChannelProof(p).root = ChannelsRoot(p)
      BY DEF ChannelProof
    <3>3. QED
      BY Zenon, <3>1, <3>2
  <2>5. DOMAIN CHANNEL_ROOT_PROOF_MAP \subseteq {p.root : p \in ChannelProofs}
    BY Zenon, <2>0, <2>4 DEF MapsOK, ChannelsOK
  <2>6. ASSUME NEW n, NEW p, Includes(n, p) PROVE p \in Parents(1..Len(para))
    BY <2>0, <2>6, ChainFacts DEF Includes, Parents
  <2>7. DOMAIN PARA_HEADERS_MAP \subseteq {p.root : p \in ChannelProofs}
    BY Zenon, <2>0, <2>4, <2>6 DEF MapsOK, HeadsOK
  <2>8. DOMAIN LEAVES_BEEFY_MMR_MAP \subseteq {<<HeadsRoot(n - 1), n>> : n \in 1..Len(relay)}
    BY Zenon, <2>0 DEF MapsOK, LeavesOK
  <2>9. /\ submitTask.pc \in {"next", "merkle", "head", "leaf", "remove", "submit", "dead"}
        /\ submitTask.job.target \in BeefyRootsSoFar \cup {Nil}
    <3>1. submitTask.pc \in {"next", "merkle", "head", "leaf", "remove", "submit", "dead"}
      BY <2>0 DEF JobOK
    <3>2. CASE submitTask.job = NoJob
      BY <3>1, <3>2 DEF NoJob
    <3>3. CASE \E p : submitTask.job = Job4(p) \/ submitTask.job = Job3(p)
      <4>1. PICK p : submitTask.job = Job4(p) \/ submitTask.job = Job3(p)
        BY <3>3
      <4>2. Job4(p).target = Nil /\ Job3(p).target = Nil
        BY JobFields DEF Job4, Job3
      <4>3. QED
        BY <3>1, <4>1, <4>2
    <3>4. CASE \E p, n : submitTask.job = Job2(p, n)
      <4>1. PICK p, n : submitTask.job = Job2(p, n)
        BY <3>4
      <4>2. Job2(p, n).target = Nil
        BY JobFields DEF Job2
      <4>3. QED
        BY <3>1, <4>1, <4>2
    <3>5. CASE \E p : \E n, m, l \in 1..Len(relay) : submitTask.job = Job1(p, n, m, l)
      <4>1. PICK p : \E n, m, l \in 1..Len(relay) : submitTask.job = Job1(p, n, m, l)
        BY <3>5
      <4>2. PICK n, m, l \in 1..Len(relay) : submitTask.job = Job1(p, n, m, l)
        BY <4>1
      <4>3. Job1(p, n, m, l).target = BeefyRoot(l)
        BY SMTT(30), CompleteJobFields
      <4>4. QED
        BY <3>1, <4>2, <4>3 DEF BeefyRootsSoFar
    <3>6. QED
      BY Zenon, <2>0, <3>1, <3>2, <3>3, <3>4, <3>5 DEF JobOK
  <2>10. QED
    BY <2>0, <2>2, <2>3, <2>5, <2>7, <2>8, <2>9
       DEF TypeOK, RelayTaskOK, ParaTaskOK, RelayerInv
<1>2. QED
  BY <1>1, RelayerInvariant, PTL

(* No interleaving makes submit_xcmp_proof refuse a relayer's proof for    *)
(* stages 2, 3 or 4.                                                       *)
THEOREM RelayerProofsFit == Spec => []SubmissionsCoherent
<1>1. RelayerInv => SubmissionsCoherent
  <2> SUFFICES ASSUME RelayerInv, NEW i \in DOMAIN submissions
               PROVE  Coherent(submissions[i])
    BY DEF SubmissionsCoherent
  <2>1. i \in 1..Len(submissions)
    BY SeqFacts DEF RelayerInv, SubmissionsOK
  <2>2. QED
    BY <2>1 DEF RelayerInv, SubmissionsOK, SubmissionOK
<1>2. QED
  BY <1>1, RelayerInvariant, PTL

(* generate_xcmp_proof submits the same messages at most once for every    *)
(* block collected that commits to them: a sibling that is collected late  *)
(* can bring a submitted root back, and nothing else can.                  *)
THEOREM OneSubmissionPerBlock == Spec => []SubmittedOncePerBlock
<1>1. RelayerInv => SubmittedOncePerBlock
  <2> SUFFICES ASSUME RelayerInv, NEW i \in DOMAIN submissions,
                      NEW root, root = submissions[i].stage_4_root
               PROVE  Cardinality(SubmittedFor(root)) <= Cardinality(CollectedFor(root))
    BY Zenon DEF SubmittedOncePerBlock
  <2>1. i \in 1..Len(submissions)
    BY SeqFacts DEF RelayerInv, SubmissionsOK
  <2>2. SubmissionOK(submissions[i])
    BY Zenon, <2>1 DEF RelayerInv, SubmissionsOK
  <2>3. root \in MsgRoots
    BY Zenon, <2>2 DEF SubmissionOK, MsgRoots
  <2>4. Cardinality(SubmittedFor(root)) + Taken(root) + Held(root)
           <= Cardinality(CollectedFor(root))
    BY Zenon, <2>3 DEF RelayerInv, CountOK
  <2>5. Taken(root) \in {0, 1} /\ Held(root) \in {0, 1}
    BY DEF Taken, Held
  <2>6. Cardinality(SubmittedFor(root)) \in Nat /\ Cardinality(CollectedFor(root)) \in Nat
    BY Zenon, CountsAreNumbers DEF RelayerInv, TasksOK
  <2>7. QED
    BY <2>4, <2>5, <2>6
<1>2. QED
  BY <1>1, RelayerInvariant, PTL

(* Messages that no included block commits to are never submitted, nor are *)
(* any against a BEEFY root that does not yet cover the inclusion.         *)
THEOREM OnlyIncludedSubmitted == Spec => []SubmittedWasIncluded
<1>1. RelayerInv => SubmittedWasIncluded
  <2> SUFFICES ASSUME RelayerInv, NEW i \in DOMAIN submissions
               PROVE  \E n \in 1..Len(relay) :
                         /\ relay[n].head # 0
                         /\ submissions[i].stage_4_root = MsgRoot(para[relay[n].head].parent)
                         /\ \E m \in n + 1..Len(relay) : submissions[i].target = BeefyRoot(m)
    BY Zenon DEF SubmittedWasIncluded
  <2>1. i \in 1..Len(submissions)
    BY SeqFacts DEF RelayerInv, SubmissionsOK
  <2>2. SubmissionOK(submissions[i])
    BY Zenon, <2>1 DEF RelayerInv, SubmissionsOK
  <2>3. QED
    BY Zenon, <2>2 DEF SubmissionOK, Includes
<1>2. QED
  BY <1>1, RelayerInvariant, PTL

(* The parts of the four stages. *)
LEMMA ProofParts ==
    ASSUME NEW p, NEW n, NEW m
    PROVE  /\ MsgProof(p).of = MsgRoot(p)
           /\ ChannelProof(p).root = ChannelsRoot(p) /\ ChannelProof(p).leaf = MsgRoot(p)
           /\ ParaHeadsProof(n).root = HeadsRoot(n)
           /\ ParaHeadsProof(n).leaf = HeaderOf(relay[n].head)
           /\ BeefyProof(m).leaves[1] = BeefyLeaf(m)
           /\ LeafExtra(BeefyLeaf(m)) = HeadsRoot(m - 1)
<1>1. MsgProof(p).of = MsgRoot(p)
  BY DEF MsgProof
<1>2. ChannelProof(p).root = ChannelsRoot(p) /\ ChannelProof(p).leaf = MsgRoot(p)
  BY DEF ChannelProof
<1>3. /\ ParaHeadsProof(n).root = HeadsRoot(n)
      /\ ParaHeadsProof(n).leaf = HeaderOf(relay[n].head)
  BY DEF ParaHeadsProof
<1>4. BeefyProof(m).leaves[1] = BeefyLeaf(m)
  BY DEF BeefyProof
<1>5. LeafExtra(BeefyLeaf(m)) = HeadsRoot(m - 1)
  BY DEF LeafExtra, BeefyLeaf
<1>6. QED
  BY Zenon, <1>1, <1>2, <1>3, <1>4, <1>5

LEMMA HeaderCommits ==
    ASSUME NEW h, h # 0
    PROVE  extract_xcmp_channel_root(HeaderOf(h)) = ChannelsRoot(para[h].parent)
BY DEF extract_xcmp_channel_root, HeaderOf, Block

(* The proof that generate_xcmp_proof has found is complete. *)
LEMMA CompleteJob ==
    ASSUME NEW p, NEW n, NEW m, NEW l, SameHeads(p, n, m, l)
    PROVE  Complete(Job1(p, n, m, l), MsgRoot(p))
<1> DEFINE job == Job1(p, n, m, l)
<1>1. /\ job.stage_4_root = MsgRoot(p) /\ job.stage_4 = MsgProof(p)
      /\ job.stage_3 = ChannelProof(p)
      /\ job.stage_2 = ParaHeadsProof(n) /\ job.stage_1 = BeefyProof(m)
  BY CompleteJobFields
<1> HIDE DEF job
<1>2. job.stage_4.of = MsgRoot(p) /\ job.stage_3.leaf = MsgRoot(p)
  BY Zenon, <1>1, ProofParts
<1>3. extract_xcmp_channel_root(job.stage_2.leaf) = job.stage_3.root
  <2>1. relay[n].head # 0 /\ para[relay[n].head].parent = p
    BY Zenon DEF SameHeads, Includes
  <2>2. job.stage_2.leaf = HeaderOf(relay[n].head) /\ job.stage_3.root = ChannelsRoot(p)
    BY Zenon, <1>1, ProofParts
  <2>3. QED
    BY Zenon, <2>1, <2>2, HeaderCommits
<1>4. LeafExtra(job.stage_1.leaves[1]) = job.stage_2.root
  <2>1. job.stage_1.leaves[1] = BeefyLeaf(m) /\ job.stage_2.root = HeadsRoot(n)
    BY Zenon, <1>1, ProofParts
  <2>2. LeafExtra(BeefyLeaf(m)) = HeadsRoot(m - 1)
    BY Zenon, ProofParts
  <2>3. QED
    BY Zenon, <2>1, <2>2 DEF SameHeads
<1>5. QED
  BY Zenon, <1>1, <1>2, <1>3, <1>4 DEF Complete, job

(* Between the complete proof and its removal from MSG_ROOT_MAP nothing    *)
(* the collectors do can take another root out.                            *)
THEOREM RootsLeaveWithProof == Spec => RemovedWithProof
<1>1. ASSUME RelayerInv, [Next]_vars
      PROVE  [\A root \in DOMAIN MSG_ROOT_MAP \ DOMAIN MSG_ROOT_MAP' :
                 Complete(submitTask.job, root)]_vars
  <2> SUFFICES ASSUME NEW root \in DOMAIN MSG_ROOT_MAP, root \notin DOMAIN MSG_ROOT_MAP'
               PROVE  Complete(submitTask.job, root)
    OBVIOUS
  <2>1. ~ParaInsertRoot
    BY DEF ParaInsertRoot, TryInsert, Insert
  <2>2. RemoveRoot
    BY <1>1, <2>1, Frames
  <2>3. submitTask.pc = "remove" /\ root = submitTask.job.stage_4_root
    BY Zenon, <2>2 DEF RemoveRoot, RemoveKey
  <2>4. PICK p \in Parents(1..paraTask.block) : \E n, m, l \in 1..Len(relay) :
          /\ SameHeads(p, n, m, l) /\ submitTask.job = Job1(p, n, m, l)
          /\ submitTask.job.stage_4_root = MsgRoot(p)
    BY Zenon, <1>1, <2>3, JobAtHand DEF RelayerInv
  <2>5. PICK n, m, l \in 1..Len(relay) :
          /\ SameHeads(p, n, m, l) /\ submitTask.job = Job1(p, n, m, l)
          /\ submitTask.job.stage_4_root = MsgRoot(p)
    BY Zenon, <2>4
  <2>6. Complete(Job1(p, n, m, l), MsgRoot(p))
    BY Zenon, <2>5, CompleteJob
  <2>7. QED
    BY Zenon, <2>3, <2>5, <2>6
<1>2. QED
  BY <1>1, RelayerInvariant, PTL DEF Spec, RemovedWithProof

-----------------------------------------------------------------------------
(* The refinement.  A sequence with one more element, element by element.  *)
LEMMA AppendIs ==
    ASSUME NEW S, NEW s \in Seq(S), NEW e, NEW t,
           t = [i \in 1..Len(s) + 1 |-> IF i = Len(s) + 1 THEN e ELSE s[i]]
    PROVE  t = Append(s, e)
<1>1. /\ Append(s, e) \in Seq(S \cup {e}) /\ Len(Append(s, e)) = Len(s) + 1
      /\ \A i \in 1..Len(s) : Append(s, e)[i] = s[i]
      /\ Append(s, e)[Len(s) + 1] = e /\ Len(s) \in Nat
  BY AppendAny, SeqFacts
<1>2. Append(s, e) \in [1..Len(s) + 1 -> S \cup {e}]
  BY <1>1, SeqFacts
<1>3. \A i \in 1..Len(s) + 1 : i \in 1..Len(s) \/ i = Len(s) + 1
  BY <1>1
<1>4. \A i \in 1..Len(s) + 1 : t[i] = Append(s, e)[i]
  BY <1>1, <1>3
<1>5. QED
  BY <1>2, <1>4

LEMMA AnnouncedFacts ==
    ASSUME ChainOK
    PROVE  /\ Announced \in Seq(MsgRoots) /\ Len(Announced) = Len(para)
           /\ \A b \in 1..Len(para) : Announced[b] = MsgRoot(para[b].parent)
<1>1. Len(para) \in Nat
  BY ChainFacts
<1>2. ASSUME NEW b \in 1..Len(para) PROVE MsgRoot(para[b].parent) \in MsgRoots
  BY ChainFacts DEF MsgRoots
<1>3. Announced \in [1..Len(para) -> MsgRoots]
  BY <1>2 DEF Announced
<1>4. QED
  BY <1>1, <1>3 DEF Announced

(* The roots the relay chain has included, by Includes. *)
LEMMA IncludedFacts ==
    /\ \A root \in IncludedRoots : \E n, p : Includes(n, p) /\ root = MsgRoot(p)
    /\ \A n, p : Includes(n, p) => MsgRoot(p) \in IncludedRoots
<1>1. ASSUME NEW root \in IncludedRoots
      PROVE  \E n, p : Includes(n, p) /\ root = MsgRoot(p)
  BY Zenon DEF IncludedRoots, Includes
<1>2. ASSUME NEW n, NEW p, Includes(n, p) PROVE MsgRoot(p) \in IncludedRoots
  BY Zenon, <1>2 DEF IncludedRoots, Includes
<1>3. QED
  BY Zenon, <1>1, <1>2

LEMMA IncludedFactsNext ==
    /\ \A root \in IncludedRoots' : \E n, p : Includes(n, p)' /\ root = MsgRoot(p)
    /\ \A n, p : Includes(n, p)' => MsgRoot(p) \in IncludedRoots'
<1>1. ASSUME NEW root \in IncludedRoots'
      PROVE  \E n, p : Includes(n, p)' /\ root = MsgRoot(p)
  BY Zenon DEF IncludedRoots, Includes, MsgRoot
<1>2. ASSUME NEW n, NEW p, Includes(n, p)' PROVE MsgRoot(p) \in IncludedRoots'
  BY Zenon, <1>2 DEF IncludedRoots, Includes, MsgRoot
<1>3. QED
  BY Zenon, <1>1, <1>2

(* What is neither announced nor included by a step stays as it is. *)
LEMMA ChainsSame ==
    ASSUME UNCHANGED <<relay, para>>
    PROVE  UNCHANGED <<Announced, IncludedRoots>>
BY DEF Announced, IncludedRoots, MsgRoot

(* A new best block of the sender. *)
LEMMA AnnounceStep ==
    ASSUME RelayerInv, [Next]_vars, ParaBlock
    PROVE  \E root \in MsgRoots : D!Announce(root)
<1>1. ChainOK /\ ChainOK' /\ \A b \in 1..Len(para) : para'[b] = para[b]
  BY ChainGrows DEF RelayerInv
<1>2. /\ UNCHANGED <<relay, MSG_ROOT_MAP, paraTask, submitTask, submissions>>
      /\ \E e : para' = Append(para, e)
  BY Zenon DEF ParaBlock
<1>3. Len(para') = Len(para) + 1 /\ Len(para) \in Nat
  BY <1>1, <1>2, AppendAny, ChainFacts DEF ChainOK
<1>4. PICK root : root = MsgRoot(para'[Len(para')].parent)
  OBVIOUS
<1>5. Announced' = [b \in 1..Len(para') |-> MsgRoot(para'[b].parent)]
  BY Zenon DEF Announced, MsgRoot
<1>6. root \in MsgRoots
  <2>1. para' \in Seq(ParaBlocks) /\ Len(para') \in 1..Len(para')
    BY <1>1, <1>3 DEF ChainOK, ParaBlocks
  <2>2. para'[Len(para')] \in ParaBlocks
    BY Zenon, <2>1, SeqElement
  <2>3. para'[Len(para')].parent \in 0..MaxPara
    BY <2>2 DEF ParaBlocks
  <2>4. QED
    BY Zenon, <1>4, <2>3 DEF MsgRoots
<1>7. Announced' = Append(Announced, root)
  <2>1. /\ Announced \in Seq(MsgRoots) /\ Len(Announced) = Len(para)
        /\ \A b \in 1..Len(para) : Announced[b] = MsgRoot(para[b].parent)
    BY <1>1, AnnouncedFacts
  <2>2. \A b \in 1..Len(para) + 1 : b \in 1..Len(para) \/ b = Len(para) + 1
    BY <1>3
  <2>3. \A b \in 1..Len(para) + 1 :
           MsgRoot(para'[b].parent) = IF b = Len(para) + 1 THEN root ELSE Announced[b]
    BY <1>1, <1>3, <1>4, <2>1, <2>2
  <2>4. Announced' = [b \in 1..Len(Announced) + 1 |->
                         IF b = Len(Announced) + 1 THEN root ELSE Announced[b]]
    BY <1>3, <1>5, <2>1, <2>3
  <2>5. QED
    BY Zenon, <2>1, <2>4, AppendIs
<1>8. IncludedRoots' = IncludedRoots
  <2>1. ASSUME NEW n, NEW p PROVE Includes(n, p)' <=> Includes(n, p)
    BY <1>1, <1>2, ChainFacts DEF Includes
  <2>2. IncludedRoots' \subseteq IncludedRoots
    BY Zenon, <2>1, IncludedFacts, IncludedFactsNext
  <2>3. IncludedRoots \subseteq IncludedRoots'
    BY Zenon, <2>1, IncludedFacts, IncludedFactsNext
  <2>4. QED
    BY Zenon, <2>2, <2>3
<1>9. UNCHANGED <<InHand, HandedOver>>
  BY <1>2 DEF InHand, HandedOver
<1>10. D!Announce(root)
  BY <1>2, <1>7, <1>8, <1>9 DEF D!Announce
<1>11. QED
  BY <1>6, <1>10

(* The relay chain includes a block, or only blocks of others. *)
LEMMA IncludeStep ==
    ASSUME RelayerInv, [Next]_vars, RelayBlock
    PROVE  (\E root \in MsgRoots : D!Include(root)) \/ UNCHANGED D!vars
<1>1. UNCHANGED <<para, MSG_ROOT_MAP, submissions, paraTask, submitTask>>
  BY DEF RelayBlock
<1>2. UNCHANGED <<Announced, paraTask.block, DOMAIN MSG_ROOT_MAP, InHand, HandedOver>>
  BY <1>1 DEF Announced, InHand, HandedOver, MsgRoot
<1>3. ChainOK /\ ChainOK'
  BY ChainGrows DEF RelayerInv
<1>4. PICK head, other : relay' = Append(relay, [head |-> head, other |-> other])
  BY Zenon DEF RelayBlock
<1>5. PICK new \in Nat : new = Len(relay) + 1
  BY <1>3, ChainFacts
<1>6. /\ Len(relay') = new /\ Len(relay) \in Nat
      /\ \A n \in 1..Len(relay) : relay'[n] = relay[n]
      /\ relay'[new].head = head
  BY <1>3, <1>4, <1>5, AppendAny, SeqFacts DEF ChainOK
<1>7. \A n : n \in 1..Len(relay') <=> n \in 1..Len(relay) \/ n = new
  BY <1>5, <1>6
<1>8. ASSUME NEW n, NEW p
      PROVE  Includes(n, p)' <=> \/ Includes(n, p)
                                 \/ n = new /\ head # 0 /\ para[head].parent = p
  BY <1>1, <1>5, <1>6, <1>7 DEF Includes
<1>9. CASE head = 0
  <2>1. IncludedRoots' = IncludedRoots
    <3>1. IncludedRoots' \subseteq IncludedRoots
      BY Zenon, <1>8, <1>9, IncludedFacts, IncludedFactsNext
    <3>2. IncludedRoots \subseteq IncludedRoots'
      BY Zenon, <1>8, IncludedFacts, IncludedFactsNext
    <3>3. QED
      BY Zenon, <3>1, <3>2
  <2>2. QED
    BY <1>2, <2>1 DEF D!vars
<1>10. CASE head # 0
  <2>1. PICK p : p = para[head].parent
    OBVIOUS
  <2>2. IncludedRoots' = IncludedRoots \cup {MsgRoot(p)}
    <3>1. ASSUME NEW root \in IncludedRoots' PROVE root \in IncludedRoots \cup {MsgRoot(p)}
      <4>1. PICK n, q : Includes(n, q)' /\ root = MsgRoot(q)
        BY Zenon, IncludedFactsNext
      <4>2. Includes(n, q) \/ q = p
        BY Zenon, <1>8, <2>1, <4>1
      <4>3. QED
        BY Zenon, <4>1, <4>2, IncludedFacts
    <3>2. IncludedRoots \subseteq IncludedRoots'
      BY Zenon, <1>8, IncludedFacts, IncludedFactsNext
    <3>3. MsgRoot(p) \in IncludedRoots'
      BY Zenon, <1>8, <1>10, <2>1, IncludedFactsNext
    <3>4. QED
      BY Zenon, <3>1, <3>2, <3>3
  <2>3. head \in 1..Len(para)
    <3>1. relay'[new].head \in 0..Len(para')
      <4>1. new \in 1..Len(relay')
        BY <1>7
      <4>2. relay'[new] \in RelayBlocks /\ relay'[new].head <= Len(para')
        BY <1>3, <4>1, SeqElement DEF ChainOK
      <4>3. QED
        BY <1>1, <1>3, <4>2, ChainFacts DEF RelayBlocks
    <3>2. QED
      BY <1>1, <1>3, <1>6, <1>10, <3>1, ChainFacts
  <2>4. MsgRoot(p) \in MsgRoots
    BY <1>3, <2>1, <2>3, ChainFacts DEF MsgRoots
  <2>5. D!Include(MsgRoot(p))
    BY <1>2, <2>2 DEF D!Include
  <2>6. QED
    BY <2>4, <2>5
<1>11. QED
  BY Zenon, <1>9, <1>10

(* The collector reads a block. *)
LEMMA CollectStep ==
    ASSUME RelayerInv, [Next]_vars, ParaInsertRoot
    PROVE  D!Collect
<1>1. /\ ChainOK /\ paraTask.block \in Nat /\ paraTask.block < Len(para)
      /\ paraTask'.block = paraTask.block + 1
  BY ParaTaskOKPreserved DEF RelayerInv, TasksOK
<1>2. UNCHANGED <<relay, para, submitTask, submissions>>
  BY DEF ParaInsertRoot, chains
<1>3. UNCHANGED <<Announced, IncludedRoots, InHand, HandedOver>>
  BY <1>2, ChainsSame DEF InHand, HandedOver
<1>4. paraTask.block + 1 \in 1..Len(para)
  BY <1>1, ChainFacts
<1>5. /\ Announced[paraTask.block + 1] = MsgRoot(para[paraTask.block + 1].parent)
      /\ Len(Announced) = Len(para)
  BY <1>1, <1>4, AnnouncedFacts
<1>6. \/ MSG_ROOT_MAP' = MSG_ROOT_MAP
      \/ DOMAIN MSG_ROOT_MAP' =
            DOMAIN MSG_ROOT_MAP \cup {MsgRoot(para[paraTask.block + 1].parent)}
  BY DEF ParaInsertRoot, TryInsert, Insert
<1>7. DOMAIN MSG_ROOT_MAP' \in
         {DOMAIN MSG_ROOT_MAP, DOMAIN MSG_ROOT_MAP \cup {Announced[paraTask.block + 1]}}
  BY <1>5, <1>6
<1>8. QED
  BY <1>1, <1>3, <1>5, <1>7 DEF D!Collect

(* A root is taken out of MSG_ROOT_MAP. *)
LEMMA TakeStep ==
    ASSUME RelayerInv, [Next]_vars, RemoveRoot, ~GiveUp
    PROVE  \E root \in MsgRoots : D!Take(root)
<1>1. /\ submitTask.pc = "remove" /\ submitTask' = [pc |-> "submit", job |-> submitTask.job]
      /\ submitTask.job.stage_4_root \in DOMAIN MSG_ROOT_MAP
      /\ MSG_ROOT_MAP' = RemoveKey(MSG_ROOT_MAP, submitTask.job.stage_4_root)
      /\ UNCHANGED <<submissions, paraTask, relay, para>>
  BY Zenon DEF RemoveRoot, Proceed, SubmitStep, chains
<1>2. PICK p \in 0..MaxPara : \E n, m, l \in 1..Len(relay) :
        SameHeads(p, n, m, l) /\ submitTask.job.stage_4_root = MsgRoot(p)
  BY Zenon, <1>1, JobAtHand DEF RelayerInv
<1>3. MsgRoot(p) \in IncludedRoots /\ submitTask.job.stage_4_root = MsgRoot(p)
  BY Zenon, <1>2, IncludedFacts DEF SameHeads
<1>4. UNCHANGED <<Announced, IncludedRoots, HandedOver>>
  BY <1>1, ChainsSame DEF HandedOver
<1>5. InHand = {} /\ InHand' = {MsgRoot(p)}
  BY <1>1, <1>3 DEF InHand
<1>6. DOMAIN MSG_ROOT_MAP' = DOMAIN MSG_ROOT_MAP \ {MsgRoot(p)}
  BY <1>1, <1>3 DEF RemoveKey
<1>7. D!Take(MsgRoot(p))
  BY <1>1, <1>3, <1>4, <1>5, <1>6 DEF D!Take
<1>8. QED
  BY Zenon, <1>7 DEF MsgRoots

(* What was taken is submitted, or lost with a failed call. *)
LEMMA HandOverStep ==
    ASSUME RelayerInv, [Next]_vars, SubmitProof \/ (SubmitFault /\ submitTask.pc = "submit")
    PROVE  \E root \in MsgRoots : D!HandOver(root)
<1>1. /\ submitTask.pc = "submit" /\ submitTask'.pc # "submit"
      /\ UNCHANGED <<MSG_ROOT_MAP, paraTask, relay, para>>
  BY DEF SubmitProof, SubmitFault, SubmitStep, chains, GiveUp
<1>2. PICK p \in 0..MaxPara : submitTask.job.stage_4_root = MsgRoot(p)
  BY Zenon, <1>1, JobAtHand DEF RelayerInv
<1>3. UNCHANGED <<Announced, IncludedRoots>>
  BY <1>1, ChainsSame
<1>4. InHand = {MsgRoot(p)} /\ InHand' = {}
  BY <1>1, <1>2 DEF InHand
<1>5. HandedOver' \in {HandedOver, Append(HandedOver, MsgRoot(p))}
  <2>1. CASE SubmitProof
    <3>1. PICK S : submissions \in Seq(S)
      BY DEF RelayerInv, SubmissionsOK
    <3>2. PICK s : submissions' = Append(submissions, s) /\ s.stage_4_root = MsgRoot(p)
      BY <1>2, <2>1, NewSubmission DEF RelayerInv
    <3>3. /\ Len(submissions') = Len(submissions) + 1 /\ Len(submissions) \in Nat
          /\ \A i \in 1..Len(submissions) : submissions'[i] = submissions[i]
          /\ submissions'[Len(submissions) + 1] = s
      BY <3>1, <3>2, AppendAny, SeqFacts
    <3>4. PICK T : T = {submissions[i].stage_4_root : i \in 1..Len(submissions)}
      BY Zenon
    <3>5. HandedOver \in Seq(T) /\ Len(HandedOver) = Len(submissions)
      <4>1. HandedOver \in [1..Len(submissions) -> T]
        BY <3>4 DEF HandedOver
      <4>2. QED
        BY <3>3, <4>1
    <3>6. \A i \in 1..Len(submissions) + 1 : i \in 1..Len(submissions) \/ i = Len(submissions) + 1
      BY <3>3
    <3>7. HandedOver' = [i \in 1..Len(HandedOver) + 1 |->
                            IF i = Len(HandedOver) + 1 THEN MsgRoot(p) ELSE HandedOver[i]]
      <4>1. HandedOver' = [i \in 1..Len(submissions) + 1 |-> submissions'[i].stage_4_root]
        BY <3>3 DEF HandedOver
      <4>2. \A i \in 1..Len(submissions) + 1 : submissions'[i].stage_4_root =
               IF i = Len(submissions) + 1 THEN MsgRoot(p) ELSE HandedOver[i]
        BY <3>2, <3>3, <3>6 DEF HandedOver
      <4>3. QED
        BY <3>5, <4>1, <4>2
    <3>8. QED
      BY Zenon, <3>5, <3>7, AppendIs
  <2>2. CASE SubmitFault
    BY <2>2 DEF SubmitFault, HandedOver
  <2>3. QED
    BY <2>1, <2>2
<1>6. D!HandOver(MsgRoot(p))
  BY <1>1, <1>3, <1>4, <1>5 DEF D!HandOver
<1>7. QED
  BY Zenon, <1>6 DEF MsgRoots

(* Seen from outside, the relayer with its maps, locks and failures does   *)
(* what Delivery says, siblings included: Spec implements D!Spec.          *)
THEOREM RelayerDelivers == Spec => DeliversAsPromised
<1>1. Init => D!Init
  <2> SUFFICES ASSUME Init PROVE D!Init
    OBVIOUS
  <2>1. ChainOK /\ ParaTaskOK
    BY InitRelayerInv DEF RelayerInv, TasksOK
  <2>2. Announced \in Seq(MsgRoots) /\ paraTask.block \in 0..Len(Announced)
    BY <2>1, AnnouncedFacts DEF ParaTaskOK
  <2>3. IncludedRoots \subseteq MsgRoots
    <3>1. ASSUME NEW n, NEW p, Includes(n, p) PROVE p \in 0..MaxPara
      BY <2>1, <3>1, ChainFacts DEF Includes
    <3>2. QED
      BY Zenon, <3>1, IncludedFacts DEF MsgRoots
  <2>4. DOMAIN MSG_ROOT_MAP = {} /\ InHand = {}
    <3>1. MSG_ROOT_MAP = <<>> /\ submitTask = [pc |-> "next", job |-> NoJob]
      BY Zenon DEF Init
    <3>2. submitTask.pc = "next"
      BY <3>1
    <3>3. DOMAIN MSG_ROOT_MAP = {}
      BY <3>1
    <3>4. QED
      BY <3>2, <3>3 DEF InHand
  <2>5. HandedOver = <<>>
    <3>1. submissions = <<>>
      BY Zenon DEF Init
    <3>2. Len(submissions) = 0
      BY <3>1
    <3>3. QED
      BY <3>2 DEF HandedOver
  <2>6. QED
    BY <2>2, <2>3, <2>4, <2>5 DEF D!Init
<1>2. ASSUME RelayerInv, [Next]_vars PROVE [D!Next]_(D!vars)
  <2>1. CASE RelayBlock
    BY Zenon, <1>2, <2>1, IncludeStep DEF D!Next
  <2>2. CASE ParaBlock
    BY Zenon, <1>2, <2>2, AnnounceStep DEF D!Next
  <2>3. CASE ParaInsertRoot
    BY Zenon, <1>2, <2>3, CollectStep DEF D!Next
  <2>4. CASE RemoveRoot /\ ~GiveUp
    BY Zenon, <1>2, <2>4, TakeStep DEF D!Next
  <2>5. CASE SubmitProof \/ (SubmitFault /\ submitTask.pc = "submit")
    BY Zenon, <1>2, <2>5, HandOverStep DEF D!Next
  <2>6. ASSUME ~RelayBlock, ~ParaBlock, ~ParaInsertRoot,
               ~(RemoveRoot /\ ~GiveUp),
               ~(SubmitProof \/ (SubmitFault /\ submitTask.pc = "submit"))
        PROVE  UNCHANGED D!vars
    <3>1. /\ UNCHANGED <<relay, para>> /\ UNCHANGED submissions
          /\ paraTask'.block = paraTask.block
      BY <1>2, <2>6, Frames, ParaTaskOKPreserved DEF RelayerInv, TasksOK
    <3>2. UNCHANGED MSG_ROOT_MAP
      <4>1. CASE RemoveRoot
        BY Zenon, <2>6, <4>1, GivenUpRoot
      <4>2. QED
        BY Zenon, <1>2, <2>6, <4>1, Frames
    <3>3. UNCHANGED submitTask \/ (submitTask.pc # "submit" /\ submitTask'.pc # "submit")
      <4>1. CASE RemoveRoot
        <5>1. submitTask.pc = "remove" /\ submitTask'.pc = "next"
          BY Zenon, <2>6, <4>1, GivenUpRoot
        <5>2. QED
          BY <5>1
      <4>2. CASE SubmitFault
        BY <2>6, <4>2 DEF SubmitFault
      <4>3. QED
        BY Zenon, <1>2, <2>6, <4>1, <4>2, Frames, Lookups DEF Submitter
    <3>4. UNCHANGED <<InHand, HandedOver>>
      BY <3>1, <3>3 DEF InHand, HandedOver
    <3>5. QED
      BY <3>1, <3>2, <3>4, ChainsSame DEF D!vars
  <2>7. QED
    BY <2>1, <2>2, <2>3, <2>4, <2>5, <2>6
<1>3. QED
  BY <1>1, <1>2, RelayerInvariant, PTL DEF Spec, DeliversAsPromised, D!Spec
=============================================================================
