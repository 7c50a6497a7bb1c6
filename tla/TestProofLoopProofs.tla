------------------------- MODULE TestProofLoopProofs ------------------------
(***************************************************************************)
(* Proofs about TestProofLoop, for any number of blocks and of faults.     *)
(***************************************************************************)
EXTENDS TestProofLoop, SequenceTheorems, TLAPS

(* A root that is no root, or of a block not after that of another root. *)
NotLater(a, b) == a = Nil \/ (b # Nil /\ a <= b)

(* The root and the proof in use have been fetched. *)
Fetched ==
    /\ pc \in {"proof", "verify", "read", "update", "submit"} => root # Nil
    /\ pc \in {"verify", "read", "update", "submit"} =>
           proof \in {ProofAt(n) : n \in 1..best}

(* The relayer, the only writer of the item, never goes back: the roots on *)
(* chain are in the order of their blocks and not later than its own.      *)
Forward ==
    /\ \A i, j \in 1..Len(roots) : i <= j => NotLater(roots[i], roots[j])
    /\ \A i \in 1..Len(roots) : NotLater(roots[i], root)

LoopInv == TypeOK /\ Fetched /\ Forward /\ MatchIsSettled

(* The order of the roots. *)
LEMMA NotLaterOrder ==
    ASSUME NEW a \in Nat \cup {Nil}, NEW b \in Nat \cup {Nil}, NEW c \in Nat \cup {Nil}
    PROVE  /\ NotLater(a, a)
           /\ NotLater(a, b) /\ NotLater(b, c) => NotLater(a, c)
           /\ NotLater(a, b) /\ NotLater(b, a) => a = b
  BY LoopAssumption DEF NotLater

(* A root that equals the relayer's own is followed by no other. *)
LEMMA OwnRootStays ==
    ASSUME TypeOK, Forward, NEW i \in 1..Len(roots), roots[i] = root,
           NEW j \in i..Len(roots)
    PROVE  roots[j] = root
<1>1. j \in 1..Len(roots) /\ i <= j /\ Len(roots) \in Nat
  BY DEF TypeOK
<1>2. roots[j] \in Nat \cup {Nil} /\ root \in Nat \cup {Nil}
  BY <1>1 DEF TypeOK
<1>3. NotLater(root, roots[j]) /\ NotLater(roots[j], root)
  BY <1>1 DEF Forward
<1> QED
  BY <1>2, <1>3, NotLaterOrder

(* A suffix of the roots, as finality leaves it. *)
LEMMA FinalizedSuffix ==
    ASSUME TypeOK, NEW k \in 2..Len(roots), roots' = SubSeq(roots, k, Len(roots))
    PROVE  /\ roots' \in Seq(1..best \cup {Nil})
           /\ Len(roots') = Len(roots) - k + 1 /\ roots' # << >>
           /\ \A i \in 1..Len(roots') : i + k - 1 \in 1..Len(roots)
                                        /\ roots'[i] = roots[i + k - 1]
<1> DEFINE R == 1..best \cup {Nil}
<1>1. roots \in Seq(R) /\ Len(roots) \in Nat /\ k \in Nat /\ k >= 2 /\ k <= Len(roots)
  BY DEF TypeOK
<1> HIDE DEF R
<1>2. /\ Len(roots') = Len(roots) - k + 1
      /\ \A i \in 1..Len(roots') : roots'[i] = roots[i + k - 1]
  BY <1>1
<1>3. \A i \in 1..Len(roots') : i + k - 1 \in 1..Len(roots)
  BY <1>1, <1>2
<1>4. roots' \in Seq(R)
  <2>1. \A i \in k..Len(roots) : roots[i] \in R
    BY <1>1
  <2> QED
    BY <1>1, <2>1, SubSeqProperties
<1>5. Len(roots') # 0
  BY <1>1, <1>2
<1> QED
  BY <1>2, <1>3, <1>4, <1>5 DEF R

(* The roots after update_root: the old ones, the last of them its own. *)
LEMMA WrittenRoots ==
    ASSUME TypeOK, root # Nil
    PROVE  /\ Written(root) \in Seq(1..best \cup {Nil}) /\ Written(root) # << >>
           /\ Len(Written(root)) \in {Len(roots), Len(roots) + 1}
           /\ \A i \in 1..Len(Written(root)) :
                  \/ i \in 1..Len(roots) /\ Written(root)[i] = roots[i]
                  \/ i = Len(Written(root)) /\ Written(root)[i] = root
  BY DEF TypeOK, Written, channelRoot

(* The chain and the task's variables keep their types, the root and the   *)
(* proof are there when used, the roots on chain go forward, and the       *)
(* relayer's own root, read at the finalized block, is there to stay.      *)
THEOREM LoopInvariant == Spec => []LoopInv
<1> USE LoopAssumption
<1>1. Init => LoopInv
  <2> SUFFICES ASSUME Init PROVE LoopInv
    OBVIOUS
  <2>1. Len(roots) = 1 /\ roots[1] = Nil /\ root = Nil /\ pc = "root"
    BY DEF Init
  <2>2. TypeOK
    <3>1. roots \in Seq(1..best \cup {Nil}) /\ roots # << >>
      BY DEF Init
    <3>2. best \in 1..MaxBlocks /\ faults \in 0..MaxFaults
      BY DEF Init
    <3> QED
      BY <3>1, <3>2 DEF Init, TypeOK
  <2>3. Forward
    BY <2>1 DEF Forward, NotLater
  <2> QED
    BY <2>1, <2>2, <2>3 DEF LoopInv, Fetched, MatchIsSettled
<1>2. LoopInv /\ [Next]_vars => LoopInv'
  <2> SUFFICES ASSUME LoopInv, [Next]_vars PROVE LoopInv'
    OBVIOUS
  <2>0. TypeOK /\ Fetched /\ Forward /\ MatchIsSettled
    BY DEF LoopInv
  <2>1. CASE NewBlock
    <3>1. 1..best \subseteq 1..best' /\ best' \in 1..MaxBlocks
      BY <2>0, <2>1 DEF NewBlock, TypeOK
    <3>2. UNCHANGED <<roots, pc, looping, root, proof, onchain_root, faults>>
      BY <2>1 DEF NewBlock, locals
    <3>3. roots' \in Seq(1..best' \cup {Nil}) /\ roots' # << >>
      BY <2>0, <3>1, <3>2 DEF TypeOK
    <3>4. TypeOK'
      BY <2>0, <3>1, <3>2, <3>3 DEF TypeOK
    <3>5. Fetched'
      BY <2>0, <3>1, <3>2 DEF Fetched
    <3>6. Forward' /\ MatchIsSettled'
      BY <2>0, <3>2, Zenon DEF Forward, MatchIsSettled
    <3> QED
      BY <3>4, <3>5, <3>6 DEF LoopInv
  <2>2. CASE Finalize
    <3>1. UNCHANGED <<best, pc, looping, root, proof, onchain_root, faults>>
      BY <2>2 DEF Finalize, locals
    <3>2. PICK k \in 2..Len(roots) : roots' = SubSeq(roots, k, Len(roots))
      BY <2>2 DEF Finalize
    <3>3. /\ roots' \in Seq(1..best \cup {Nil}) /\ roots' # << >>
          /\ \A i \in 1..Len(roots') : i + k - 1 \in 1..Len(roots)
                                       /\ roots'[i] = roots[i + k - 1]
      BY <2>0, <3>2, FinalizedSuffix
    <3>4. TypeOK' /\ Fetched'
      BY <2>0, <3>1, <3>3 DEF TypeOK, Fetched
    <3>5. Forward'
      <4>1. ASSUME NEW i \in 1..Len(roots'), NEW j \in 1..Len(roots'), i <= j
            PROVE  NotLater(roots'[i], roots'[j])
        <5>1. i + k - 1 <= j + k - 1
          BY <4>1, <3>2
        <5> QED
          BY <2>0, <3>3, <5>1 DEF Forward
      <4>2. ASSUME NEW i \in 1..Len(roots') PROVE NotLater(roots'[i], root')
        BY <2>0, <3>1, <3>3 DEF Forward
      <4> QED
        BY <4>1, <4>2 DEF Forward, NotLater
    <3>6. MatchIsSettled'
      BY <2>0, <3>1, <3>3 DEF MatchIsSettled
    <3> QED
      BY <3>4, <3>5, <3>6 DEF LoopInv
  <2>3. CASE GetRoot
    <3>1. /\ UNCHANGED <<best, roots, looping, proof, onchain_root, faults>>
          /\ pc' = "proof" /\ root' = best
      BY <2>3 DEF GetRoot, generate_mmr_root, chain
    <3>2. best \in Nat /\ best # Nil /\ best \in 1..best
      BY <2>0 DEF TypeOK
    <3>3. TypeOK' /\ Fetched' /\ MatchIsSettled'
      BY <2>0, <3>1, <3>2 DEF TypeOK, Fetched, MatchIsSettled
    <3>4. ASSUME NEW i \in 1..Len(roots) PROVE NotLater(roots[i], best)
      BY <2>0, <3>2 DEF TypeOK, NotLater
    <3> QED
      BY <2>0, <3>1, <3>3, <3>4 DEF LoopInv, Forward, NotLater
  <2>4. CASE GetProof \/ VerifyFirst
    <3>1. /\ UNCHANGED <<best, roots, root, onchain_root, faults>>
          /\ pc \in {"proof", "verify"} /\ pc' \in {"read", "verify", "dead"}
          /\ looping' \in BOOLEAN
          /\ proof' \in {proof, ProofAt(best)} /\ (pc = "proof" => proof' = ProofAt(best))
      BY <2>0, <2>4 DEF GetProof, VerifyFirst, generate_mmr_proof, chain, locals, TypeOK
    <3>2. best \in 1..best
      BY <2>0 DEF TypeOK
    <3>3. ProofAt(best) \in {ProofAt(n) : n \in 1..best}
      BY <3>2
    <3>4. TypeOK' /\ Fetched'
      BY <2>0, <3>1, <3>3 DEF TypeOK, Fetched
    <3>5. Forward' /\ MatchIsSettled'
      BY <2>0, <3>1 DEF Forward, MatchIsSettled, NotLater
    <3> QED
      BY <3>4, <3>5 DEF LoopInv
  <2>5. CASE ReadOnchainRoot
    <3>1. /\ UNCHANGED <<best, roots, looping, root, proof, faults>>
          /\ pc = "read" /\ pc' = "update" /\ onchain_root' = roots[1]
      BY <2>5 DEF ReadOnchainRoot, finalizedRoot, chain
    <3>2. 1 \in 1..Len(roots) /\ roots[1] \in 1..best \cup {Nil}
      BY <2>0 DEF TypeOK
    <3>3. TypeOK' /\ Fetched' /\ Forward'
      BY <2>0, <3>1, <3>2 DEF TypeOK, Fetched, Forward, NotLater
    <3>4. MatchIsSettled'
      BY <2>0, <3>1, <3>2, OwnRootStays DEF MatchIsSettled
    <3> QED
      BY <3>3, <3>4 DEF LoopInv
  <2>6. CASE UpdateRoot
    <3>1. /\ UNCHANGED <<best, looping, root, proof, onchain_root, faults>>
          /\ pc = "update" /\ pc' = "submit" /\ roots' = Written(root)
      BY <2>6 DEF UpdateRoot, locals
    <3>2. root # Nil /\ root \in Nat
      BY <2>0, <3>1 DEF Fetched, TypeOK
    <3>3. /\ roots' \in Seq(1..best \cup {Nil}) /\ roots' # << >>
          /\ Len(roots') \in {Len(roots), Len(roots) + 1}
          /\ \A i \in 1..Len(roots') : \/ i \in 1..Len(roots) /\ roots'[i] = roots[i]
                                       \/ i = Len(roots') /\ roots'[i] = root
      BY <2>0, <3>1, <3>2, WrittenRoots
    <3>4. TypeOK' /\ Fetched'
      BY <2>0, <3>1, <3>3 DEF TypeOK, Fetched
    <3>5. Forward'
      <4>1. ASSUME NEW i \in 1..Len(roots') PROVE NotLater(roots'[i], root)
        BY <2>0, <3>2, <3>3, NotLaterOrder DEF Forward
      <4>2. ASSUME NEW i \in 1..Len(roots'), NEW j \in 1..Len(roots'), i <= j
            PROVE  NotLater(roots'[i], roots'[j])
        <5>1. CASE j \in 1..Len(roots) /\ roots'[j] = roots[j]
          <6>1. CASE i \in 1..Len(roots) /\ roots'[i] = roots[i]
            BY <2>0, <4>2, <5>1, <6>1 DEF Forward
          <6>2. CASE i = Len(roots') /\ roots'[i] = root
            <7>1. i = j
              BY <3>3, <4>2, <6>2
            <7> QED
              BY <3>2, <6>2, <7>1, NotLaterOrder
          <6> QED
            BY <3>3, <6>1, <6>2
        <5>2. CASE roots'[j] = root
          BY <4>1, <5>2
        <5> QED
          BY <3>3, <5>1, <5>2
      <4> QED
        BY <3>1, <4>1, <4>2 DEF Forward, NotLater
    <3>6. MatchIsSettled'
      BY <2>0, <3>1, <3>3 DEF MatchIsSettled
    <3> QED
      BY <3>4, <3>5, <3>6 DEF LoopInv
  <2>7. CASE SubmitProof \/ NoMatch
    <3>1. /\ UNCHANGED <<best, roots, looping, root, proof, onchain_root, faults>>
          /\ pc = "submit" /\ pc' \in {"root", "read"}
      BY <2>7 DEF SubmitProof, NoMatch, chain, locals
    <3> QED
      BY <2>0, <3>1 DEF LoopInv, TypeOK, Fetched, Forward, MatchIsSettled, NotLater
  <2>8. CASE Fault
    <3>1. UNCHANGED <<best, roots, looping, root, proof>> /\ faults' \in 0..MaxFaults
      BY <2>0, <2>8 DEF Fault, chain, TypeOK
    <3>2. \/ pc' = "dead" /\ UNCHANGED onchain_root
          \/ pc = "read" /\ pc' = "update" /\ onchain_root' = Nil
          \/ pc = "update" /\ pc' = "submit" /\ UNCHANGED onchain_root
          \/ pc = "submit" /\ pc' \in {"root", "read"} /\ UNCHANGED onchain_root
      BY <2>8 DEF Fault
    <3>3. TypeOK' /\ Fetched' /\ MatchIsSettled'
      BY <2>0, <3>1, <3>2 DEF TypeOK, Fetched, MatchIsSettled
    <3>4. Forward'
      BY <2>0, <3>1, Zenon DEF Forward, NotLater
    <3> QED
      BY <3>3, <3>4 DEF LoopInv
  <2>9. CASE UNCHANGED vars
    BY <2>0, <2>9 DEF vars, chain, locals, LoopInv, TypeOK, Fetched, Forward,
                      MatchIsSettled, NotLater
  <2> QED
    BY <2>1, <2>2, <2>3, <2>4, <2>5, <2>6, <2>7, <2>8, <2>9 DEF Next, Task
<1> QED
  BY <1>1, <1>2, PTL DEF Spec

(* The chain and the task's variables keep their types. *)
THEOREM LoopTypeCorrect == Spec => []TypeOK
<1>1. LoopInv => TypeOK
  BY DEF LoopInv
<1> QED
  BY <1>1, LoopInvariant, PTL

(* The relayer's own root, found at the finalized block, is the root of    *)
(* every block from there to the best one until the proof is submitted.    *)
THEOREM MatchStaysSettled == Spec => []MatchIsSettled
<1>1. LoopInv => MatchIsSettled
  BY DEF LoopInv
<1> QED
  BY <1>1, LoopInvariant, PTL

(* A test proof is always executed against the root fetched with it, and   *)
(* refused only when a block came between the two calls that fetched them, *)
(* whatever transactions of the relayer were lost before and however far   *)
(* finality lags behind.                                                   *)
THEOREM TestProofsRefusedOnlyWhenRaced == Spec => []RefusedOnlyWhenRaced
<1>1. Init => RefusedOnlyWhenRaced
  BY DEF Init, RefusedOnlyWhenRaced
<1>2. LoopInv /\ RefusedOnlyWhenRaced /\ [Next]_vars => RefusedOnlyWhenRaced'
  <2> SUFFICES ASSUME LoopInv, RefusedOnlyWhenRaced, [Next]_vars
               PROVE  RefusedOnlyWhenRaced'
    OBVIOUS
  <2>1. CASE SubmitProof
    <3>1. Len(roots) \in 1..Len(roots)
      BY DEF LoopInv, TypeOK
    <3>2. channelRoot = root /\ channelRoot # Nil
      BY <2>1, <3>1 DEF SubmitProof, RootMatches, LoopInv, MatchIsSettled, Fetched, channelRoot
    <3>3. root \in 1..best
      BY <3>2 DEF LoopInv, TypeOK
    <3>4. PICK n \in 1..best : proof = ProofAt(n)
      BY <2>1 DEF SubmitProof, LoopInv, Fetched
    <3>5. 1 \in 1..root /\ Len(proof.leaves) = 1 /\ proof.leaves[1] = 1 /\ proof.of = n
      BY <3>3, <3>4 DEF ProofAt, LoopInv, TypeOK
    <3>6. TestVerdict(proof) \in {"Ok", "XcmpProofNotValid"}
      BY <3>2 DEF TestVerdict
    <3>7. verify_leaves_proof(channelRoot, proof) <=> proof.of = root
      BY <3>2, <3>5 DEF verify_leaves_proof
    <3>8. TestVerdict(proof) = "Ok" <=> proof.of = root
      BY <3>2, <3>7 DEF TestVerdict
    <3> QED
      BY <2>1, <3>6, <3>8 DEF SubmitProof, RefusedOnlyWhenRaced
  <2>2. CASE ~SubmitProof
    <3>1. UNCHANGED submissions
      BY <2>2 DEF Next, NewBlock, Finalize, Task, GetRoot, GetProof, VerifyFirst,
                  ReadOnchainRoot, UpdateRoot, NoMatch, Fault, vars
    <3> QED
      BY <3>1 DEF RefusedOnlyWhenRaced
  <2> QED
    BY <2>1, <2>2
<1> QED
  BY <1>1, <1>2, LoopInvariant, PTL DEF Spec
=============================================================================
