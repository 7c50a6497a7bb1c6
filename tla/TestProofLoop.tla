---------------------------- MODULE TestProofLoop ---------------------------
(***************************************************************************)
(* The part of the relayer's get_proof_and_verify that exercises           *)
(* update_root and submit_test_proof of the sender's message stuffer: for  *)
(* every best block it reads the channel root on chain, writes its own     *)
(* root there, and, if the two were already equal, submits its proof of    *)
(* leaf 1 and fetches a new root and a new proof.  (The call of            *)
(* generate_xcmp_proof in the same loop shares none of this state; it is   *)
(* in module Relayer.)                                                     *)
(*                                                                         *)
(* The MMR of block n has the leaves 1..n, and n stands for its root.      *)
(***************************************************************************)
EXTENDS Integers, Sequences

CONSTANTS
    MaxBlocks,   \* bound: blocks of the sender
    MaxFaults,   \* bound: failed calls and lost transactions
    Nil          \* no value: H256::zero() on chain, or not yet assigned

ASSUME LoopAssumption ==
    MaxBlocks \in Nat \ {0} /\ MaxFaults \in Nat /\ Nil \notin Nat

VARIABLES
    best,         \* number of the sender's best block
    roots,        \* the values of XcmpChannelRoots[0] from the finalized block,
                  \* the first, to the best block, the last
    pc, root, proof, onchain_root,   \* get_proof_and_verify
    looping,      \* get_proof_and_verify has spawned its loop
    submissions,  \* history: submit_test_proof calls
    faults

chain == <<best, roots>>
locals == <<root, proof, onchain_root>>
vars == <<chain, pc, looping, locals, submissions, faults>>

finalizedRoot == roots[1]
channelRoot == roots[Len(roots)]

Init ==
    /\ best = 1 /\ roots = <<Nil>>
    /\ pc = "root" /\ looping = FALSE
    /\ root = Nil /\ proof = Nil /\ onchain_root = Nil
    /\ submissions = {}
    /\ faults = 0

NewBlock ==
    /\ best < MaxBlocks /\ best' = best + 1
    /\ UNCHANGED <<roots, pc, looping, locals, submissions, faults>>

(* The relay chain finalizes a block with a later value of the item. *)
Finalize ==
    /\ \E k \in 2..Len(roots) : roots' = SubSeq(roots, k, Len(roots))
    /\ UNCHANGED <<best, pc, looping, locals, submissions, faults>>

(* The proof of leaf 1 at a block, and the verdict of submit_test_proof. *)
verify_leaves_proof(r, mmr) ==
    mmr.of = r /\ \A i \in 1..Len(mmr.leaves) : mmr.leaves[i] \in 1..r
ProofAt(n) == [of |-> n, leaves |-> <<1>>]
TestVerdict(mmr) ==
    IF channelRoot = Nil THEN "XcmpNoChannelRootForChannelId"
    ELSE IF ~verify_leaves_proof(channelRoot, mmr) THEN "XcmpProofNotValid"
    ELSE "Ok"

-----------------------------------------------------------------------------
(* The root and the proof come from two calls, each at the best block of   *)
(* its time; before the loop and after each submission.                    *)
NextRoot == best + 1                                             \* mutant
generate_mmr_root == best
generate_mmr_proof == ProofAt(best)

GetRoot ==
    /\ pc = "root"
    /\ root' = generate_mmr_root /\ pc' = "proof"
    /\ UNCHANGED <<chain, looping, proof, onchain_root, submissions, faults>>

GetProof ==
    /\ pc = "proof"
    /\ proof' = generate_mmr_proof
    /\ pc' = IF looping THEN "read" ELSE "verify"
    /\ UNCHANGED <<chain, looping, root, onchain_root, submissions, faults>>

(* The first root and proof are verified by the node; a proof that does    *)
(* not fit the root is an error of the call, which ends the program.       *)
VerifyFirst ==
    /\ pc = "verify"
    /\ IF verify_leaves_proof(root, proof)
       THEN pc' = "read" /\ looping' = TRUE
       ELSE pc' = "dead" /\ UNCHANGED looping
    /\ UNCHANGED <<chain, locals, submissions, faults>>

(* One round of the loop.  storage().at_latest() is the state of the       *)
(* latest finalized block; update_root is executed in a best block.        *)
ReadOnce ==                                                      \* mutant
    /\ pc = "read"
    /\ onchain_root' = IF onchain_root = Nil THEN finalizedRoot ELSE onchain_root
    /\ pc' = "update"
    /\ UNCHANGED <<chain, looping, root, proof, submissions, faults>>
ReadOnchainRoot ==
    /\ pc = "read"
    /\ onchain_root' = finalizedRoot /\ pc' = "update"
    /\ UNCHANGED <<chain, looping, root, proof, submissions, faults>>

(* XcmpChannelRoots[0] := r in a new block; a value written again is the   *)
(* same state of the item.                                                 *)
Written(r) == IF r = channelRoot THEN roots ELSE Append(roots, r)
UpdateToNewest ==                                                \* mutant
    /\ pc = "update"
    /\ roots' = Written(generate_mmr_root) /\ pc' = "submit"
    /\ UNCHANGED <<best, looping, locals, submissions, faults>>
UpdateRoot ==
    /\ pc = "update"
    /\ roots' = Written(root) /\ pc' = "submit"
    /\ UNCHANGED <<best, looping, locals, submissions, faults>>

AlwaysMatches == TRUE                                            \* mutant
RootMatches == onchain_root = root

SubmitProof ==
    /\ pc = "submit" /\ RootMatches
    /\ submissions' = submissions \cup {[root |-> root, proof |-> proof,
                                        verdict |-> TestVerdict(proof)]}
    /\ pc' = "root"
    /\ UNCHANGED <<chain, looping, locals, faults>>

NoMatch ==
    /\ pc = "submit" /\ ~RootMatches
    /\ pc' = "read"
    /\ UNCHANGED <<chain, looping, locals, submissions, faults>>

(* A failed call for the root, the proof or its verification ends the task *)
(* (before the loop, the program), and so does one for the latest block; a *)
(* failed read of the storage item counts as no root; a failed or lost     *)
(* update_root or submit_test_proof is logged, and after a lost            *)
(* submit_test_proof the root and the proof are replaced all the same.     *)
Fault ==
    /\ faults < MaxFaults /\ faults' = faults + 1
    /\ \/ /\ pc \in {"root", "proof", "verify", "read"}
          /\ pc' = "dead" /\ UNCHANGED onchain_root
       \/ /\ pc = "read"
          /\ onchain_root' = Nil /\ pc' = "update"
       \/ /\ pc = "update"
          /\ pc' = "submit" /\ UNCHANGED onchain_root
       \/ /\ pc = "submit" /\ RootMatches
          /\ pc' \in {"root", "read"} /\ UNCHANGED onchain_root
    /\ UNCHANGED <<chain, looping, root, proof, submissions>>

Task ==
    \/ GetRoot \/ GetProof \/ VerifyFirst
    \/ ReadOnchainRoot \/ UpdateRoot \/ SubmitProof \/ NoMatch
Next == NewBlock \/ Finalize \/ Task \/ Fault
Spec == Init /\ [][Next]_vars

(* The task is polled for ever, best blocks keep arriving, and blocks are  *)
(* finalized.                                                              *)
FairSpec == Spec /\ WF_vars(Task) /\ WF_vars(Finalize)

-----------------------------------------------------------------------------
(* The chain, the locals and the history have their types. *)
TypeOK ==
    /\ best \in 1..MaxBlocks
    /\ roots \in Seq(1..best \cup {Nil}) /\ roots # << >>
    /\ looping \in BOOLEAN
    /\ pc \in {"root", "proof", "verify", "read", "update", "submit", "dead"}
    /\ root \in 1..best \cup {Nil}
    /\ proof \in {ProofAt(n) : n \in 1..best} \cup {Nil}
    /\ onchain_root \in 1..best \cup {Nil}
    /\ faults \in 0..MaxFaults

(* The root on chain is read at the finalized block, before update_root    *)
(* and the submission, and the proof is executed at a best block after     *)
(* both.  If the root read is the relayer's own, every block since the one *)
(* it was read at has that root too, whatever updates were lost or         *)
(* repeated and whatever earlier rounds wrote.                             *)
MatchIsSettled ==
    pc \in {"update", "submit"} /\ onchain_root = root =>
        \A i \in 1..Len(roots) : roots[i] = root

(* So a test proof is checked against the root fetched with it, and        *)
(* refused only if a block came between the two calls that fetched them.   *)
RefusedOnlyWhenRaced ==
    \A s \in submissions :
        /\ s.verdict \in {"Ok", "XcmpProofNotValid"}
        /\ s.verdict = "Ok" <=> s.proof.of = s.root

(* Unless a failed call, the first verification's among them, ended it,    *)
(* the task never stops submitting test proofs (after which it fetches the *)
(* next root): its root always gets on chain, is finalized and is then     *)
(* found equal.                                                            *)
KeepsSubmitting == []<>(pc = "root") \/ <>[](pc = "dead")
=============================================================================
