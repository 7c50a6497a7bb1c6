---------------------------- MODULE MmrRequests -----------------------------
(***************************************************************************)
(* The relayer's tasks that only watch the sender's node: log_all_blocks,  *)
(* log_all_mmr_roots and log_all_mmr_proofs, each with its own             *)
(* subscription to best blocks.                                            *)
(*                                                                         *)
(* The subscription says how many best blocks there were; every request is *)
(* answered at the node's best block of that moment.  log_all_mmr_proofs   *)
(* asks in each round for one block more, counting rounds rather than      *)
(* block numbers, so what it asks for need not exist when best blocks      *)
(* replace each other.  Taking an announcement and the answer to the       *)
(* request it leads to are one step: a task may take it late, and nobody   *)
(* else sees how many it took.                                             *)
(***************************************************************************)
EXTENDS Integers, Sequences

CONSTANTS
    MaxNumber,      \* bound: number of the sender's best block
    MaxAnnounced,   \* bound: best blocks announced
    MaxFaults,      \* bound: failed calls
    ProofSizes      \* lengths of encoded proofs

ASSUME RequestsAssumption ==
    /\ MaxNumber \in Nat /\ MaxAnnounced \in Nat \ {0} /\ MaxFaults \in Nat
    /\ ProofSizes \subseteq Nat

VARIABLES
    start,      \* number of the best block when the relayer starts
    best,       \* number of the sender's best block
    announced,  \* how many best blocks were announced
    retracted,  \* history: how many blocks were replaced by others
    task,       \* logger -> "starting", "running", "failed" or "refused"
    taken,      \* logger -> announcements it has taken
    mmr_blocks_to_query, mmr_blocks_benchmark_counter, proof_sizes,
    mean,       \* history: the last mean logged
    faults

chain == <<start, best, announced, retracted>>
locals == <<mmr_blocks_to_query, mmr_blocks_benchmark_counter, proof_sizes, mean>>
vars == <<chain, task, taken, locals, faults>>

Loggers == {"blocks", "roots", "proofs"}

Init ==
    /\ start \in 0..MaxNumber /\ best = start
    /\ announced = 1 /\ retracted = 0
    /\ task = [t \in Loggers |-> "starting"]
    /\ taken = [t \in Loggers |-> 0]
    /\ mmr_blocks_to_query = <<1>> /\ mmr_blocks_benchmark_counter = 1
    /\ proof_sizes = <<>> /\ mean = 0
    /\ faults = 0

-----------------------------------------------------------------------------
(* The sender: a higher best block (some may be skipped), or one that      *)
(* replaces those from its number on.                                      *)
NewBest ==
    /\ announced < MaxAnnounced /\ announced' = announced + 1
    /\ \E n \in best + 1..MaxNumber : best' = n
    /\ UNCHANGED <<start, retracted, task, taken, locals, faults>>

Replace ==
    /\ announced < MaxAnnounced /\ announced' = announced + 1
    /\ \E n \in 1..best :
          best' = n /\ retracted' = retracted + (best - n) + 1
    /\ UNCHANGED <<start, task, taken, locals, faults>>

-----------------------------------------------------------------------------
(* subscribe_best starts with the best block of that moment. *)
Subscribe(t) ==
    /\ task[t] = "starting"
    /\ task' = [task EXCEPT ![t] = "running"]
    /\ taken' = [taken EXCEPT ![t] = announced - 1]
    /\ UNCHANGED <<chain, locals, faults>>

TakeAny(t) ==                                                    \* mutant
    /\ task[t] = "running"
    /\ taken' = [taken EXCEPT ![t] = @ + 1]
Take(t) ==
    /\ task[t] = "running" /\ taken[t] < announced
    /\ taken' = [taken EXCEPT ![t] = @ + 1]

(* log_all_blocks and log_all_mmr_roots log, and keep nothing. *)
Log(t) ==
    /\ t \in {"blocks", "roots"} /\ Take(t)
    /\ UNCHANGED <<chain, task, locals, faults>>

(* The node has a leaf for each block up to its best one. *)
generate_proof(blocks) == \A i \in DOMAIN blocks : blocks[i] \in 1..best

DivideByQueries(sizes) ==                                        \* mutant
    LET sum[i \in 0..Len(sizes)] == IF i = 0 THEN 0 ELSE sum[i - 1] + sizes[i]
    IN  sum[Len(sizes)] \div Len(mmr_blocks_to_query')
do_mean(sizes) ==
    LET sum[i \in 0..Len(sizes)] == IF i = 0 THEN 0 ELSE sum[i - 1] + sizes[i]
    IN  sum[Len(sizes)] \div Len(sizes)

(* What a round adds to the query. *)
CountFirst == mmr_blocks_benchmark_counter + 1                   \* mutant
NextBlock == mmr_blocks_benchmark_counter

LogProof ==
    /\ Take("proofs")
    /\ generate_proof(mmr_blocks_to_query)
    /\ mmr_blocks_to_query' = Append(mmr_blocks_to_query, NextBlock)
    /\ mmr_blocks_benchmark_counter' = mmr_blocks_benchmark_counter + 1
    /\ \E size \in ProofSizes : proof_sizes' = Append(proof_sizes, size)
    /\ mean' = do_mean(proof_sizes')
    /\ UNCHANGED <<chain, task, faults>>

(* `?' on the node's error ends the task. *)
RefuseProof ==
    /\ Take("proofs")
    /\ ~generate_proof(mmr_blocks_to_query)
    /\ task' = [task EXCEPT !["proofs"] = "refused"]
    /\ UNCHANGED <<chain, locals, faults>>

(* A failed call, or the end of the subscription. *)
Fault(t) ==
    /\ faults < MaxFaults /\ faults' = faults + 1
    /\ task[t] \in {"starting", "running"}
    /\ task' = [task EXCEPT ![t] = "failed"]
    /\ UNCHANGED <<chain, taken, locals>>

Step(t) == Subscribe(t) \/ Log(t) \/ (t = "proofs" /\ (LogProof \/ RefuseProof))
Next == NewBest \/ Replace \/ \E t \in Loggers : Step(t) \/ Fault(t)
Spec == Init /\ [][Next]_vars

-----------------------------------------------------------------------------
(* The chain and the state of the loggers have their types. *)
TypeOK ==
    /\ start \in 0..MaxNumber /\ best \in 0..MaxNumber
    /\ announced \in 1..MaxAnnounced /\ retracted \in Nat
    /\ task \in [Loggers -> {"starting", "running", "failed", "refused"}]
    /\ taken \in [Loggers -> 0..announced]
    /\ mmr_blocks_benchmark_counter \in Nat
    /\ mmr_blocks_to_query \in Seq(Nat)
    /\ proof_sizes \in Seq(ProofSizes)
    /\ faults \in 0..MaxFaults

(* The node refuses a query of log_all_mmr_proofs, which ends the task,    *)
(* only if the relayer was started before the first block, or if since     *)
(* then more best blocks were replaced than there were at the start.       *)
RefusedOnlyByForks ==
    task["proofs"] = "refused" => start = 0 \/ retracted > start

(* What makes it so: the query has one block per round, none above the     *)
(* number of rounds; a round is made for an announcement; and the best     *)
(* block rises with every announcement but for the blocks replaced.        *)
QueryFollowsRounds ==
    /\ best + retracted >= start + announced - 1
    /\ start > 0 => best > 0
    /\ mmr_blocks_benchmark_counter \in 1..taken["proofs"] + 1
    /\ task["proofs"] = "starting" => mmr_blocks_benchmark_counter = 1
    /\ Len(mmr_blocks_to_query) = mmr_blocks_benchmark_counter
    /\ \A i \in 1..Len(mmr_blocks_to_query) :
          /\ mmr_blocks_to_query[i] >= 1
          /\ mmr_blocks_to_query[i] > 1 =>
                mmr_blocks_to_query[i] < mmr_blocks_benchmark_counter

(* The mean logged lies between the smallest and the largest size so far,  *)
(* and is computed only when there is one (do_mean divides by their        *)
(* number).                                                                *)
MeanWithinSizes ==
    proof_sizes # <<>> =>
        \E i, j \in DOMAIN proof_sizes :
            proof_sizes[i] <= mean /\ mean <= proof_sizes[j]
=============================================================================
