------------------------- MODULE MmrRequestsProofs --------------------------
(***************************************************************************)
(* Proofs about MmrRequests, for any number of blocks, announcements and   *)
(* faults.                                                                 *)
(***************************************************************************)
EXTENDS MmrRequests, WellFoundedInduction, TLAPS

(* The chain and the state of the loggers keep their types. *)
THEOREM RequestsTypeCorrect == Spec => []TypeOK
<1>1. Init => TypeOK
  BY RequestsAssumption DEF Init, TypeOK
<1>2. TypeOK /\ [Next]_vars => TypeOK'
  <2> SUFFICES ASSUME TypeOK, [Next]_vars PROVE TypeOK'
    OBVIOUS
  <2> USE RequestsAssumption DEF TypeOK
  <2>1. CASE NewBest
    BY <2>1 DEF NewBest, locals
  <2>2. CASE Replace
    BY <2>2 DEF Replace, locals
  <2>3. ASSUME NEW t \in Loggers, Subscribe(t) PROVE TypeOK'
    BY <2>3 DEF Subscribe, chain, locals
  <2>4. ASSUME NEW t \in Loggers, Log(t) PROVE TypeOK'
    BY <2>4 DEF Log, Take, chain, locals
  <2>5. CASE LogProof
    BY <2>5 DEF LogProof, Take, NextBlock, chain, Loggers
  <2>6. CASE RefuseProof
    BY <2>6 DEF RefuseProof, Take, chain, locals, Loggers
  <2>7. ASSUME NEW t \in Loggers, Fault(t) PROVE TypeOK'
    BY <2>7 DEF Fault, chain, locals
  <2>8. CASE UNCHANGED vars
    BY <2>8 DEF vars, chain, locals
  <2> QED
    BY <2>1, <2>2, <2>3, <2>4, <2>5, <2>6, <2>7, <2>8 DEF Next, Step
<1> QED
  BY <1>1, <1>2, PTL DEF Spec

(* The query follows the rounds, and the rounds the announcements. *)
THEOREM QueryStaysBehind == Spec => []QueryFollowsRounds
<1>1. Init => QueryFollowsRounds
  BY RequestsAssumption DEF Init, QueryFollowsRounds, Loggers
<1>2. TypeOK /\ QueryFollowsRounds /\ [Next]_vars => QueryFollowsRounds'
  <2> SUFFICES ASSUME TypeOK, QueryFollowsRounds, [Next]_vars
               PROVE QueryFollowsRounds'
    OBVIOUS
  <2> USE RequestsAssumption DEF TypeOK, QueryFollowsRounds, Loggers
  <2>1. CASE NewBest
    BY <2>1 DEF NewBest, locals
  <2>2. CASE Replace
    BY <2>2 DEF Replace, locals
  <2>3. ASSUME NEW t \in Loggers, Subscribe(t) PROVE QueryFollowsRounds'
    BY <2>3 DEF Subscribe, chain, locals
  <2>4. ASSUME NEW t \in Loggers, Log(t) PROVE QueryFollowsRounds'
    BY <2>4 DEF Log, Take, chain, locals
  <2>5. CASE LogProof
    <3> DEFINE query == mmr_blocks_to_query
               counter == mmr_blocks_benchmark_counter
    <3>1. /\ UNCHANGED <<start, best, announced, retracted, task>>
          /\ taken'["proofs"] = taken["proofs"] + 1
          /\ task["proofs"] = "running"
          /\ counter' = counter + 1
          /\ query' = Append(query, counter)
      BY <2>5 DEF LogProof, Take, NextBlock, chain
    <3>2. /\ Len(query') = Len(query) + 1
          /\ \A i \in 1..Len(query) : query'[i] = query[i]
          /\ query'[Len(query) + 1] = counter
      BY <3>1
    <3>3. \A i \in 1..Len(query') :
             query'[i] >= 1 /\ (query'[i] > 1 => query'[i] < counter')
      BY <3>1, <3>2
    <3> QED
      BY <3>1, <3>2, <3>3
  <2>6. CASE RefuseProof
    BY <2>6 DEF RefuseProof, Take, chain, locals
  <2>7. ASSUME NEW t \in Loggers, Fault(t) PROVE QueryFollowsRounds'
    BY <2>7 DEF Fault, chain, locals
  <2>8. CASE UNCHANGED vars
    BY <2>8 DEF vars, chain, locals
  <2> QED
    BY <2>1, <2>2, <2>3, <2>4, <2>5, <2>6, <2>7, <2>8 DEF Next, Step
<1> QED
  BY <1>1, <1>2, RequestsTypeCorrect, PTL DEF Spec

(* log_all_mmr_proofs is refused only for want of blocks that forks took.  *)
THEOREM ProofLogRefusedOnlyByForks == Spec => []RefusedOnlyByForks
<1>1. Init => RefusedOnlyByForks
  BY DEF Init, RefusedOnlyByForks, Loggers
<1>2. TypeOK /\ QueryFollowsRounds /\ RefusedOnlyByForks /\ [Next]_vars
        => RefusedOnlyByForks'
  <2> SUFFICES ASSUME TypeOK, QueryFollowsRounds, RefusedOnlyByForks, [Next]_vars
               PROVE RefusedOnlyByForks'
    OBVIOUS
  <2> USE DEF TypeOK, RefusedOnlyByForks, Loggers
  <2>1. CASE NewBest \/ Replace
    BY <2>1 DEF NewBest, Replace
  <2>2. ASSUME NEW t \in Loggers, Subscribe(t) \/ Log(t) \/ Fault(t)
        PROVE RefusedOnlyByForks'
    BY <2>2 DEF Subscribe, Log, Fault, chain
  <2>3. CASE LogProof
    BY <2>3 DEF LogProof, chain
  <2>4. CASE RefuseProof
    <3>1. UNCHANGED chain /\ taken["proofs"] < announced
      BY <2>4 DEF RefuseProof, Take
    <3>2. PICK i \in 1..Len(mmr_blocks_to_query) : mmr_blocks_to_query[i] \notin 1..best
      BY <2>4 DEF RefuseProof, generate_proof
    <3>3. mmr_blocks_to_query[i] \in Nat /\ mmr_blocks_to_query[i] > best
      BY SMTT(30), <3>2 DEF QueryFollowsRounds
    <3>4. CASE mmr_blocks_to_query[i] = 1
      BY <3>1, <3>3, <3>4 DEF QueryFollowsRounds, chain
    <3>5. CASE mmr_blocks_to_query[i] > 1
      <4>1. best < announced - 1
        BY <3>1, <3>3, <3>5 DEF QueryFollowsRounds
      <4> QED
        BY <3>1, <4>1 DEF QueryFollowsRounds, chain
    <3> QED
      BY <3>2, <3>3, <3>4, <3>5 DEF QueryFollowsRounds
  <2>5. CASE UNCHANGED vars
    BY <2>5 DEF vars, chain
  <2> QED
    BY <2>1, <2>2, <2>3, <2>4, <2>5 DEF Next, Step
<1> QED
  BY <1>1, <1>2, RequestsTypeCorrect, QueryStaysBehind, PTL DEF Spec

-----------------------------------------------------------------------------
(* Induction up to a bound, over the set of the numbers that have a        *)
(* property: first that the library's well-founded order is that of the    *)
(* numbers.                                                                *)
LEMMA LessIsRelated ==
    ASSUME NEW x \in Nat, NEW y \in Nat, y < x
    PROVE  <<y, x>> \in OpToRel(<, Nat)
BY Zenon DEF OpToRel

(* A set of numbers has a least one. *)
LEMMA LeastNatural ==
    ASSUME NEW T, T \subseteq Nat, T # {}
    PROVE  \E x \in T : \A y \in T : x <= y
<1>1. \E x \in T : \A y \in T : ~(<<y, x>> \in OpToRel(<, Nat))
  BY WFMin, NatLessThanWellFounded, Zenon
<1>2. PICK x \in T : \A y \in T : ~(<<y, x>> \in OpToRel(<, Nat))
  BY <1>1
<1>3. ASSUME NEW y \in T PROVE ~(y < x)
  BY <1>2, LessIsRelated, Zenon
<1>4. x \in T /\ \A y \in T : x <= y
  BY <1>3
<1> QED
  BY <1>4

(* If 0 is in a set, and with i < n also i + 1, then so are all up to n.   *)
LEMMA UpTo ==
    ASSUME NEW n \in Nat, NEW Good, 0 \in Good,
           \A i \in 0..n - 1 : i \in Good => i + 1 \in Good
    PROVE  \A i \in 0..n : i \in Good
<1> DEFINE Bad == {i \in 0..n : i \notin Good}
<1> SUFFICES ASSUME Bad # {} PROVE FALSE
  OBVIOUS
<1>1. Bad \subseteq Nat
  OBVIOUS
<1>2. PICK x \in Bad : \A y \in Bad : x <= y
  <2> HIDE DEF Bad
  <2> QED
    BY Zenon, <1>1, LeastNatural
<1>3. x # 0 /\ x - 1 \in 0..n - 1
  OBVIOUS
<1>4. x - 1 \in Good
  BY <1>2, <1>3
<1> QED
  BY <1>3, <1>4

(* do_mean.  The equation of its sum, up to n. *)
IsSum(s, n, sum) ==
    sum = [i \in 0..n |-> IF i = 0 THEN 0 ELSE sum[i - 1] + s[i]]

(* The recursion ends: a function satisfies the equation.                  *)
LEMMA SumExists ==
    ASSUME NEW s \in Seq(Nat)
    PROVE  \E sum : IsSum(s, Len(s), sum)
<1> DEFINE Good == {n \in 0..Len(s) : \E sum : IsSum(s, n, sum)}
<1>1. 0 \in Good
  <2> DEFINE g == [i \in 0..0 |-> 0]
  <2>1. IsSum(s, 0, g)
    BY DEF IsSum
  <2> QED
    BY <2>1
<1>2. ASSUME NEW n \in 0..Len(s) - 1, n \in Good PROVE n + 1 \in Good
  <2>1. PICK f : IsSum(s, n, f)
    BY <1>2
  <2> DEFINE g == [i \in 0..n + 1 |-> IF i = n + 1 THEN f[n] + s[n + 1] ELSE f[i]]
  <2>2. ASSUME NEW i \in 0..n + 1
        PROVE  g[i] = IF i = 0 THEN 0 ELSE g[i - 1] + s[i]
    BY <2>1 DEF IsSum
  <2>3. IsSum(s, n + 1, g)
    BY <2>2 DEF IsSum
  <2> QED
    BY <2>3
<1> HIDE DEF Good
<1>3. Len(s) \in Nat /\ Len(s) \in 0..Len(s)
  OBVIOUS
<1>4. Len(s) \in Good
  BY Zenon, <1>1, <1>2, <1>3, UpTo
<1> QED
  BY <1>4 DEF Good

(* So do_mean divides a sum of the sizes by their number. *)
LEMMA MeanEquation ==
    ASSUME NEW s \in Seq(Nat)
    PROVE  \E sum : IsSum(s, Len(s), sum) /\ do_mean(s) = sum[Len(s)] \div Len(s)
<1> DEFINE sum == CHOOSE f : IsSum(s, Len(s), f)
<1>1. IsSum(s, Len(s), sum)
  BY SumExists
<1>2. do_mean(s) = sum[Len(s)] \div Len(s)
  BY DEF do_mean, IsSum
<1> QED
  BY <1>1, <1>2

(* The sums are numbers. *)
LEMMA SumType ==
    ASSUME NEW s \in Seq(Nat), NEW sum, IsSum(s, Len(s), sum)
    PROVE  \A i \in 0..Len(s) : sum[i] \in Nat
<1> DEFINE Good == {i \in 0..Len(s) : sum[i] \in Nat}
<1>1. 0 \in Good
  BY DEF IsSum
<1>2. ASSUME NEW i \in 0..Len(s) - 1, i \in Good PROVE i + 1 \in Good
  BY <1>2 DEF IsSum
<1> HIDE DEF Good
<1>3. Len(s) \in Nat
  OBVIOUS
<1>4. \A i \in 0..Len(s) : i \in Good
  BY Zenon, <1>1, <1>2, <1>3, UpTo
<1> QED
  BY <1>4 DEF Good

(* The sum of n numbers that are at least c is at least c * n ... *)
LEMMA SumAbove ==
    ASSUME NEW s \in Seq(Nat), NEW sum, IsSum(s, Len(s), sum),
           NEW c \in Int, \A i \in 1..Len(s) : s[i] >= c
    PROVE  sum[Len(s)] >= c * Len(s)
<1> DEFINE Good == {i \in 0..Len(s) : sum[i] >= c * i}
<1>1. 0 \in Good
  BY DEF IsSum
<1>2. ASSUME NEW i \in 0..Len(s) - 1, i \in Good PROVE i + 1 \in Good
  <2>1. sum[i] \in Nat /\ sum[i] >= c * i
    BY <1>2, SumType
  <2>2. sum[i + 1] = sum[i] + s[i + 1] /\ s[i + 1] >= c /\ s[i + 1] \in Nat
    BY DEF IsSum
  <2>3. c * (i + 1) = c * i + c
    OBVIOUS
  <2> QED
    BY <2>1, <2>2, <2>3
<1> HIDE DEF Good
<1>3. Len(s) \in Nat /\ Len(s) \in 0..Len(s)
  OBVIOUS
<1>4. Len(s) \in Good
  BY Zenon, <1>1, <1>2, <1>3, UpTo
<1> QED
  BY <1>4 DEF Good

(* ... and that of numbers at most c at most c * n. *)
LEMMA SumBelow ==
    ASSUME NEW s \in Seq(Nat), NEW sum, IsSum(s, Len(s), sum),
           NEW c \in Int, \A i \in 1..Len(s) : s[i] <= c
    PROVE  sum[Len(s)] <= c * Len(s)
<1> DEFINE Good == {i \in 0..Len(s) : sum[i] <= c * i}
<1>1. 0 \in Good
  BY DEF IsSum
<1>2. ASSUME NEW i \in 0..Len(s) - 1, i \in Good PROVE i + 1 \in Good
  <2>1. sum[i] \in Nat /\ sum[i] <= c * i
    BY <1>2, SumType
  <2>2. sum[i + 1] = sum[i] + s[i + 1] /\ s[i + 1] <= c /\ s[i + 1] \in Nat
    BY DEF IsSum
  <2>3. c * (i + 1) = c * i + c
    OBVIOUS
  <2> QED
    BY <2>1, <2>2, <2>3
<1> HIDE DEF Good
<1>3. Len(s) \in Nat /\ Len(s) \in 0..Len(s)
  OBVIOUS
<1>4. Len(s) \in Good
  BY Zenon, <1>1, <1>2, <1>3, UpTo
<1> QED
  BY <1>4 DEF Good

(* What integer division leaves out. *)
LEMMA DivBounds ==
    ASSUME NEW a \in Nat, NEW n \in Nat, n > 0, NEW q \in Int, q = a \div n
    PROVE  q * n <= a /\ a < (q + 1) * n
OBVIOUS

(* The mean of some numbers is no less than one of them and no more than   *)
(* one: were all of them above it, so would be the sum.                    *)
LEMMA MeanBetween ==
    ASSUME NEW s \in Seq(Nat), s # <<>>
    PROVE  /\ do_mean(s) \in Nat
           /\ \E i \in DOMAIN s : s[i] <= do_mean(s)
           /\ \E j \in DOMAIN s : do_mean(s) <= s[j]
<1>1. PICK sum : IsSum(s, Len(s), sum) /\ do_mean(s) = sum[Len(s)] \div Len(s)
  BY MeanEquation
<1> DEFINE a == sum[Len(s)]
           n == Len(s)
           q == do_mean(s)
<1>2. a \in Nat /\ n \in Nat /\ n > 0 /\ DOMAIN s = 1..n
  BY <1>1, SumType
<1> HIDE DEF n
<1>3. q \in Nat
  BY <1>1, <1>2 DEF n
<1>4. q = a \div n
  BY <1>1 DEF n
<1> HIDE DEF q, a
<1>5. q * n <= a /\ a < (q + 1) * n
  BY <1>2, <1>3, <1>4, DivBounds
<1>6. \E i \in DOMAIN s : s[i] <= q
  <2> SUFFICES ASSUME \A i \in 1..n : ~(s[i] <= q) PROVE FALSE
    BY <1>2
  <2>1. q + 1 \in Int
    BY <1>3
  <2>2. \A i \in 1..n : s[i] >= q + 1
    BY <1>2, <1>3
  <2>3. a >= (q + 1) * n
    BY Zenon, <1>1, <2>1, <2>2, SumAbove DEF n, a
  <2>4. (q + 1) * n \in Int
    BY <1>2, <1>3
  <2> QED
    BY <1>2, <1>5, <2>3, <2>4
<1>7. \E j \in DOMAIN s : q <= s[j]
  <2> SUFFICES ASSUME \A i \in 1..n : ~(q <= s[i]) PROVE FALSE
    BY <1>2
  <2>1. q - 1 \in Int
    BY <1>3
  <2>2. \A i \in 1..n : s[i] <= q - 1
    BY <1>2, <1>3
  <2>3. a <= (q - 1) * n
    BY Zenon, <1>1, <2>1, <2>2, SumBelow DEF n, a
  <2>4. (q - 1) * n = q * n - n /\ q * n \in Int
    BY <1>2, <1>3
  <2> QED
    BY <1>2, <1>5, <2>3, <2>4
<1> QED
  BY <1>3, <1>6, <1>7 DEF q

(* A sequence over a set is one over any larger set: the sizes are         *)
(* numbers.                                                                *)
LEMMA SeqOfSubset ==
    ASSUME NEW S, NEW T, S \subseteq T
    PROVE  Seq(S) \subseteq Seq(T)
OBVIOUS

(* Every mean that log_all_mmr_proofs logs lies between two of the sizes   *)
(* it was computed from.                                                   *)
THEOREM MeanStaysWithinSizes == Spec => []MeanWithinSizes
<1>1. Init => MeanWithinSizes
  BY DEF Init, MeanWithinSizes
<1>2. TypeOK /\ MeanWithinSizes /\ [Next]_vars => MeanWithinSizes'
  <2> SUFFICES ASSUME TypeOK, MeanWithinSizes, [Next]_vars
               PROVE  MeanWithinSizes'
    OBVIOUS
  <2>1. CASE LogProof
    <3>1. PICK size \in ProofSizes : proof_sizes' = Append(proof_sizes, size)
      BY <2>1 DEF LogProof
    <3>2. PICK sizes : sizes = proof_sizes'
      OBVIOUS
    <3>3. sizes \in Seq(Nat) /\ sizes # <<>>
      <4>1. proof_sizes \in Seq(Nat) /\ size \in Nat
        BY RequestsAssumption, SeqOfSubset DEF TypeOK
      <4>2. sizes \in Seq(Nat) /\ Len(sizes) = Len(proof_sizes) + 1
        BY <3>1, <3>2, <4>1
      <4> QED
        BY <4>1, <4>2
    <3>4. mean' = do_mean(sizes)
      BY <2>1, <3>2 DEF LogProof
    <3> QED
      BY <3>2, <3>3, <3>4, MeanBetween DEF MeanWithinSizes
  <2>2. CASE UNCHANGED <<proof_sizes, mean>>
    BY <2>2 DEF MeanWithinSizes
  <2> QED
    BY <2>1, <2>2 DEF Next, Step, NewBest, Replace, Subscribe, Log, RefuseProof,
                      Fault, vars, locals
<1> QED
  BY <1>1, <1>2, RequestsTypeCorrect, PTL DEF Spec
=============================================================================
