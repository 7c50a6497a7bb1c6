---------------------------- MODULE SenderProofs ----------------------------
(***************************************************************************)
(* Proofs about Sender, and about Channel, which puts the relay chain and  *)
(* the recipient's check behind it, for any number of blocks and pages.    *)
(*                                                                         *)
(* The inductive invariant of the sender has two halves.  History: the MMRs have one     *)
(* leaf per block, and a digest per finished block commits to the leaves   *)
(* up to it.  Queue: the pages to a para lie at the indices from some lo   *)
(* up to the next index, numbered without a gap up to the last one sent,   *)
(* and no leaf starts after the page at lo.                                *)
(*                                                                         *)
(* Channel's runs are runs of Sender with steps of others in between.  Its *)
(* own invariant says that included heads are finished blocks, that roots  *)
(* seen are those of relay blocks, and that pages in leaves were sent;     *)
(* it rests on roots never changing once made.                             *)
(***************************************************************************)
EXTENDS Channel, SequenceTheorems, FiniteSetTheorems, TLAPS

Leaf == [xcmp_msgs : Seq(Page), parent_number : 0..MaxBlocks - 1]

StateOK ==
    /\ number \in 0..MaxBlocks
    /\ open \in BOOLEAN
    /\ open => number > 0
    /\ DOMAIN OutboundXcmpMessages = Paras
    /\ nextIndex \in [Paras -> Nat]
    /\ sent \in [Paras -> 0..MaxPages]

HistoryOK ==
    /\ mmr \in [MmrId -> Seq(Leaf)]
    /\ \A id \in MmrId : Len(mmr[id]) = number
    /\ \A id \in MmrId : \A n \in 1..number : mmr[id][n].parent_number = n - 1
    /\ digests \in Seq(Seq(Leaf) \X Seq(Leaf))
    /\ Len(digests) = IF open THEN number - 1 ELSE number
    /\ \A n \in 1..Len(digests) :
          digests[n] = <<SubSeq(mmr[0], 1, n), SubSeq(mmr[1], 1, n)>>

(* The pages to para p, from index lo on. *)
PagesFrom(p, lo) ==
    /\ DOMAIN OutboundXcmpMessages[p] = lo..nextIndex[p] - 1
    /\ \A i \in lo..nextIndex[p] - 1 :
          OutboundXcmpMessages[p][i] = [to |-> p, id |-> sent[p] - nextIndex[p] + i + 1]

(* The leaves of MMR id start at or before page number first. *)
StartBy(id, first) ==
    \A n \in 1..Len(mmr[id]) :
        mmr[id][n].xcmp_msgs # <<>> => mmr[id][n].xcmp_msgs[1].id <= first

QueueOK ==
    \A id \in MmrId :
        LET p == ParaIdentifier(id)
        IN  /\ nextIndex[p] <= sent[p]
            /\ \E lo \in 0..nextIndex[p] :
                  PagesFrom(p, lo) /\ StartBy(id, sent[p] - nextIndex[p] + lo + 1)

SenderInv == StateOK /\ HistoryOK /\ QueueOK /\ LeavesInOrder

-----------------------------------------------------------------------------
(* The two channels go to the two paras. *)
LEMMA Channels ==
    /\ MmrId = {0, 1} /\ Paras = {1, 2}
    /\ \A id \in MmrId : ParaIdentifier(id) = id + 1 /\ ParaIdentifier(id) \in Paras
    /\ \A p \in Paras : p - 1 \in MmrId /\ ParaIdentifier(p - 1) = p
BY DEF MmrId, Paras, ParaIdentifier

(* The prefixes of a sequence are those of every extension of it. *)
LEMMA PrefixOfAppend ==
    ASSUME NEW S, NEW s \in Seq(S), NEW e \in S, NEW n \in 0..Len(s)
    PROVE  SubSeq(Append(s, e), 1, n) = SubSeq(s, 1, n)
<1>1. Append(s, e) \in Seq(S) /\ Len(Append(s, e)) = Len(s) + 1
  BY AppendProperties
<1>2. \A i \in 1..n : Append(s, e)[i] = s[i] /\ s[i] \in S
  BY AppendProperties, ElementOfSeq
<1>3. /\ SubSeq(s, 1, n) \in Seq(S)
      /\ Len(SubSeq(s, 1, n)) = IF 1 <= n THEN n - 1 + 1 ELSE 0
      /\ \A i \in 1..n - 1 + 1 : SubSeq(s, 1, n)[i] = s[1 + i - 1]
  BY <1>2, SubSeqProperties
<1>4. /\ SubSeq(Append(s, e), 1, n) \in Seq(S)
      /\ Len(SubSeq(Append(s, e), 1, n)) = IF 1 <= n THEN n - 1 + 1 ELSE 0
      /\ \A i \in 1..n - 1 + 1 : SubSeq(Append(s, e), 1, n)[i] = Append(s, e)[1 + i - 1]
  BY <1>2, SubSeqProperties
<1>5. QED
  BY <1>2, <1>3, <1>4, SeqEqual

(* get_xcmp_messages returns the whole queue if it starts at index 0, and  *)
(* nothing otherwise.                                                      *)
LEMMA RunOfPages ==
    ASSUME NEW pages, NEW lo \in Nat, NEW next \in Nat, lo <= next,
           DOMAIN pages = lo..next - 1
    PROVE  LastOfRun(pages) = IF lo = 0 THEN next ELSE 0
<1>1. Cardinality(DOMAIN pages) = next - lo
  BY FS_Interval
<1>2. CASE lo = 0
  <2>1. next \in Contiguous(pages) /\ \A m \in Contiguous(pages) : m <= next
    BY <1>1, <1>2 DEF Contiguous
  <2>2. \A n \in Contiguous(pages) :
           (\A m \in Contiguous(pages) : m <= n) => n = next
    BY <2>1, <1>1 DEF Contiguous
  <2>3. QED
    BY Zenon, <1>2, <2>1, <2>2 DEF LastOfRun
<1>3. CASE lo # 0
  <2>1. 0 \in Contiguous(pages)
    BY <1>1 DEF Contiguous
  <2>2. \A n \in Contiguous(pages) : n = 0
    <3>1. SUFFICES ASSUME NEW n \in 0..next - lo, 0..(n - 1) \subseteq lo..next - 1
                   PROVE  n = 0
      BY SMTT(30), <1>1 DEF Contiguous
    <3>2. n > 0 => 0 \in 0..(n - 1)
      OBVIOUS
    <3>3. QED
      BY <1>3, <3>1, <3>2
  <2>3. QED
    BY <1>3, <2>1, <2>2 DEF LastOfRun
<1>4. QED
  BY <1>2, <1>3

(* What get_xcmp_messages returns in a state of the invariant. *)
LEMMA MessagesOfQueue ==
    ASSUME NEW p \in Paras, NEW lo \in 0..nextIndex[p], StateOK,
           nextIndex[p] <= sent[p], PagesFrom(p, lo)
    PROVE  LET msgs == get_xcmp_messages(p)
           IN  /\ msgs \in Seq(Page)
               /\ msgs # <<>> => lo = 0
               /\ \A i \in DOMAIN msgs :
                     msgs[i] = [to |-> p, id |-> sent[p] - nextIndex[p] + i]
<1> DEFINE pages == OutboundXcmpMessages[p]
           last == LastOfRun(pages)
           msgs == [i \in 1..last |-> pages[i - 1]]
<1>1. nextIndex[p] \in Nat /\ sent[p] \in 0..MaxPages /\ MaxPages \in Nat
  BY SenderAssumption DEF StateOK
<1>2. last = IF lo = 0 THEN nextIndex[p] ELSE 0
  BY <1>1, RunOfPages DEF PagesFrom
<1>3. \A i \in 1..last : pages[i - 1] = [to |-> p, id |-> sent[p] - nextIndex[p] + i]
  <2> SUFFICES ASSUME NEW i \in 1..last
               PROVE  pages[i - 1] = [to |-> p, id |-> sent[p] - nextIndex[p] + i]
    OBVIOUS
  <2>1. i - 1 \in lo..nextIndex[p] - 1 /\ (i - 1) + 1 = i
    BY <1>1, <1>2
  <2>2. pages[i - 1] = [to |-> p, id |-> sent[p] - nextIndex[p] + (i - 1) + 1]
    BY <2>1 DEF PagesFrom
  <2>3. sent[p] - nextIndex[p] + (i - 1) + 1 = sent[p] - nextIndex[p] + i
    BY <1>1, <1>2
  <2>4. QED
    BY <2>2, <2>3
<1>4. \A i \in 1..last : pages[i - 1] \in Page
  <2>1. \A i \in 1..last : sent[p] - nextIndex[p] + i \in 1..MaxPages
    BY <1>1, <1>2
  <2>2. SUFFICES ASSUME NEW i \in 1..last
                 PROVE  pages[i - 1] \in Page
    OBVIOUS
  <2>3. pages[i - 1] = [to |-> p, id |-> sent[p] - nextIndex[p] + i]
    BY <1>3
  <2>4. sent[p] - nextIndex[p] + i \in 1..MaxPages
    BY <2>1
  <2>5. QED
    BY <2>3, <2>4 DEF Page
<1>5. last \in Nat
  BY <1>1, <1>2
<1>6. msgs \in Seq(Page)
  BY <1>4, <1>5
<1>7. msgs # <<>> => lo = 0
  BY <1>2
<1>8. get_xcmp_messages(p) = msgs
  BY DEF get_xcmp_messages
<1>9. QED
  BY <1>3, <1>6, <1>7, <1>8

LEMMA InitSenderInv == Init => SenderInv
<1> SUFFICES ASSUME Init PROVE SenderInv
  OBVIOUS
<1>1. StateOK
  <2>1. open \in BOOLEAN /\ (open => number > 0)
    BY Zenon DEF Init
  <2>2. number \in 0..MaxBlocks
    BY SenderAssumption DEF Init
  <2>3. nextIndex \in [Paras -> Nat] /\ sent \in [Paras -> 0..MaxPages]
    BY SenderAssumption DEF Init
  <2>4. DOMAIN OutboundXcmpMessages = Paras
    BY DEF Init
  <2>5. QED
    BY <2>1, <2>2, <2>3, <2>4 DEF StateOK
<1>2. HistoryOK
  BY DEF Init, HistoryOK
<1>3. QueueOK
  <2> SUFFICES ASSUME NEW id \in MmrId
               PROVE  LET p == ParaIdentifier(id)
                      IN  /\ nextIndex[p] <= sent[p]
                          /\ PagesFrom(p, 0)
                          /\ StartBy(id, sent[p] - nextIndex[p] + 0 + 1)
                          /\ 0 \in 0..nextIndex[p]
    BY DEF QueueOK
  <2>1. ParaIdentifier(id) \in Paras
    BY Channels
  <2>2. QED
    BY <2>1 DEF Init, PagesFrom, StartBy
<1>4. LeavesInOrder
  BY DEF Init, LeavesInOrder
<1>5. QED
  BY <1>1, <1>2, <1>3, <1>4 DEF SenderInv

(* The leaf a block makes is of its type, holds pages of its channel in    *)
(* order, and starts with the page at the front of the queue.              *)
LEMMA NewLeaf ==
    ASSUME SenderInv, number < MaxBlocks, NEW id \in MmrId
    PROVE  LET p == ParaIdentifier(id)
               msgs == leaf_data(id).xcmp_msgs
               first == sent[p] - nextIndex[p] + 1
           IN  /\ leaf_data(id) \in Leaf
               /\ leaf_data(id).parent_number = number
               /\ \A i \in DOMAIN msgs : msgs[i].to = id + 1 /\ msgs[i].id = first + i - 1
               /\ msgs # <<>> => msgs[1].id = first /\ StartBy(id, first)
<1> DEFINE p == ParaIdentifier(id)
           msgs == get_xcmp_messages(p)
           first == sent[p] - nextIndex[p] + 1
<1>1. p \in Paras /\ p = id + 1
  BY Channels
<1>2. /\ nextIndex[p] \in Nat /\ sent[p] \in Nat /\ nextIndex[p] <= sent[p]
      /\ number \in 0..MaxBlocks /\ MaxBlocks \in Nat /\ StateOK
  BY <1>1, SenderAssumption DEF SenderInv, StateOK, QueueOK
<1>3. PICK lo \in 0..nextIndex[p] :
         PagesFrom(p, lo) /\ StartBy(id, sent[p] - nextIndex[p] + lo + 1)
  BY DEF SenderInv, QueueOK
<1>4. /\ msgs \in Seq(Page)
      /\ msgs # <<>> => lo = 0
      /\ \A i \in DOMAIN msgs : msgs[i] = [to |-> p, id |-> sent[p] - nextIndex[p] + i]
  BY <1>1, <1>2, <1>3, MessagesOfQueue
<1>5. leaf_data(id) = [xcmp_msgs |-> msgs, parent_number |-> number]
  BY DEF leaf_data
<1>6. leaf_data(id) \in Leaf
  BY <1>2, <1>4, <1>5 DEF Leaf
<1>7. \A i \in DOMAIN msgs : msgs[i].to = id + 1 /\ msgs[i].id = first + i - 1
  <2> SUFFICES ASSUME NEW i \in DOMAIN msgs
               PROVE  msgs[i].to = id + 1 /\ msgs[i].id = first + i - 1
    OBVIOUS
  <2>1. i \in Nat
    BY <1>4
  <2>2. msgs[i] = [to |-> p, id |-> sent[p] - nextIndex[p] + i]
    BY <1>4
  <2>3. first + i - 1 = sent[p] - nextIndex[p] + i
    BY <1>2, <2>1
  <2>4. QED
    BY <1>1, <2>2, <2>3
<1>8. ASSUME msgs # <<>>
      PROVE  msgs[1].id = first /\ StartBy(id, first)
  <2>1. 1 \in DOMAIN msgs
    BY <1>4, <1>8, EmptySeq, LenProperties
  <2>2. first + 1 - 1 = first
    BY <1>2
  <2>3. sent[p] - nextIndex[p] + lo + 1 = first
    BY <1>2, <1>4, <1>8
  <2>4. QED
    BY <1>3, <1>7, <2>1, <2>2, <2>3
<1>9. leaf_data(id).xcmp_msgs = msgs /\ leaf_data(id).parent_number = number
  BY <1>5
<1>10. QED
  BY <1>6, <1>7, <1>8, <1>9

LEMMA InitializeBlockInv == SenderInv /\ InitializeBlock => SenderInv'
<1> SUFFICES ASSUME SenderInv, InitializeBlock PROVE SenderInv'
  OBVIOUS
<1>1. /\ number \in 0..MaxBlocks /\ number < MaxBlocks /\ MaxBlocks \in Nat
      /\ number' = number + 1 /\ open = FALSE /\ open' = TRUE
  BY SenderAssumption DEF SenderInv, StateOK, InitializeBlock
<1>2. UNCHANGED <<OutboundXcmpMessages, nextIndex, digests, sent>>
  BY DEF InitializeBlock
<1>3. ASSUME NEW id \in MmrId
      PROVE  /\ mmr[id] \in Seq(Leaf) /\ Len(mmr[id]) = number
             /\ mmr'[id] \in Seq(Leaf) /\ Len(mmr'[id]) = number + 1
             /\ \A n \in 1..number : mmr'[id][n] = mmr[id][n]
             /\ mmr'[id][number + 1] = leaf_data(id)
             /\ mmr'[id] = Append(mmr[id], leaf_data(id))
             /\ leaf_data(id) \in Leaf
  <2>1. mmr[id] \in Seq(Leaf) /\ Len(mmr[id]) = number
    BY DEF SenderInv, HistoryOK
  <2>2. mmr'[id] = Append(mmr[id], leaf_data(id))
    BY DEF InitializeBlock
  <2>3. leaf_data(id) \in Leaf
    BY <1>1, NewLeaf
  <2>4. QED
    BY <2>1, <2>2, <2>3, AppendProperties
<1>4. StateOK'
  <2>1. number' \in 0..MaxBlocks /\ number' > 0
    BY <1>1
  <2>2. QED
    BY <1>1, <1>2, <2>1 DEF SenderInv, StateOK
<1>5. HistoryOK'
  <2>1. mmr' \in [MmrId -> Seq(Leaf)]
    BY <1>3 DEF InitializeBlock
  <2>2. \A id \in MmrId : Len(mmr'[id]) = number'
    BY <1>1, <1>3
  <2>3. \A id \in MmrId : \A n \in 1..number' : mmr'[id][n].parent_number = n - 1
    <3> SUFFICES ASSUME NEW id \in MmrId, NEW n \in 1..number'
                 PROVE  mmr'[id][n].parent_number = n - 1
      OBVIOUS
    <3>1. CASE n \in 1..number
      BY Zenon, <1>3, <3>1 DEF SenderInv, HistoryOK
    <3>2. CASE n = number + 1
      <4>1. leaf_data(id).parent_number = number
        BY <1>1, NewLeaf
      <4>2. QED
        BY <1>1, <1>3, <3>2, <4>1
    <3>3. QED
      BY <1>1, <3>1, <3>2
  <2>4. /\ digests \in Seq(Seq(Leaf) \X Seq(Leaf)) /\ Len(digests) = number
    BY <1>1 DEF SenderInv, HistoryOK
  <2>5. Len(digests') = IF open' THEN number' - 1 ELSE number'
    BY <1>1, <1>2, <2>4
  <2>6. \A n \in 1..Len(digests) :
           digests[n] = <<SubSeq(mmr'[0], 1, n), SubSeq(mmr'[1], 1, n)>>
    <3> SUFFICES ASSUME NEW n \in 1..Len(digests)
                 PROVE  digests[n] = <<SubSeq(mmr'[0], 1, n), SubSeq(mmr'[1], 1, n)>>
      OBVIOUS
    <3>1. digests[n] = <<SubSeq(mmr[0], 1, n), SubSeq(mmr[1], 1, n)>>
      BY DEF SenderInv, HistoryOK
    <3>2. 0 \in MmrId /\ 1 \in MmrId
      BY Channels
    <3>3. n \in 0..number
      BY <1>1, <2>4
    <3>4. \A id \in MmrId : SubSeq(mmr'[id], 1, n) = SubSeq(mmr[id], 1, n)
      BY <1>3, <3>3, PrefixOfAppend
    <3>5. QED
      BY <3>1, <3>2, <3>4
  <2>7. QED
    BY <1>2, <2>1, <2>2, <2>3, <2>4, <2>5, <2>6 DEF HistoryOK
<1>6. QueueOK'
  <2> SUFFICES ASSUME NEW id \in MmrId
               PROVE  LET p == ParaIdentifier(id)
                      IN  /\ nextIndex'[p] <= sent'[p]
                          /\ \E lo \in 0..nextIndex'[p] :
                                /\ PagesFrom(p, lo)'
                                /\ StartBy(id, sent[p] - nextIndex[p] + lo + 1)'
    BY <1>2 DEF QueueOK
  <2> DEFINE p == ParaIdentifier(id)
  <2>1. /\ p \in Paras /\ nextIndex[p] \in Nat /\ sent[p] \in Nat
        /\ nextIndex[p] <= sent[p]
    BY Channels DEF SenderInv, StateOK, QueueOK
  <2>2. PICK lo \in 0..nextIndex[p] :
           PagesFrom(p, lo) /\ StartBy(id, sent[p] - nextIndex[p] + lo + 1)
    BY DEF SenderInv, QueueOK
  <2>3. PagesFrom(p, lo)'
    BY <1>2, <2>2 DEF PagesFrom
  <2>4. StartBy(id, sent[p] - nextIndex[p] + lo + 1)'
    <3> SUFFICES ASSUME NEW n \in 1..number + 1, mmr'[id][n].xcmp_msgs # <<>>
                 PROVE  mmr'[id][n].xcmp_msgs[1].id <= sent[p] - nextIndex[p] + lo + 1
      BY <1>2, <1>3 DEF StartBy
    <3>1. CASE n \in 1..number
      BY SMTT(30), <1>3, <2>2, <3>1 DEF StartBy
    <3>2. CASE n = number + 1
      <4>1. mmr'[id][n].xcmp_msgs[1].id = sent[p] - nextIndex[p] + 1
        BY <1>1, <1>3, <3>2, NewLeaf
      <4>2. QED
        BY <2>1, <4>1
    <3>3. QED
      BY <1>1, <3>1, <3>2
  <2>5. QED
    BY <1>2, <2>1, <2>2, <2>3, <2>4
<1>7. LeavesInOrder'
  <2> SUFFICES ASSUME NEW id \in MmrId, NEW n \in 1..number + 1,
                      NEW i \in DOMAIN mmr'[id][n].xcmp_msgs
               PROVE  LET msgs == mmr'[id][n].xcmp_msgs
                      IN  /\ msgs[i].to = id + 1
                          /\ msgs[i].id = msgs[1].id + i - 1
                          /\ \A m \in 1..n - 1 :
                                mmr'[id][m].xcmp_msgs # <<>> =>
                                    mmr'[id][m].xcmp_msgs[1].id <= msgs[1].id
    <3>1. \A id \in MmrId : DOMAIN mmr'[id] = 1..number + 1
      BY <1>1, <1>3, LenProperties
    <3>2. QED
      BY Zenon, <3>1 DEF LeavesInOrder
  <2>1. CASE n \in 1..number
    <3>1. mmr'[id][n] = mmr[id][n] /\ \A m \in 1..n - 1 : mmr'[id][m] = mmr[id][m]
      BY <1>1, <1>3, <2>1
    <3>2. n \in DOMAIN mmr[id] /\ i \in DOMAIN mmr[id][n].xcmp_msgs
      BY <1>3, <2>1, <3>1, LenProperties
    <3>3. LET msgs == mmr[id][n].xcmp_msgs
          IN  /\ msgs[i].to = id + 1
              /\ msgs[i].id = msgs[1].id + i - 1
              /\ \A m \in 1..n - 1 :
                    mmr[id][m].xcmp_msgs # <<>> =>
                        mmr[id][m].xcmp_msgs[1].id <= msgs[1].id
      BY <3>2 DEF SenderInv, LeavesInOrder
    <3>4. QED
      BY <3>1, <3>3
  <2>2. CASE n = number + 1
    <3> DEFINE p == ParaIdentifier(id)
               msgs == leaf_data(id).xcmp_msgs
               first == sent[p] - nextIndex[p] + 1
    <3>1. mmr'[id][n].xcmp_msgs = msgs /\ i \in DOMAIN msgs /\ msgs \in Seq(Page)
      BY <1>3, <2>2 DEF Leaf
    <3>2. msgs # <<>>
      BY <3>1
    <3>3. /\ msgs[i].to = id + 1 /\ msgs[i].id = first + i - 1
          /\ msgs[1].id = first /\ StartBy(id, first)
      BY <1>1, <3>1, <3>2, NewLeaf
    <3>4. \A m \in 1..n - 1 : mmr'[id][m].xcmp_msgs # <<>> =>
             mmr'[id][m].xcmp_msgs[1].id <= first
      <4>1. \A m \in 1..n - 1 : m \in 1..number
        BY <1>1, <2>2
      <4>2. QED
        BY Zenon, <1>3, <3>3, <4>1 DEF StartBy
    <3>5. QED
      BY <3>1, <3>3, <3>4
  <2>3. n \in 1..number \/ n = number + 1
    BY <1>1
  <2>4. QED
    BY Zenon, <2>1, <2>2, <2>3
<1>8. QED
  BY <1>4, <1>5, <1>6, <1>7 DEF SenderInv

LEMMA SendXcmInv == ASSUME NEW q \in Paras PROVE SenderInv /\ SendXcm(q) => SenderInv'
<1> SUFFICES ASSUME SenderInv, SendXcm(q) PROVE SenderInv'
  OBVIOUS
<1>1. /\ sent' = [sent EXCEPT ![q] = sent[q] + 1]
      /\ nextIndex' = [nextIndex EXCEPT ![q] = nextIndex[q] + 1]
      /\ UNCHANGED <<number, open, mmr, digests>>
      /\ sent[q] < MaxPages
  BY DEF SendXcm
<1>2. /\ DOMAIN OutboundXcmpMessages' = Paras
      /\ \A p \in Paras \ {q} : OutboundXcmpMessages'[p] = OutboundXcmpMessages[p]
      /\ OutboundXcmpMessages'[q] =
            [i \in DOMAIN OutboundXcmpMessages[q] \cup {nextIndex[q]} |->
                IF i = nextIndex[q] THEN [to |-> q, id |-> sent[q] + 1]
                ELSE OutboundXcmpMessages[q][i]]
  BY DEF SendXcm, SenderInv, StateOK
<1>3. nextIndex \in [Paras -> Nat] /\ sent \in [Paras -> 0..MaxPages] /\ MaxPages \in Nat
  BY SenderAssumption DEF SenderInv, StateOK
<1>4. StateOK'
  <2>1. nextIndex' \in [Paras -> Nat]
    BY <1>1, <1>3
  <2>2. sent' \in [Paras -> 0..MaxPages]
    <3>1. sent[q] + 1 \in 0..MaxPages
      BY <1>1, <1>3
    <3>2. QED
      BY <1>1, <1>3, <3>1
  <2>3. QED
    BY <1>1, <1>2, <2>1, <2>2 DEF SenderInv, StateOK
<1>5. HistoryOK' /\ LeavesInOrder'
  BY <1>1 DEF SenderInv, HistoryOK, LeavesInOrder
<1>6. QueueOK'
  <2> SUFFICES ASSUME NEW id \in MmrId
               PROVE  LET p == ParaIdentifier(id)
                      IN  /\ nextIndex[p]' <= sent[p]'
                          /\ \E lo \in (0..nextIndex[p])' :
                                /\ PagesFrom(p, lo)'
                                /\ StartBy(id, sent[p] - nextIndex[p] + lo + 1)'
    BY DEF QueueOK
  <2> DEFINE p == ParaIdentifier(id)
  <2>1. /\ p \in Paras /\ nextIndex[p] \in Nat /\ sent[p] \in Nat
        /\ nextIndex[p] <= sent[p]
    BY <1>3, Channels DEF SenderInv, QueueOK
  <2>2. PICK lo \in 0..nextIndex[p] :
           PagesFrom(p, lo) /\ StartBy(id, sent[p] - nextIndex[p] + lo + 1)
    BY DEF SenderInv, QueueOK
  <2>3. /\ nextIndex'[p] \in Nat /\ sent'[p] \in Nat
        /\ sent'[p] - nextIndex'[p] = sent[p] - nextIndex[p]
        /\ nextIndex'[p] <= sent'[p] /\ lo \in 0..nextIndex'[p]
    BY <1>1, <1>3, <2>1
  <2>4. StartBy(id, sent[p] - nextIndex[p] + lo + 1)'
    BY <1>1, <2>2, <2>3 DEF StartBy
  <2>5. PagesFrom(p, lo)'
    <3>1. CASE p # q
      <4>1. /\ OutboundXcmpMessages'[p] = OutboundXcmpMessages[p]
            /\ nextIndex'[p] = nextIndex[p] /\ sent'[p] = sent[p]
        BY <1>1, <1>2, <1>3, <2>1, <3>1
      <4>2. QED
        BY <2>2, <4>1 DEF PagesFrom
    <3>2. CASE p = q
      <4>1. nextIndex'[p] = nextIndex[p] + 1
        BY <1>1, <1>3, <3>2
      <4>2. DOMAIN OutboundXcmpMessages[p] = lo..nextIndex[p] - 1
        BY <2>2 DEF PagesFrom
      <4>3. DOMAIN OutboundXcmpMessages'[p] = lo..nextIndex'[p] - 1
        <5>1. DOMAIN OutboundXcmpMessages'[p] = (lo..nextIndex[p] - 1) \cup {nextIndex[p]}
          BY <1>2, <3>2, <4>2
        <5>2. (lo..nextIndex[p] - 1) \cup {nextIndex[p]} = lo..nextIndex'[p] - 1
          BY <2>1, <4>1
        <5>3. QED
          BY <5>1, <5>2
      <4>4. ASSUME NEW i \in lo..nextIndex'[p] - 1
            PROVE  OutboundXcmpMessages'[p][i] =
                      [to |-> p, id |-> sent'[p] - nextIndex'[p] + i + 1]
        <5>1. CASE i = nextIndex[p]
          <6>1. sent'[p] - nextIndex'[p] + i + 1 = sent[p] + 1
            BY <2>1, <2>3, <5>1
          <6>2. OutboundXcmpMessages'[p][i] = [to |-> p, id |-> sent[p] + 1]
            BY <1>2, <3>2, <5>1
          <6>3. QED
            BY <6>1, <6>2
        <5>2. CASE i # nextIndex[p]
          <6>1. i \in lo..nextIndex[p] - 1
            BY <2>1, <4>1, <5>2
          <6>2. OutboundXcmpMessages'[p][i] = OutboundXcmpMessages[p][i]
            BY <1>2, <3>2, <4>2, <5>2, <6>1
          <6>3. OutboundXcmpMessages[p][i] =
                   [to |-> p, id |-> sent[p] - nextIndex[p] + i + 1]
            BY <2>2, <6>1 DEF PagesFrom
          <6>4. QED
            BY <2>3, <6>2, <6>3
        <5>3. QED
          BY <5>1, <5>2
      <4>5. QED
        BY <4>3, <4>4 DEF PagesFrom
    <3>3. QED
      BY <3>1, <3>2
  <2>6. QED
    BY <2>3, <2>4, <2>5
<1>7. QED
  BY <1>4, <1>5, <1>6 DEF SenderInv

(* Leaves that start by one page start by every later one. *)
LEMMA LaterStart ==
    ASSUME SenderInv, NEW id \in MmrId, NEW a \in Int, NEW b \in Int, a <= b, StartBy(id, a)
    PROVE  StartBy(id, b)
<1> SUFFICES ASSUME NEW n \in 1..Len(mmr[id]), mmr[id][n].xcmp_msgs # <<>>
             PROVE  mmr[id][n].xcmp_msgs[1].id <= b
  BY DEF StartBy
<1>1. mmr[id][n].xcmp_msgs[1].id <= a
  BY DEF StartBy
<1>2. mmr[id][n] \in Leaf
  BY ElementOfSeq DEF SenderInv, HistoryOK
<1>3. mmr[id][n].xcmp_msgs \in Seq(Page)
  BY <1>2 DEF Leaf
<1>4. mmr[id][n].xcmp_msgs[1] \in Page
  BY <1>3, EmptySeq, ElementOfSeq
<1>5. mmr[id][n].xcmp_msgs[1].id \in Int
  BY <1>4, SenderAssumption DEF Page
<1>6. QED
  BY <1>1, <1>5

LEMMA FinalizeBlockInv == SenderInv /\ FinalizeBlock => SenderInv'
<1> SUFFICES ASSUME SenderInv, FinalizeBlock PROVE SenderInv'
  OBVIOUS
<1>1. /\ open = TRUE /\ open' = FALSE /\ UNCHANGED <<number, mmr, sent>>
      /\ digests' = Append(digests, collect_roots)
      /\ number \in Nat /\ number > 0
  BY SenderAssumption DEF FinalizeBlock, SenderInv, StateOK
<1>2. PICK left \in [Paras -> 0..MaxPages] :
         /\ \A p \in Paras : left[p] <= Cardinality(DOMAIN OutboundXcmpMessages[p])
         /\ OutboundXcmpMessages' = [p \in Paras |-> TakeOutbound(p, left[p])]
         /\ nextIndex' = [p \in Paras |-> IF left[p] = 0 THEN 0 ELSE nextIndex[p]]
  BY DEF FinalizeBlock
<1>3. nextIndex \in [Paras -> Nat] /\ sent \in [Paras -> 0..MaxPages] /\ MaxPages \in Nat
  BY SenderAssumption DEF SenderInv, StateOK
<1>4. StateOK'
  <2>1. nextIndex' \in [Paras -> Nat]
    BY <1>2, <1>3
  <2>2. DOMAIN OutboundXcmpMessages' = Paras
    BY <1>2
  <2>3. QED
    BY Zenon, <1>1, <2>1, <2>2 DEF SenderInv, StateOK
<1>5. HistoryOK'
  <2>1. /\ mmr \in [MmrId -> Seq(Leaf)] /\ digests \in Seq(Seq(Leaf) \X Seq(Leaf))
        /\ Len(digests) = number - 1
        /\ \A id \in MmrId : Len(mmr[id]) = number
    BY <1>1 DEF SenderInv, HistoryOK
  <2>2. /\ mmr[0] \in Seq(Leaf) /\ mmr[1] \in Seq(Leaf)
        /\ Len(mmr[0]) = number /\ Len(mmr[1]) = number
    BY <2>1, Channels
  <2>3. /\ collect_roots \in Seq(Leaf) \X Seq(Leaf)
        /\ collect_roots = <<SubSeq(mmr[0], 1, number), SubSeq(mmr[1], 1, number)>>
    BY <2>2, SubSeqFull DEF collect_roots, mmr_root_hash
  <2>4. /\ digests' \in Seq(Seq(Leaf) \X Seq(Leaf))
        /\ Len(digests') = number
        /\ \A n \in 1..number - 1 : digests'[n] = digests[n]
        /\ digests'[number] = collect_roots
    <3>1. /\ Append(digests, collect_roots) \in Seq(Seq(Leaf) \X Seq(Leaf))
          /\ Len(Append(digests, collect_roots)) = Len(digests) + 1
          /\ \A n \in 1..Len(digests) : Append(digests, collect_roots)[n] = digests[n]
          /\ Append(digests, collect_roots)[Len(digests) + 1] = collect_roots
      BY SMTT(30), <2>1, <2>3, AppendProperties
    <3>2. Len(digests) + 1 = number
      BY <1>1, <2>1
    <3>3. QED
      BY <1>1, <2>1, <3>1, <3>2
  <2>5. \A n \in 1..number : digests'[n] = <<SubSeq(mmr[0], 1, n), SubSeq(mmr[1], 1, n)>>
    <3> SUFFICES ASSUME NEW n \in 1..number
                 PROVE  digests'[n] = <<SubSeq(mmr[0], 1, n), SubSeq(mmr[1], 1, n)>>
      OBVIOUS
    <3>1. CASE n = number
      BY <2>3, <2>4, <3>1
    <3>2. CASE n \in 1..number - 1
      BY Zenon, <2>1, <2>4, <3>2 DEF SenderInv, HistoryOK
    <3>3. number \in Nat
      BY <1>1
    <3>4. n = number \/ n \in 1..number - 1
      BY <3>3
    <3>5. QED
      BY <3>1, <3>2, <3>4
  <2>6. QED
    BY <1>1, <2>1, <2>4, <2>5 DEF SenderInv, HistoryOK
<1>6. LeavesInOrder'
  BY <1>1 DEF SenderInv, LeavesInOrder
<1>7. QueueOK'
  <2> SUFFICES ASSUME NEW id \in MmrId
               PROVE  LET p == ParaIdentifier(id)
                      IN  /\ nextIndex[p]' <= sent[p]'
                          /\ \E lo \in (0..nextIndex[p])' :
                                /\ PagesFrom(p, lo)'
                                /\ StartBy(id, sent[p] - nextIndex[p] + lo + 1)'
    BY DEF QueueOK
  <2> DEFINE p == ParaIdentifier(id)
  <2>1. /\ p \in Paras /\ nextIndex[p] \in Nat /\ sent[p] \in Nat
        /\ nextIndex[p] <= sent[p] /\ left[p] \in Nat
    BY <1>2, <1>3, Channels DEF SenderInv, QueueOK
  <2>2. PICK lo \in 0..nextIndex[p] :
           PagesFrom(p, lo) /\ StartBy(id, sent[p] - nextIndex[p] + lo + 1)
    BY DEF SenderInv, QueueOK
  <2>3. DOMAIN OutboundXcmpMessages[p] = lo..nextIndex[p] - 1
    BY <2>2 DEF PagesFrom
  <2>4. left[p] <= nextIndex[p] - lo
    <3>1. lo \in Int /\ nextIndex[p] - 1 \in Int /\ lo <= nextIndex[p]
      BY <2>1
    <3>2. Cardinality(lo..nextIndex[p] - 1) =
             IF lo > nextIndex[p] - 1 THEN 0 ELSE (nextIndex[p] - 1) - lo + 1
      BY <3>1, FS_Interval
    <3>3. Cardinality(lo..nextIndex[p] - 1) = nextIndex[p] - lo
      BY <2>1, <3>1, <3>2
    <3>4. QED
      BY <1>2, <2>1, <2>3, <3>3
  <2>5. /\ DOMAIN OutboundXcmpMessages'[p] = {k \in lo..nextIndex[p] - 1 : k >= nextIndex[p] - left[p]}
        /\ \A i \in DOMAIN OutboundXcmpMessages'[p] :
              OutboundXcmpMessages'[p][i] = OutboundXcmpMessages[p][i]
    BY <1>2, <2>1, <2>3 DEF TakeOutbound
  <2>6. sent'[p] = sent[p]
    BY <1>1
  <2>7. CASE left[p] = 0
    <3>1. nextIndex'[p] = 0
      BY <1>2, <2>1, <2>7
    <3>2. DOMAIN OutboundXcmpMessages'[p] = 0..nextIndex'[p] - 1
      BY <2>1, <2>5, <2>7, <3>1
    <3>3. PagesFrom(p, 0)'
      BY <3>1, <3>2 DEF PagesFrom
    <3>4. sent[p] - nextIndex[p] + lo + 1 <= sent'[p] - nextIndex'[p] + 0 + 1
      BY <2>1, <2>6, <3>1
    <3>5. StartBy(id, sent[p] - nextIndex[p] + 0 + 1)'
      <4>1. /\ sent[p] - nextIndex[p] + lo + 1 \in Int
            /\ sent'[p] - nextIndex'[p] + 0 + 1 \in Int
        BY <2>1, <2>6, <3>1
      <4>2. StartBy(id, sent'[p] - nextIndex'[p] + 0 + 1)
        BY <2>2, <3>4, <4>1, LaterStart
      <4>3. QED
        BY <1>1, <4>2 DEF StartBy
    <3>6. nextIndex'[p] <= sent'[p] /\ 0 \in 0..nextIndex'[p]
      BY <2>1, <2>6, <3>1
    <3>7. QED
      BY Zenon, <3>3, <3>5, <3>6
  <2>8. CASE left[p] # 0
    <3> DEFINE new == nextIndex[p] - left[p]
    <3>1. nextIndex'[p] = nextIndex[p]
      BY <1>2, <2>1, <2>8
    <3>2. new \in 0..nextIndex[p] /\ lo <= new
      BY <2>1, <2>4
    <3>3. DOMAIN OutboundXcmpMessages'[p] = new..nextIndex[p] - 1
      BY <2>1, <2>5, <3>2
    <3>4. PagesFrom(p, new)'
      <4>1. \A i \in new..nextIndex[p] - 1 :
               /\ i \in lo..nextIndex[p] - 1
               /\ OutboundXcmpMessages'[p][i] = OutboundXcmpMessages[p][i]
        BY <2>1, <2>5, <3>2, <3>3
      <4>2. QED
        BY <2>2, <2>6, <3>1, <3>3, <4>1 DEF PagesFrom
    <3>5. StartBy(id, sent[p] - nextIndex[p] + new + 1)'
      <4>1. /\ sent[p] - nextIndex[p] + lo + 1 \in Int
            /\ sent[p] - nextIndex[p] + new + 1 \in Int
            /\ sent[p] - nextIndex[p] + lo + 1 <= sent[p] - nextIndex[p] + new + 1
        BY <2>1, <3>2
      <4>2. StartBy(id, sent[p] - nextIndex[p] + new + 1)
        BY <2>2, <4>1, LaterStart
      <4>3. QED
        BY <1>1, <2>6, <3>1, <4>2 DEF StartBy
    <3>6. QED
      BY <2>1, <2>6, <3>1, <3>2, <3>4, <3>5
  <2>9. QED
    BY <2>7, <2>8
<1>8. QED
  BY <1>4, <1>5, <1>6, <1>7 DEF SenderInv

-----------------------------------------------------------------------------
(* The invariant holds throughout. *)
LEMMA SenderInvariant == Spec => []SenderInv
<1>1. SenderInv /\ [Next]_vars => SenderInv'
  <2> SUFFICES ASSUME SenderInv, [Next]_vars PROVE SenderInv'
    OBVIOUS
  <2>1. CASE InitializeBlock
    BY <2>1, InitializeBlockInv
  <2>2. CASE FinalizeBlock
    BY <2>2, FinalizeBlockInv
  <2>3. CASE \E p \in Paras : SendXcm(p)
    BY <2>3, SendXcmInv
  <2>4. CASE UNCHANGED vars
    <3>1. UNCHANGED <<number, open, OutboundXcmpMessages, nextIndex, mmr, digests, sent>>
      BY <2>4 DEF vars
    <3>2. StateOK'
      BY <3>1 DEF SenderInv, StateOK
    <3>3. HistoryOK'
      BY <3>1 DEF SenderInv, HistoryOK
    <3>4. QueueOK'
      BY <3>1 DEF SenderInv, QueueOK, PagesFrom, StartBy
    <3>5. LeavesInOrder'
      BY <3>1 DEF SenderInv, LeavesInOrder
    <3>6. QED
      BY <3>2, <3>3, <3>4, <3>5 DEF SenderInv
  <2>5. QED
    BY <2>1, <2>2, <2>3, <2>4 DEF Next
<1>2. QED
  BY <1>1, InitSenderInv, PTL DEF Spec

(* The storage of the sender keeps its types, however many blocks and      *)
(* pages there are.                                                        *)
THEOREM SenderTypeCorrect == Spec => []TypeOK
<1>1. SenderInv => TypeOK
  <2> SUFFICES ASSUME SenderInv PROVE TypeOK
    OBVIOUS
  <2>1. ASSUME NEW p \in Paras
        PROVE  /\ DOMAIN OutboundXcmpMessages[p] \subseteq 0..MaxPages - 1
               /\ \A i \in DOMAIN OutboundXcmpMessages[p] :
                     OutboundXcmpMessages[p][i] \in Page
               /\ nextIndex[p] \in 0..MaxPages
    <3>1. p - 1 \in MmrId /\ ParaIdentifier(p - 1) = p
      BY Channels
    <3>2. /\ nextIndex[p] \in Nat /\ sent[p] \in 0..MaxPages
          /\ nextIndex[p] <= sent[p] /\ MaxPages \in Nat
      BY <3>1, SenderAssumption DEF SenderInv, StateOK, QueueOK
    <3>3. PICK lo \in 0..nextIndex[p] : PagesFrom(p, lo)
      BY <3>1 DEF SenderInv, QueueOK
    <3>4. DOMAIN OutboundXcmpMessages[p] = lo..nextIndex[p] - 1
      BY <3>3 DEF PagesFrom
    <3>5. ASSUME NEW i \in lo..nextIndex[p] - 1
          PROVE  OutboundXcmpMessages[p][i] \in Page
      <4>1. OutboundXcmpMessages[p][i] =
               [to |-> p, id |-> sent[p] - nextIndex[p] + i + 1]
        BY <3>3 DEF PagesFrom
      <4>2. sent[p] - nextIndex[p] + i + 1 \in 1..MaxPages
        BY <3>2
      <4>3. QED
        BY <4>1, <4>2 DEF Page
    <3>6. lo..nextIndex[p] - 1 \subseteq 0..MaxPages - 1 /\ nextIndex[p] \in 0..MaxPages
      BY <3>2
    <3>7. QED
      BY <3>4, <3>5, <3>6
  <2>2. \A id \in MmrId : \A i \in DOMAIN mmr[id] : IsLeaf(mmr[id][i])
    <3> SUFFICES ASSUME NEW id \in MmrId, NEW i \in DOMAIN mmr[id]
                 PROVE  IsLeaf(mmr[id][i])
      OBVIOUS
    <3>1. mmr[id][i] \in Leaf
      BY LenProperties, ElementOfSeq DEF SenderInv, HistoryOK
    <3>2. QED
      BY <3>1 DEF Leaf, IsLeaf
  <2>3. QED
    BY <2>1, <2>2 DEF SenderInv, StateOK, TypeOK
<1>2. QED
  BY <1>1, SenderInvariant, PTL

(* Every header goes on committing to the leaves up to its block, in both  *)
(* MMRs, which mmr_leaf_count counts.                                      *)
THEOREM HeadersKeepTheirHistory == Spec => []HeadersKeepHistory
<1>1. SenderInv => HeadersKeepHistory
  <2> SUFFICES ASSUME SenderInv PROVE HeadersKeepHistory
    OBVIOUS
  <2>1. DOMAIN digests = 1..Len(digests)
    BY LenProperties DEF SenderInv, HistoryOK
  <2>2. mmr_leaf_count = number
    BY Channels DEF mmr_leaf_count, SenderInv, HistoryOK
  <2>3. QED
    BY <2>1, <2>2 DEF SenderInv, HistoryOK, HeadersKeepHistory
<1>2. QED
  BY <1>1, SenderInvariant, PTL

(* What the relayer asks of the state a block leaves fits that block's     *)
(* header: this is what Relayer takes for granted.                         *)
THEOREM ApisFitTheHeader == Spec => []ApisFitHeader
<1>1. SenderInv => ApisFitHeader
  <2> SUFFICES ASSUME SenderInv, ~open, number > 0
               PROVE  /\ gen_merkle_proof(0).root = digests[number]
                      /\ gen_merkle_proof(0).leaf = mmr_root(0).Ok
                      /\ \A id \in MmrId :
                            LET proof == generate_proof(number, id).Ok
                            IN  /\ verify_proof_stateless(mmr_root(id).Ok, proof)
                                /\ proof.leaf.parent_number = number - 1
                      /\ verify_proof(generate_proof(number, 0).Ok)
    BY DEF ApisFitHeader
  <2>1. number \in Nat /\ number \in 1..number
    BY SenderAssumption DEF SenderInv, StateOK
  <2>2. Len(digests) = number
    BY DEF SenderInv, HistoryOK
  <2>3. ASSUME NEW id \in MmrId
        PROVE  /\ mmr[id] \in Seq(Leaf) /\ number \in DOMAIN mmr[id]
               /\ SubSeq(mmr[id], 1, number) = mmr[id]
               /\ mmr[id][number].parent_number = number - 1
    BY <2>1, SubSeqFull, LenProperties DEF SenderInv, HistoryOK
  <2>4. 0 \in MmrId /\ 1 \in MmrId
    BY Channels
  <2>5. digests[number] = <<mmr[0], mmr[1]>>
    BY <2>1, <2>2, <2>3, <2>4 DEF SenderInv, HistoryOK
  <2>6. gen_merkle_proof(0).root = digests[number] /\ gen_merkle_proof(0).leaf = mmr_root(0).Ok
    BY <2>4, <2>5 DEF gen_merkle_proof, mmr_root, mmr_root_hash
  <2>7. ASSUME NEW id \in MmrId
        PROVE  /\ mmr_root(id).Ok = mmr_root_hash(id)
               /\ verify_proof_stateless(mmr_root_hash(id), generate_proof(number, id).Ok)
               /\ generate_proof(number, id).Ok.leaf.parent_number = number - 1
    BY <2>3 DEF verify_proof_stateless, generate_proof, mmr_root, mmr_root_hash
  <2>8. verify_proof(generate_proof(number, 0).Ok)
    BY <2>4, <2>7 DEF verify_proof
  <2>9. QED
    BY <2>6, <2>7, <2>8
<1>2. QED
  BY <1>1, SenderInvariant, PTL

(* A leaf holds pages of its own channel, consecutive and in the order of  *)
(* sending, and leaves never go back, whatever the queue drained or kept.  *)
THEOREM LeavesKeepOrder == Spec => []LeavesInOrder
<1>1. SenderInv => LeavesInOrder
  BY DEF SenderInv
<1>2. QED
  BY <1>1, SenderInvariant, PTL

(* The queue of a para against the messages read from it: all of its pages *)
(* or, if it does not start at index 0, none.                              *)
LEMMA WholeQueueOrNothing ==
    ASSUME SenderInv, NEW id \in MmrId
    PROVE  LET pages == OutboundXcmpMessages[ParaIdentifier(id)]
               msgs == get_xcmp_messages(ParaIdentifier(id))
           IN  IF 0 \in DOMAIN pages
               THEN /\ DOMAIN pages = {i - 1 : i \in DOMAIN msgs}
                    /\ \A i \in DOMAIN msgs : msgs[i] = pages[i - 1]
               ELSE msgs = <<>>
<1> DEFINE p == ParaIdentifier(id)
           pages == OutboundXcmpMessages[p]
           next == nextIndex[p]
           msgs == get_xcmp_messages(p)
<1>1. p \in Paras /\ next \in Nat
  BY Channels DEF SenderInv, StateOK
<1>2. PICK lo \in 0..next : DOMAIN pages = lo..next - 1
  BY DEF SenderInv, QueueOK, PagesFrom
<1>3. msgs = [i \in 1..LastOfRun(pages) |-> pages[i - 1]]
  BY DEF get_xcmp_messages
<1> HIDE DEF p, pages, next, msgs
<1>4. LastOfRun(pages) = IF lo = 0 THEN next ELSE 0
  BY <1>1, <1>2, RunOfPages
<1>5. CASE 0 \in DOMAIN pages
  <2>1. lo = 0
    BY <1>1, <1>2, <1>5
  <2>2. DOMAIN msgs = 1..next /\ \A i \in DOMAIN msgs : msgs[i] = pages[i - 1]
    BY <1>3, <1>4, <2>1
  <2>3. {i - 1 : i \in 1..next} = 0..next - 1
    <3>1. \A k \in 0..next - 1 : k + 1 \in 1..next /\ (k + 1) - 1 = k
      BY <1>1
    <3>2. \A i \in 1..next : i - 1 \in 0..next - 1
      BY <1>1
    <3>3. QED
      BY <3>1, <3>2
  <2>4. QED
    BY <1>2, <1>5, <2>1, <2>2, <2>3 DEF p, pages, msgs
<1>6. CASE 0 \notin DOMAIN pages
  <2>1. LastOfRun(pages) = 0
    BY <1>1, <1>2, <1>4, <1>6
  <2>2. msgs = <<>>
    BY <1>3, <2>1
  <2>3. QED
    BY <1>6, <2>2 DEF p, pages, msgs
<1>7. QED
  BY <1>5, <1>6

-----------------------------------------------------------------------------
(* What the relay chain and the recipient keep, besides SenderInv. *)
RelayOK ==
    /\ relay \in Seq([head : Nat, other : OtherHeads])
    /\ \A n \in 1..Len(relay) : relay[n].head <= Len(digests)
    /\ parent \in 0..Len(relay)

SeenOK == \A root \in seen : \E n \in 0..Len(relay) : root = BeefyRoot(n)

PagesSent ==
    \A id \in MmrId : \A n \in 1..Len(mmr[id]) :
        \A k \in DOMAIN mmr[id][n].xcmp_msgs :
            mmr[id][n].xcmp_msgs[k].id \in 1..sent[ParaIdentifier(id)]

ChannelInv == RelayOK /\ SeenOK /\ PagesSent

(* The sender takes its own steps, or none, in every step of the channel:  *)
(* the composition implements Sender.                                      *)
LEMMA ChannelRefinesSender == ChannelSpec => Spec
<1>1. ChannelInit => Init
  BY DEF ChannelInit
<1>2. [ChannelNext]_channelVars => [Next]_vars
  BY Zenon DEF ChannelNext, channelVars, RelayBlock, RecipientBlock
<1>3. QED
  BY <1>1, <1>2, PTL DEF ChannelSpec, Spec

(* The sender only appends to its digests: none changes in any step. *)
LEMMA HistoryGrows ==
    ASSUME SenderInv, [Next]_vars
    PROVE  /\ Len(digests)' >= Len(digests)
           /\ \A b \in 1..Len(digests) : digests'[b] = digests[b]
<1>1. digests \in Seq(Seq(Leaf) \X Seq(Leaf)) /\ Len(digests) \in Nat
  BY LenProperties DEF SenderInv, HistoryOK
<1>2. CASE FinalizeBlock
  <2>1. mmr[0] \in Seq(Leaf) /\ mmr[1] \in Seq(Leaf)
    BY Channels DEF SenderInv, HistoryOK
  <2>2. digests' = Append(digests, <<mmr[0], mmr[1]>>)
    BY <1>2 DEF FinalizeBlock, collect_roots, mmr_root_hash
  <2>3. <<mmr[0], mmr[1]>> \in Seq(Leaf) \X Seq(Leaf)
    BY <2>1
  <2> DEFINE Roots == Seq(Leaf) \X Seq(Leaf)
             roots == <<mmr[0], mmr[1]>>
  <2> HIDE DEF Roots, roots
  <2>4. digests \in Seq(Roots) /\ roots \in Roots /\ digests' = Append(digests, roots)
    BY <1>1, <2>2, <2>3 DEF Roots, roots
  <2>5. QED
    BY <1>1, <2>4, AppendProperties
<1>3. CASE ~FinalizeBlock
  <2>1. digests' = digests
    BY <1>3 DEF Next, vars, InitializeBlock, SendXcm
  <2>2. QED
    BY <1>1, <2>1
<1>4. QED
  BY <1>2, <1>3

(* Nor does a root of the BEEFY MMR, or an included head, change. *)
LEMMA RootsNeverChange ==
    ASSUME SenderInv, RelayOK, [ChannelNext]_channelVars
    PROVE  /\ Len(relay)' >= Len(relay)
           /\ \A n \in 1..Len(relay) : relay'[n] = relay[n]
           /\ \A n \in 0..Len(relay) : BeefyRoot(n)' = BeefyRoot(n)
<1>1. [Next]_vars
  BY Zenon DEF ChannelNext, channelVars, RelayBlock, RecipientBlock
<1>2. \A b \in 1..Len(digests) : digests'[b] = digests[b]
  BY <1>1, HistoryGrows
<1>3. relay \in Seq([head : Nat, other : OtherHeads]) /\ Len(relay) \in Nat
  BY LenProperties DEF RelayOK
<1>4. Len(relay)' >= Len(relay) /\ \A n \in 1..Len(relay) : relay'[n] = relay[n]
  <2>1. CASE RelayBlock
    <3>1. PICK h \in {ParaHead, ParaHead + 1}, o \in OtherHeads :
             relay' = Append(relay, [head |-> h, other |-> o])
      BY <2>1 DEF RelayBlock
    <3>2. QED
      BY <1>3, <3>1
  <2>2. CASE ~RelayBlock
    <3>1. relay' = relay
      BY Zenon, <2>2 DEF ChannelNext, channelVars, RecipientBlock
    <3>2. QED
      BY <1>3, <3>1
  <2>3. QED
    BY <2>1, <2>2
<1>5. ASSUME NEW b \in 0..Len(digests)
      PROVE  HeaderOf(b)' = HeaderOf(b)
  BY <1>2 DEF HeaderOf
<1>6. ASSUME NEW n \in 0..Len(relay)
      PROVE  HeadsRoot(n)' = HeadsRoot(n)
  <2>1. CASE n = 0
    BY <2>1 DEF HeadsRoot, MerkleRoot
  <2>2. CASE n # 0
    <3>1. n \in 1..Len(relay) /\ relay'[n] = relay[n]
      BY <1>3, <1>4, <2>2
    <3>2. relay[n].head \in 0..Len(digests)
      <4>1. relay[n] \in [head : Nat, other : OtherHeads]
        BY <1>3, <3>1, ElementOfSeq
      <4>2. relay[n].head <= Len(digests)
        BY <3>1 DEF RelayOK
      <4>3. Len(digests) \in Nat
        BY LenProperties DEF SenderInv, HistoryOK
      <4>4. QED
        BY <4>1, <4>2, <4>3
    <3>3. PICK b \in 0..Len(digests) : b = relay[n].head
      BY <3>2
    <3>4. HeaderOf(b)' = HeaderOf(b)
      BY <1>5
    <3>5. HeadsRoot(n) = MerkleRoot(<<HeaderOf(b), relay[n].other>>)
      BY <2>2, <3>3 DEF HeadsRoot
    <3>6. HeadsRoot(n)' = MerkleRoot(<<HeaderOf(b)', relay'[n].other>>)
      BY <2>2, <3>1, <3>3 DEF HeadsRoot, MerkleRoot
    <3>7. QED
      BY <3>1, <3>4, <3>5, <3>6
  <2>3. QED
    BY <2>1, <2>2
<1>7. ASSUME NEW n \in 0..Len(relay)
      PROVE  BeefyRoot(n)' = BeefyRoot(n)
  <2>1. ASSUME NEW m \in 1..n
        PROVE  BeefyLeaf(m)' = BeefyLeaf(m)
    <3>1. m - 1 \in 0..Len(relay)
      BY <1>3
    <3>2. PICK k \in 0..Len(relay) : k = m - 1
      BY <3>1
    <3>3. HeadsRoot(k)' = HeadsRoot(k)
      BY <1>6
    <3>4. QED
      BY <3>2, <3>3 DEF BeefyLeaf
  <2>2. QED
    BY <2>1 DEF BeefyRoot
<1>8. QED
  BY <1>4, <1>7

(* What get_xcmp_messages finds in the queue of a para was sent to it. *)
LEMMA QueuedWereSent ==
    ASSUME SenderInv, NEW id \in MmrId
    PROVE  LET p == ParaIdentifier(id)
           IN  \A i \in DOMAIN get_xcmp_messages(p) : get_xcmp_messages(p)[i].id \in 1..sent[p]
<1> DEFINE p == ParaIdentifier(id)
           pages == OutboundXcmpMessages[p]
           msgs == get_xcmp_messages(p)
<1> SUFFICES ASSUME NEW i \in DOMAIN msgs
             PROVE  msgs[i].id \in 1..sent[p]
  OBVIOUS
<1>1. /\ 0 \in DOMAIN pages => i - 1 \in DOMAIN pages /\ msgs[i] = pages[i - 1]
      /\ 0 \notin DOMAIN pages => msgs = <<>>
  BY WholeQueueOrNothing
<1>2. i - 1 \in DOMAIN pages /\ msgs[i] = pages[i - 1]
  BY <1>1
<1>3. nextIndex[p] \in Nat /\ sent[p] \in Nat /\ nextIndex[p] <= sent[p]
  BY Channels DEF SenderInv, StateOK, QueueOK
<1>4. PICK lo \in 0..nextIndex[p] : PagesFrom(p, lo)
  BY DEF SenderInv, QueueOK
<1>5. /\ i - 1 \in lo..nextIndex[p] - 1
      /\ pages[i - 1] = [to |-> p, id |-> sent[p] - nextIndex[p] + (i - 1) + 1]
  BY <1>2, <1>4 DEF PagesFrom
<1> HIDE DEF p, pages, msgs
<1>6. msgs[i].id = sent[p] - nextIndex[p] + (i - 1) + 1
  BY <1>2, <1>5
<1>7. sent[p] - nextIndex[p] + (i - 1) + 1 \in 1..sent[p]
  BY <1>3, <1>5
<1>8. QED
  BY Zenon, <1>6, <1>7 DEF p, pages, msgs

(* The channel starts in its invariant. *)
LEMMA InitChannelInv == ChannelInit => ChannelInv
<1> SUFFICES ASSUME ChannelInit PROVE ChannelInv
  OBVIOUS
<1>1. relay = <<>> /\ parent = 0 /\ seen = {BeefyRoot(0)} /\ Len(relay) = 0
  BY DEF ChannelInit
<1>2. RelayOK
  BY <1>1 DEF RelayOK
<1>3. SeenOK
  BY <1>1 DEF SeenOK
<1>4. PagesSent
  BY DEF ChannelInit, Init, PagesSent
<1>5. QED
  BY <1>2, <1>3, <1>4 DEF ChannelInv

(* A page that was sent stays sent, and a new leaf takes queued ones. *)
LEMMA PagesSentStep == ASSUME SenderInv, PagesSent, [Next]_vars PROVE PagesSent'
<1> SUFFICES ASSUME NEW id \in MmrId, NEW n \in 1..Len(mmr'[id]),
                    NEW k \in DOMAIN mmr'[id][n].xcmp_msgs
             PROVE  mmr'[id][n].xcmp_msgs[k].id \in 1..sent'[ParaIdentifier(id)]
  BY DEF PagesSent
<1> DEFINE p == ParaIdentifier(id)
<1>1. p \in Paras /\ sent \in [Paras -> 0..MaxPages] /\ MaxPages \in Nat
  BY Channels, SenderAssumption DEF SenderInv, StateOK
<1>2. mmr[id] \in Seq(Leaf) /\ Len(mmr[id]) \in Nat
  BY LenProperties DEF SenderInv, HistoryOK
<1>3. CASE InitializeBlock
  <2>1. mmr'[id] = Append(mmr[id], leaf_data(id)) /\ sent' = sent /\ number < MaxBlocks
    BY <1>3 DEF InitializeBlock
  <2>2. leaf_data(id) \in Leaf
    BY <2>1, NewLeaf
  <2>3. Len(mmr'[id]) = Len(mmr[id]) + 1
    BY <1>2, <2>1, <2>2, AppendProperties
  <2>4. CASE n = Len(mmr[id]) + 1
    <3>1. mmr'[id][n] = leaf_data(id)
      BY <1>2, <2>1, <2>2, <2>4, AppendProperties
    <3>2. mmr'[id][n].xcmp_msgs = get_xcmp_messages(p)
      BY <3>1 DEF leaf_data
    <3>3. QED
      BY Zenon, <2>1, <3>2, QueuedWereSent
  <2>5. CASE n # Len(mmr[id]) + 1
    <3>1. n \in 1..Len(mmr[id])
      BY <1>2, <2>3, <2>5
    <3>2. mmr'[id][n] = mmr[id][n]
      BY <1>2, <2>1, <2>2, <3>1, AppendProperties
    <3>3. QED
      BY <2>1, <3>1, <3>2 DEF PagesSent
  <2>6. QED
    BY <2>4, <2>5
<1>4. CASE ~InitializeBlock
  <2>1. mmr' = mmr
    BY <1>4 DEF Next, vars, FinalizeBlock, SendXcm
  <2>2. sent'[p] \in Nat /\ sent[p] \in Nat /\ sent[p] <= sent'[p]
    <3>1. CASE \E q \in Paras : SendXcm(q)
      <4>1. PICK q \in Paras : sent' = [sent EXCEPT ![q] = @ + 1]
        BY <3>1 DEF SendXcm
      <4>2. QED
        BY <1>1, <4>1
    <3>2. CASE ~(\E q \in Paras : SendXcm(q))
      <4>1. sent' = sent
        BY <1>4, <3>2 DEF Next, vars, FinalizeBlock
      <4>2. QED
        BY <1>1, <4>1
    <3>3. QED
      BY <3>1, <3>2
  <2>3. mmr[id][n].xcmp_msgs[k].id \in 1..sent[p]
    BY <2>1 DEF PagesSent
  <2>4. 1..sent[p] \subseteq 1..sent'[p]
    BY <2>2
  <2>5. QED
    BY Zenon, <2>1, <2>3, <2>4
<1>5. QED
  BY <1>3, <1>4

(* Every step of the channel keeps its invariant. *)
LEMMA ChannelInvariant == ChannelSpec => [](SenderInv /\ ChannelInv)
<1>1. SenderInv /\ ChannelInv /\ [ChannelNext]_channelVars => ChannelInv'
  <2> SUFFICES ASSUME SenderInv, ChannelInv, [ChannelNext]_channelVars PROVE ChannelInv'
    OBVIOUS
  <2>1. [Next]_vars
    BY Zenon DEF ChannelNext, channelVars, RelayBlock, RecipientBlock
  <2>2. RelayOK /\ SeenOK /\ PagesSent
    BY DEF ChannelInv
  <2>3. /\ Len(relay)' >= Len(relay)
        /\ \A n \in 1..Len(relay) : relay'[n] = relay[n]
        /\ \A n \in 0..Len(relay) : BeefyRoot(n)' = BeefyRoot(n)
    BY <2>2, RootsNeverChange
  <2>4. relay \in Seq([head : Nat, other : OtherHeads]) /\ Len(relay) \in Nat
    BY <2>2, LenProperties DEF RelayOK
  <2>5. Len(digests) \in Nat /\ Len(digests)' \in Nat /\ Len(digests)' >= Len(digests)
    <3>1. Len(digests) \in Nat /\ Len(digests)' >= Len(digests)
      BY <2>1, HistoryGrows, LenProperties DEF SenderInv, HistoryOK
    <3>2. QED
      BY <3>1
  <2>6. RelayOK'
    <3> DEFINE Block == [head : Nat, other : OtherHeads]
    <3>1. CASE RelayBlock
      <4>1. PICK h \in {ParaHead, ParaHead + 1}, o \in OtherHeads :
               h <= Len(digests) /\ relay' = Append(relay, [head |-> h, other |-> o])
        BY <3>1 DEF RelayBlock
      <4>2. h \in Nat
        <5>1. ParaHead \in Nat
          <6>1. CASE relay = <<>>
            BY <6>1 DEF ParaHead
          <6>2. CASE relay # <<>>
            <7>1. Len(relay) \in 1..Len(relay)
              BY <2>4, <6>2, EmptySeq
            <7>2. relay[Len(relay)] \in Block
              BY <2>4, <7>1, ElementOfSeq
            <7>3. QED
              BY <6>2, <7>2 DEF ParaHead
          <6>3. QED
            BY <6>1, <6>2
        <5>2. QED
          BY <5>1
      <4>3. [head |-> h, other |-> o] \in Block
        BY <4>2
      <4>4. /\ relay' \in Seq(Block) /\ Len(relay)' = Len(relay) + 1
            /\ relay'[Len(relay) + 1].head = h
        BY <2>4, <4>1, <4>3, AppendProperties
      <4>5. UNCHANGED <<digests, parent>>
        BY <3>1 DEF RelayBlock, vars
      <4>6. ASSUME NEW n \in 1..Len(relay)'
            PROVE  relay'[n].head <= Len(digests)
        <5>1. n \in 1..Len(relay) \/ n = Len(relay) + 1
          BY <2>4, <4>4
        <5>2. QED
          BY <2>2, <2>3, <4>1, <4>4, <5>1 DEF RelayOK
      <4>7. QED
        BY <2>2, <2>4, <4>4, <4>5, <4>6 DEF RelayOK
    <3>2. CASE ~RelayBlock
      <4>1. relay' = relay
        BY Zenon, <3>2 DEF ChannelNext, channelVars, RecipientBlock
      <4>2. parent' \in 0..Len(relay)
        BY <2>2, <2>4, <3>2 DEF RelayOK, ChannelNext, channelVars, RecipientBlock
      <4>3. ASSUME NEW n \in 1..Len(relay)
            PROVE  relay[n].head <= Len(digests)'
        <5>1. relay[n] \in Block /\ relay[n].head <= Len(digests)
          BY <2>2, <2>4, ElementOfSeq DEF RelayOK
        <5>2. QED
          BY <2>5, <5>1
      <4>4. QED
        BY <2>4, <4>1, <4>2, <4>3 DEF RelayOK
    <3>3. QED
      BY <3>1, <3>2
  <2>7. SeenOK'
    <3> SUFFICES ASSUME NEW root \in seen'
                 PROVE  \E n \in 0..Len(relay)' : root = BeefyRoot(n)'
      BY DEF SeenOK
    <3>1. PICK n \in 0..Len(relay) : root = BeefyRoot(n)
      <4>1. CASE root \in seen
        BY <2>2, <4>1 DEF SeenOK
      <4>2. CASE root \notin seen
        <5>1. RecipientBlock
          BY <4>2 DEF ChannelNext, channelVars, RelayBlock
        <5>2. PICK n \in parent..Len(relay) : root = BeefyRoot(n)
          BY <4>2, <5>1 DEF RecipientBlock
        <5>3. n \in 0..Len(relay)
          BY <2>2, <2>4 DEF RelayOK
        <5>4. QED
          BY <5>2, <5>3
      <4>3. QED
        BY <4>1, <4>2
    <3>2. n \in 0..Len(relay)' /\ BeefyRoot(n)' = BeefyRoot(n)
      BY <2>3, <2>4
    <3>3. QED
      BY <3>1, <3>2
  <2>8. QED
    BY <2>1, <2>2, <2>6, <2>7, PagesSentStep DEF ChannelInv
<1>2. ChannelSpec => []SenderInv
  BY ChannelRefinesSender, SenderInvariant, PTL
<1>3. QED
  BY <1>1, <1>2, InitChannelInv, PTL DEF ChannelSpec

-----------------------------------------------------------------------------
(* The first leaves of an MMR. *)
LEMMA FirstLeaves ==
    ASSUME NEW S, NEW s \in Seq(S), NEW b \in 0..Len(s)
    PROVE  /\ DOMAIN SubSeq(s, 1, b) = 1..b
           /\ \A i \in 1..b : SubSeq(s, 1, b)[i] = s[i]
<1>1. \A i \in 1..b : s[i] \in S
  BY ElementOfSeq
<1>2. /\ SubSeq(s, 1, b) \in Seq(S)
      /\ Len(SubSeq(s, 1, b)) = IF 1 <= b THEN b - 1 + 1 ELSE 0
      /\ \A i \in 1..b - 1 + 1 : SubSeq(s, 1, b)[i] = s[1 + i - 1]
  BY <1>1, SubSeqProperties
<1>3. QED
  BY <1>2, LenProperties

(* A Merkle tree over two leaves has these two. *)
LEMMA PairLeaves ==
    ASSUME NEW x, NEW y
    PROVE  LeavesOf(MerkleRoot(<<x, y>>)) = {x, y}
BY DEF LeavesOf, MerkleRoot

(* A leaf of an MMR root in a finished block's digest was committed to by  *)
(* that channel, in a block up to that one, and its pages were sent.       *)
LEMMA DigestLeafWasSent ==
    ASSUME SenderInv, ChannelInv, NEW b \in 1..Len(digests), NEW id \in MmrId,
           NEW leaf, MmrHas(digests[b][id + 1], leaf)
    PROVE  \E n \in 1..b :
              /\ leaf = mmr[id][n]
              /\ \A k \in DOMAIN leaf.xcmp_msgs :
                    /\ leaf.xcmp_msgs[k].to = id + 1
                    /\ leaf.xcmp_msgs[k].id \in 1..sent[id + 1]
<1>1. /\ mmr[id] \in Seq(Leaf) /\ Len(mmr[id]) = number /\ number \in Nat
      /\ Len(digests) \in Nat /\ b <= number
  <2>1. mmr[id] \in Seq(Leaf) /\ Len(mmr[id]) = number /\ number \in Nat
    BY LenProperties DEF SenderInv, HistoryOK
  <2>2. Len(digests) \in Nat /\ (Len(digests) = number \/ Len(digests) = number - 1)
    BY LenProperties DEF SenderInv, HistoryOK
  <2>3. b <= number
    BY <2>1, <2>2
  <2>4. QED
    BY <2>1, <2>2, <2>3
<1>2. digests[b][id + 1] = SubSeq(mmr[id], 1, b)
  <2>1. digests[b] = <<SubSeq(mmr[0], 1, b), SubSeq(mmr[1], 1, b)>>
    BY DEF SenderInv, HistoryOK
  <2>2. id = 0 \/ id = 1
    BY Channels
  <2>3. QED
    BY <2>1, <2>2
<1>3. /\ DOMAIN SubSeq(mmr[id], 1, b) = 1..b
      /\ \A i \in 1..b : SubSeq(mmr[id], 1, b)[i] = mmr[id][i]
  <2>1. b \in 0..Len(mmr[id])
    BY <1>1
  <2>2. QED
    BY <1>1, <2>1, FirstLeaves
<1>4. PICK n \in 1..b : leaf = mmr[id][n]
  BY <1>2, <1>3 DEF MmrHas
<1>5. n \in 1..Len(mmr[id]) /\ n \in DOMAIN mmr[id] /\ ParaIdentifier(id) = id + 1
  BY <1>1, LenProperties, Channels
<1>6. QED
  BY <1>4, <1>5 DEF SenderInv, LeavesInOrder, ChannelInv, PagesSent

(* The heads tree that leaf m of a BEEFY root commits to holds a header of *)
(* the sender only if it is that of a finished block.                      *)
LEMMA HeadIsFinished ==
    ASSUME SenderInv, ChannelInv, NEW m \in 1..Len(relay), NEW header,
           TreeHas(LeafExtra(BeefyLeaf(m)), header), header.para = "sender",
           header.digest # NoDigest
    PROVE  \E b \in 1..Len(digests) :
              header.number = b /\ header.digest = MerkleRoot(digests[b])
<1>1. relay \in Seq([head : Nat, other : OtherHeads]) /\ Len(relay) \in Nat
  BY LenProperties DEF ChannelInv, RelayOK
<1>2. header \in LeavesOf(HeadsRoot(m - 1))
  BY DEF TreeHas, LeafExtra, BeefyLeaf
<1>3. CASE m = 1
  <2>1. HeadsRoot(m - 1) = MerkleRoot(<<>>)
    BY <1>3 DEF HeadsRoot
  <2>2. LeavesOf(MerkleRoot(<<>>)) = {}
    BY DEF LeavesOf, MerkleRoot
  <2>3. QED
    BY <1>2, <2>1, <2>2
<1>4. CASE m # 1
  <2>1. PICK n \in 1..Len(relay) : n = m - 1
    BY <1>1, <1>4
  <2>2. header = HeaderOf(relay[n].head) \/ header = relay[n].other
    <3>1. HeadsRoot(n) = MerkleRoot(<<HeaderOf(relay[n].head), relay[n].other>>)
      BY DEF HeadsRoot
    <3>2. LeavesOf(HeadsRoot(n)) = {HeaderOf(relay[n].head), relay[n].other}
      BY Zenon, <3>1, PairLeaves
    <3>3. QED
      BY <1>2, <2>1, <3>2
  <2>3. relay[n].head \in Nat /\ relay[n].other \in OtherHeads
    <3>1. relay[n] \in [head : Nat, other : OtherHeads]
      BY <1>1, ElementOfSeq
    <3>2. QED
      BY <3>1
  <2>4. header = HeaderOf(relay[n].head)
    BY <2>2, <2>3, ChannelAssumption
  <2>5. /\ relay[n].head # 0 /\ header.number = relay[n].head
        /\ header.digest = MerkleRoot(digests[relay[n].head])
    BY <2>4 DEF HeaderOf
  <2>6. relay[n].head <= Len(digests) /\ Len(digests) \in Nat
    BY LenProperties DEF ChannelInv, RelayOK, SenderInv, HistoryOK
  <2>7. relay[n].head \in 1..Len(digests)
    BY <2>3, <2>5, <2>6
  <2>8. QED
    BY <2>5, <2>7
<1>5. QED
  BY <1>3, <1>4

(* Any proof whatever, not only one that ReceivedWasSent puts together:    *)
(* what is accepted under a header of the sender was sent by it.           *)
AcceptedWasSent ==
    \A target, proof :
        /\ Accepts(target, proof)
        /\ proof.stage_2.leaf.para = "sender"
        /\ \E S : proof.stage_1.leaves \in Seq(S) /\ proof.stage_4.leaves \in Seq(S)
        => SentBy(proof.stage_2.leaf, proof.stage_4.leaves)

(* The invariant makes the four stages chain back to the sender's MMR. *)
LEMMA InvImpliesAcceptedWasSent == SenderInv /\ ChannelInv => AcceptedWasSent
<1> SUFFICES ASSUME SenderInv, ChannelInv, NEW target, NEW p, NEW S,
                    Accepts(target, p), p.stage_2.leaf.para = "sender",
                    p.stage_1.leaves \in Seq(S), p.stage_4.leaves \in Seq(S)
             PROVE  SentBy(p.stage_2.leaf, p.stage_4.leaves)
  BY DEF AcceptedWasSent
<1> DEFINE beefyLeaf == p.stage_1.leaves[1]
           header == p.stage_2.leaf
           leaves == p.stage_4.leaves
<1>1. /\ target \in seen
      /\ V!verify_leaves_proof(target, p.stage_1)
      /\ ~(Len(p.stage_1.leaves) > 1) /\ Len(p.stage_1.leaves) # 0
      /\ LeafExtra(beefyLeaf) = p.stage_2.root
      /\ V!verify_proof(p.stage_2)
      /\ header.digest # NoDigest
      /\ header.digest = p.stage_3.root
      /\ V!verify_proof(p.stage_3)
      /\ V!verify_leaves_proof(p.stage_3.leaf, p.stage_4)
  BY DEF Accepts, V!XcmpVerdict, V!ChannelRootMatches, extract_xcmp_channel_root
<1>2. PICK t \in 0..Len(relay) : target = BeefyRoot(t)
  BY <1>1 DEF ChannelInv, SeenOK
<1>3. PICK m \in 1..Len(relay) : beefyLeaf = BeefyLeaf(m)
  <2>1. Len(p.stage_1.leaves) \in Nat /\ Len(relay) \in Nat
    BY LenProperties DEF ChannelInv, RelayOK
  <2>2. 1 \in 1..Len(p.stage_1.leaves)
    BY <1>1, <2>1
  <2>3. MmrHas(BeefyRoot(t), beefyLeaf)
    BY <1>1, <1>2, <2>2 DEF V!verify_leaves_proof
  <2>4. QED
    BY <2>1, <2>3 DEF MmrHas, BeefyRoot
<1>4. TreeHas(LeafExtra(BeefyLeaf(m)), header)
  BY <1>1, <1>3 DEF V!verify_proof
<1>5. PICK b \in 1..Len(digests) : header.number = b /\ header.digest = MerkleRoot(digests[b])
  BY <1>1, <1>4, HeadIsFinished
<1>6. PICK id \in MmrId : p.stage_3.leaf = digests[b][id + 1]
  <2>1. p.stage_3.leaf \in LeavesOf(MerkleRoot(digests[b]))
    BY <1>1, <1>5 DEF V!verify_proof, TreeHas
  <2>2. digests[b] = <<SubSeq(mmr[0], 1, b), SubSeq(mmr[1], 1, b)>>
    BY DEF SenderInv, HistoryOK
  <2>3. digests[b][0 + 1] = SubSeq(mmr[0], 1, b) /\ digests[b][1 + 1] = SubSeq(mmr[1], 1, b)
    BY <2>2
  <2>4. p.stage_3.leaf \in {SubSeq(mmr[0], 1, b), SubSeq(mmr[1], 1, b)}
    BY Zenon, <2>1, <2>2, PairLeaves
  <2>5. QED
    BY <2>3, <2>4, Channels
<1>7. ASSUME NEW i \in DOMAIN leaves
      PROVE  MmrHas(digests[b][id + 1], leaves[i])
  BY <1>1, <1>6, LenProperties DEF V!verify_leaves_proof
<1>8. QED
  BY <1>5, <1>7, DigestLeafWasSent DEF SentBy

(* Nothing is received that was not sent: whatever proof is accepted, at   *)
(* any recipient and in any state, under a header of the sender.           *)
THEOREM OnlySentIsAccepted == ChannelSpec => []AcceptedWasSent
BY ChannelInvariant, InvImpliesAcceptedWasSent, PTL

(* The same of the proofs that the runs put together from stages made at   *)
(* different blocks.                                                       *)
THEOREM OnlySentIsReceived == ChannelSpec => []ReceivedWasSent
<1>1. AcceptedWasSent => ReceivedWasSent
  <2> DEFINE Mixed(root, m, n, s3, leaf) ==
                [stage_1 |-> [of |-> root, leaves |-> <<root[m]>>], stage_2 |-> Stage2(n),
                 stage_3 |-> s3, stage_4 |-> [of |-> s3.leaf, leaves |-> <<leaf>>]]
  <2>1. ASSUME AcceptedWasSent, NEW root, NEW m, NEW n, NEW s3, NEW leaf,
               Accepts(root, Mixed(root, m, n, s3, leaf))
        PROVE  SentBy(Stage2(n).leaf, <<leaf>>)
    <3> DEFINE p == Mixed(root, m, n, s3, leaf)
               S == {root[m], leaf}
    <3>1. p.stage_2.leaf.para = "sender"
      BY DEF Stage2, Part, HeaderOf
    <3>2. /\ p.stage_1.leaves = <<root[m]>> /\ p.stage_4.leaves = <<leaf>>
          /\ p.stage_2 = Stage2(n)
      OBVIOUS
    <3>3. root[m] \in S /\ leaf \in S
      OBVIOUS
    <3> HIDE DEF p, S
    <3>4. <<root[m]>> \in Seq(S) /\ <<leaf>> \in Seq(S)
      BY <3>3
    <3>5. Accepts(root, p)
      BY <2>1 DEF p
    <3>6. QED
      BY Zenon, <2>1, <3>1, <3>2, <3>4, <3>5 DEF AcceptedWasSent
  <2> HIDE DEF Mixed
  <2>2. ASSUME AcceptedWasSent, NEW s1, NEW s2, NEW s3, NEW leaf,
               \E root \in seen : \E m \in DOMAIN root :
                  s1 = [of |-> root, leaves |-> <<root[m]>>],
               \E n \in DOMAIN relay : s2 = Stage2(n),
               Accepts(s1.of, [stage_1 |-> s1, stage_2 |-> s2, stage_3 |-> s3,
                               stage_4 |-> [of |-> s3.leaf, leaves |-> <<leaf>>]])
        PROVE  SentBy(s2.leaf, <<leaf>>)
    <3>1. PICK root, m : s1 = [of |-> root, leaves |-> <<root[m]>>]
      BY Zenon, <2>2
    <3>2. PICK n : s2 = Stage2(n)
      BY Zenon, <2>2
    <3>3. s1.of = root
      BY <3>1
    <3>4. Accepts(root, Mixed(root, m, n, s3, leaf))
      BY Zenon, <2>2, <3>1, <3>2, <3>3 DEF Mixed
    <3>5. QED
      BY Zenon, <2>1, <2>2, <3>2, <3>4
  <2>3. QED
    BY <2>2 DEF ReceivedWasSent
<1>2. QED
  BY <1>1, OnlySentIsAccepted, PTL

(* Whatever was committed by an included block can be proved to a          *)
(* recipient that has seen a root since.                                   *)
THEOREM IncludedIsReceivable == ChannelSpec => []IncludedCanBeReceived
<1>1. SenderInv /\ ChannelInv => IncludedCanBeReceived
  <2> SUFFICES ASSUME SenderInv, ChannelInv, NEW n \in DOMAIN relay,
                      NEW t \in n + 1..Len(relay), BeefyRoot(t) \in seen,
                      NEW id \in MmrId, NEW i \in 1..relay[n].head
               PROVE  Accepts(BeefyRoot(t),
                              [stage_1 |-> Stage1(t, n + 1),
                               stage_2 |-> Stage2(n),
                               stage_3 |-> Stage3(relay[n].head, id),
                               stage_4 |-> Stage4(relay[n].head, id, i)])
    BY DEF IncludedCanBeReceived
  <2> DEFINE b == relay[n].head
             s1 == Stage1(t, n + 1)
             s2 == Stage2(n)
             s3 == Stage3(b, id)
             s4 == Stage4(b, id, i)
             p == [stage_1 |-> s1, stage_2 |-> s2, stage_3 |-> s3, stage_4 |-> s4]
  <2>1. n \in 1..Len(relay) /\ Len(relay) \in Nat
    BY LenProperties DEF ChannelInv, RelayOK
  <2>2. b \in 1..Len(digests) /\ i \in 1..b
    <3>1. relay[n] \in [head : Nat, other : OtherHeads]
      BY <2>1, ElementOfSeq DEF ChannelInv, RelayOK
    <3>2. relay[n].head <= Len(digests) /\ Len(digests) \in Nat
      BY <2>1, LenProperties DEF ChannelInv, RelayOK, SenderInv, HistoryOK
    <3>3. QED
      BY <3>1, <3>2
  <2>3. /\ V!verify_leaves_proof(BeefyRoot(t), s1)
        /\ Len(s1.leaves) = 1 /\ s1.leaves[1] = BeefyLeaf(n + 1)
    <3>1. n + 1 \in 1..t
      BY <2>1
    <3>2. MmrHas(BeefyRoot(t), BeefyLeaf(n + 1))
      BY <3>1 DEF MmrHas, BeefyRoot
    <3>3. s1.of = BeefyRoot(t) /\ s1.leaves = <<BeefyLeaf(n + 1)>>
      BY DEF Stage1
    <3>4. \A leaf : Len(<<leaf>>) = 1 /\ <<leaf>>[1] = leaf
      OBVIOUS
    <3> HIDE DEF s1
    <3>5. Len(s1.leaves) = 1 /\ s1.leaves[1] = BeefyLeaf(n + 1)
      BY Zenon, <3>3, <3>4
    <3>6. QED
      BY <3>2, <3>3, <3>5 DEF V!verify_leaves_proof
  <2>4. LeafExtra(BeefyLeaf(n + 1)) = HeadsRoot(n)
    <3>1. (n + 1) - 1 = n
      BY <2>1
    <3>2. QED
      BY <3>1 DEF LeafExtra, BeefyLeaf
  <2>5. /\ HeadsRoot(n) # Undecodable /\ V!verify_proof(s2)
        /\ s2.wide = FALSE /\ s2.root = HeadsRoot(n)
    <3>1. HeadsRoot(n) = MerkleRoot(<<HeaderOf(b), relay[n].other>>)
      BY <2>1 DEF HeadsRoot
    <3>2. HeaderOf(b) \in LeavesOf(HeadsRoot(n))
      <4>1. LeavesOf(HeadsRoot(n)) = {HeaderOf(b), relay[n].other}
        BY Zenon, <3>1, PairLeaves
      <4>2. QED
        BY <4>1
    <3>3. HeadsRoot(n) # Undecodable
      BY <3>1 DEF MerkleRoot, Undecodable
    <3>4. /\ s2.leaf = HeaderOf(b) /\ s2.root = HeadsRoot(n)
          /\ s2.path = TRUE /\ s2.wide = FALSE
      BY DEF Stage2, Part
    <3> HIDE DEF s2
    <3>5. QED
      BY <3>2, <3>3, <3>4 DEF V!verify_proof, TreeHas
  <2>6. /\ extract_xcmp_channel_root(s2.leaf) = MerkleRoot(digests[b])
        /\ MerkleRoot(digests[b]) # Undecodable /\ MerkleRoot(digests[b]) # NoDigest
    <3>1. s2.leaf = HeaderOf(b) /\ b # 0
      <4>1. s2.leaf = HeaderOf(b)
        BY DEF Stage2, Part
      <4> HIDE DEF b, s2
      <4>2. QED
        BY <2>2, <4>1
    <3>2. HeaderOf(b).digest = MerkleRoot(digests[b])
      BY <3>1 DEF HeaderOf
    <3>3. MerkleRoot(digests[b]) # Undecodable /\ MerkleRoot(digests[b]) # NoDigest
      BY DEF MerkleRoot, Undecodable, NoDigest
    <3>4. QED
      BY Zenon, <3>1, <3>2, <3>3 DEF extract_xcmp_channel_root
  <2>7. digests[b] = <<SubSeq(mmr[0], 1, b), SubSeq(mmr[1], 1, b)>> /\ (id = 0 \/ id = 1)
    BY <2>2, Channels DEF SenderInv, HistoryOK
  <2>8. V!verify_proof(s3) /\ s3.wide = FALSE /\ s3.root = MerkleRoot(digests[b])
    <3>1. digests[b][id + 1] \in LeavesOf(MerkleRoot(digests[b]))
      <4>1. LeavesOf(MerkleRoot(digests[b])) = {SubSeq(mmr[0], 1, b), SubSeq(mmr[1], 1, b)}
        BY Zenon, <2>7, PairLeaves
      <4> HIDE DEF b
      <4>2. digests[b][id + 1] = SubSeq(mmr[id], 1, b)
        BY <2>7
      <4>3. QED
        BY Zenon, <2>7, <4>1, <4>2
    <3>2. /\ s3.leaf = digests[b][id + 1] /\ s3.root = MerkleRoot(digests[b])
          /\ s3.path = TRUE /\ s3.wide = FALSE
      BY DEF Stage3, Part
    <3> HIDE DEF b, s3
    <3>3. QED
      BY <3>1, <3>2 DEF V!verify_proof, TreeHas
  <2>9. V!verify_leaves_proof(s3.leaf, s4)
    <3>1. digests[b][id + 1] = SubSeq(mmr[id], 1, b)
      BY <2>7
    <3>2. mmr[id] \in Seq(Leaf) /\ b <= Len(mmr[id]) /\ Len(mmr[id]) \in Nat
      <4>1. mmr[id] \in Seq(Leaf) /\ Len(mmr[id]) = number /\ Len(mmr[id]) \in Nat
        BY LenProperties DEF SenderInv, HistoryOK
      <4>2. Len(digests) = number \/ Len(digests) = number - 1
        BY DEF SenderInv, HistoryOK
      <4>3. QED
        BY <2>2, <4>1, <4>2
    <3>3. /\ SubSeq(mmr[id], 1, b)[i] = mmr[id][i]
          /\ i \in DOMAIN SubSeq(mmr[id], 1, b)
      <4> HIDE DEF b
      <4>1. b \in 0..Len(mmr[id])
        BY <2>2, <3>2
      <4>2. QED
        BY <2>2, <3>2, <4>1, FirstLeaves
    <3>4. MmrHas(digests[b][id + 1], mmr[id][i])
      BY <3>1, <3>3 DEF MmrHas
    <3>5. /\ s3.leaf = digests[b][id + 1] /\ s4.of = digests[b][id + 1]
          /\ Len(s4.leaves) = 1 /\ s4.leaves[1] = mmr[id][i]
      <4>1. s4 = [of |-> digests[b][id + 1], leaves |-> <<mmr[id][i]>>]
        BY DEF Stage4
      <4>2. s3.leaf = digests[b][id + 1]
        BY DEF Stage3, Part
      <4>3. \A leaf : Len(<<leaf>>) = 1 /\ <<leaf>>[1] = leaf
        OBVIOUS
      <4> HIDE DEF s4
      <4>4. s4.of = digests[b][id + 1] /\ s4.leaves = <<mmr[id][i]>>
        BY <4>1
      <4>5. QED
        BY Zenon, <4>2, <4>3, <4>4
    <3> HIDE DEF b, s3, s4
    <3>6. \A j \in 1..Len(s4.leaves) : s4.leaves[j] = mmr[id][i]
      BY <3>5
    <3>7. QED
      BY Zenon, <3>4, <3>5, <3>6 DEF V!verify_leaves_proof
  <2> HIDE DEF b, s1, s2, s3, s4
  <2>10. p.stage_1 = s1 /\ p.stage_2 = s2 /\ p.stage_3 = s3 /\ p.stage_4 = s4
    OBVIOUS
  <2> HIDE DEF p
  <2>11. V!XcmpVerdict(seen, BeefyRoot(t), p) = "Ok"
    <3>1. /\ V!verify_leaves_proof(BeefyRoot(t), p.stage_1)
          /\ ~(Len(p.stage_1.leaves) > 1) /\ Len(p.stage_1.leaves) # 0
      <4>1. V!verify_leaves_proof(BeefyRoot(t), p.stage_1)
        BY Zenon, <2>3, <2>10
      <4>2. Len(p.stage_1.leaves) = 1
        BY Zenon, <2>3, <2>10
      <4>3. ~(1 > 1) /\ 1 # 0
        OBVIOUS
      <4>4. QED
        BY Zenon, <4>1, <4>2, <4>3
    <3>2. /\ LeafExtra(p.stage_1.leaves[1]) # Undecodable
          /\ LeafExtra(p.stage_1.leaves[1]) = p.stage_2.root
          /\ ~p.stage_2.wide /\ V!verify_proof(p.stage_2)
      BY <2>3, <2>4, <2>5, <2>10
    <3>3. /\ extract_xcmp_channel_root(p.stage_2.leaf) # Undecodable
          /\ extract_xcmp_channel_root(p.stage_2.leaf) # NoDigest
          /\ V!ChannelRootMatches(p)
          /\ ~p.stage_3.wide /\ V!verify_proof(p.stage_3)
      BY <2>6, <2>8, <2>10 DEF V!ChannelRootMatches
    <3>4. V!verify_leaves_proof(p.stage_3.leaf, p.stage_4)
      BY <2>9, <2>10
    <3>5. QED
      BY <3>1, <3>2, <3>3, <3>4 DEF V!XcmpVerdict
  <2>12. QED
    BY <2>11 DEF Accepts, p, b, s1, s2, s3, s4
<1>2. QED
  BY <1>1, ChannelInvariant, PTL
=============================================================================
