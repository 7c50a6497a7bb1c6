-------------------------- MODULE BlockTimeProofs --------------------------
(***************************************************************************)
(* Block production for any number of collators, any clocks that agree to  *)
(* within a slot, and any length of time: proposals fail only in old slots *)
(* and no block is refused for its time.                                   *)
(***************************************************************************)
EXTENDS BlockTime, TLAPS

(* The runtime's constants. *)
LEMMA Durations ==
    /\ MinimumPeriod = 6000 /\ AuraSlotDuration = 12000
    /\ slot_duration = 12000 /\ RelaySlotDuration = 6000
  BY DEF MinimumPeriod, AuraSlotDuration, slot_duration, SLOT_DURATION,
         MILLISECS_PER_BLOCK, RelaySlotDuration

(* Slots and times: a slot is the half-open interval of its 12 seconds. *)
LEMMA SlotInterval ==
    ASSUME NEW t \in Nat
    PROVE  /\ t \div 12000 \in Nat
           /\ (t \div 12000) * 12000 <= t
           /\ t < (t \div 12000) * 12000 + 12000
  OBVIOUS

LEMMA SlotUnique ==
    ASSUME NEW t \in Nat, NEW s \in Nat, s * 12000 <= t, t < s * 12000 + 12000
    PROVE  t \div 12000 = s
  BY SlotInterval

(* pallet_timestamp's correction never leaves the slot claimed: a parent   *)
(* of an older slot is less than a minimum period from the end of the next.*)
LEMMA BumpStaysInSlot ==
    ASSUME NEW t \in Nat, NEW now \in Nat, now \div 12000 < t \div 12000
    PROVE  /\ create_inherent(t, now) \in Nat
           /\ create_inherent(t, now) >= now + 6000
           /\ create_inherent(t, now) \div 12000 = t \div 12000
  <1> DEFINE s == t \div 12000
             p == now \div 12000
             bumped == create_inherent(t, now)
  <1>1. /\ s \in Nat /\ s * 12000 <= t /\ t < s * 12000 + 12000
        /\ p \in Nat /\ now < p * 12000 + 12000 /\ p < s
    BY SlotInterval
  <1>2. bumped = IF t >= now + 6000 THEN t ELSE now + 6000
    BY Durations DEF create_inherent
  <1> HIDE DEF s, p, bumped
  <1>3. bumped \in Nat /\ bumped >= now + 6000
    BY <1>2
  <1>4. s * 12000 <= bumped /\ bumped < s * 12000 + 12000
    BY <1>1, <1>2
  <1>5. bumped \div 12000 = s
    BY <1>1, <1>3, <1>4, SlotUnique
  <1>6. QED
    BY <1>3, <1>5 DEF s, bumped
-----------------------------------------------------------------------------
(* The inductive invariant: heads are in their slots and older than the    *)
(* tip that has them, wherever a tip is kept; and a block that may still   *)
(* be included is newer than the head it is on, and in its slot, which the *)
(* clock of its author had reached when it was made.                       *)
TipOK(tip) ==
    /\ tip.head.now \div 12000 = tip.head.slot
    /\ tip.head.relay_number < tip.number
BlockOK(b) ==
    /\ b.now \div 12000 = b.slot
    /\ b.slot > relay.head.slot
    /\ b.relay_number > relay.head.relay_number
    /\ b.now >= relay.head.now + 6000
    /\ b.slot * 12000 <= b.at + MaxSkew
    /\ b.at <= time
TimeInv ==
    /\ TypeOK
    /\ TipOK(relay)
    /\ \A c \in Collators : job[c] # NoJob => TipOK(job[c])
    /\ \A b \in pending : BlockOK(b)
    /\ FailsOnlyInOldSlots

(* A collator's clock. *)
LEMMA ClockType ==
    ASSUME TypeOK, NEW c \in Collators
    PROVE  Clock(c) \in Nat /\ time <= Clock(c) /\ Clock(c) <= time + MaxSkew
  <1>1. /\ time \in Nat /\ MaxSkew \in Nat
        /\ skew \in [Collators -> Skews] /\ Skews \subseteq 0..MaxSkew
    BY TimeAssumption DEF TypeOK
  <1>2. skew[c] \in 0..MaxSkew
    BY <1>1
  <1>3. QED
    BY <1>1, <1>2 DEF Clock

LEMMA InitTimeInv == Init => TimeInv
  <1> SUFFICES ASSUME Init PROVE TimeInv
    OBVIOUS
  <1> USE TimeAssumption
  <1>1. StartTime \div 6000 \in Nat /\ 0 \div 12000 = 0
    OBVIOUS
  <1>2. relay \in Tip /\ TipOK(relay)
    BY <1>1 DEF Init, Tip, Head, Genesis, TipOK
  <1>3. QED
    BY <1>2 DEF Init, TimeInv, TypeOK, Outcomes, FailsOnlyInOldSlots

(* A proposal: what the block is, and what the runtime says of it. *)
LEMMA ProposedBlock ==
    ASSUME TimeInv, NEW c \in Collators, job[c] # NoJob,
           NEW b, b = [slot |-> SlotNow(c),
                       now |-> create_inherent(Clock(c), job[c].head.now),
                       relay_number |-> job[c].number,
                       relay_slot |-> job[c].slot,
                       at |-> time]
    PROVE  /\ Execute(b, job[c].head) \in {"Slot must increase", "Built"}
           /\ Execute(b, job[c].head) = "Built" /\ job[c].head = relay.head =>
                 b \in Block /\ b.relay_number <= relay.number /\ BlockOK(b)
  <1> DEFINE tip == job[c]
  <1>1. tip \in Tip /\ TipOK(tip) /\ tip.number <= relay.number /\ time \in Nat
    BY TimeAssumption DEF TimeInv, TypeOK
  <1>2. /\ Clock(c) \in Nat /\ Clock(c) <= time + MaxSkew /\ MaxSkew \in Nat
        /\ SlotNow(c) = Clock(c) \div 12000
    BY ClockType, TimeAssumption, Durations
       DEF TimeInv, SlotNow, from_timestamp_and_slot_duration
  <1>3. SlotNow(c) \in Nat /\ SlotNow(c) * 12000 <= Clock(c)
    BY <1>2, SlotInterval
  <1>4. /\ tip.head.now \in Nat /\ tip.head.slot \in Nat /\ tip.head.relay_number \in Nat
        /\ tip.number \in Nat /\ tip.slot \in Nat
        /\ tip.head.now \div 12000 = tip.head.slot
        /\ tip.head.relay_number < tip.number
    BY <1>1 DEF TipOK, Tip, Head
  <1>5. /\ b.slot = SlotNow(c) /\ b.now = create_inherent(Clock(c), tip.head.now)
        /\ b.relay_number = tip.number /\ b.relay_slot = tip.slot /\ b.at = time
    OBVIOUS
  <1> HIDE DEF tip
  <1>6. CASE b.slot <= tip.head.slot
    <2>1. Execute(b, tip.head) = "Slot must increase"
      BY <1>6 DEF Execute
    <2>2. QED
      BY <2>1 DEF tip
  <1>7. CASE b.slot > tip.head.slot
    <2>1. /\ b.now \in Nat /\ b.now >= tip.head.now + 6000
          /\ b.now \div 12000 = b.slot
      <3>1. tip.head.now \div 12000 < Clock(c) \div 12000
        BY <1>2, <1>3, <1>4, <1>5, <1>7
      <3>2. /\ create_inherent(Clock(c), tip.head.now) \in Nat
            /\ create_inherent(Clock(c), tip.head.now) >= tip.head.now + 6000
            /\ create_inherent(Clock(c), tip.head.now) \div 12000 = Clock(c) \div 12000
        <4>1. Clock(c) \in Nat /\ tip.head.now \in Nat
          BY <1>2, <1>4
        <4>2. QED
          BY <3>1, <4>1, BumpStaysInSlot
      <3>3. QED
        BY <1>2, <1>5, <3>2
    <2>2. Execute(b, tip.head) = "Built"
      <3>1. ~(b.slot <= tip.head.slot)
        BY <1>3, <1>4, <1>5, <1>7
      <3>2. ~(b.relay_number <= tip.head.relay_number)
        BY <1>4, <1>5
      <3>3. ~(b.now \div AuraSlotDuration # b.slot)
        BY <2>1, Durations
      <3>4. ~(b.now < tip.head.now + MinimumPeriod)
        BY <1>4, <2>1, Durations
      <3>5. QED
        BY <3>1, <3>2, <3>3, <3>4 DEF Execute
    <2>3. b \in Block
      BY <1>1, <1>3, <1>4, <1>5, <2>1 DEF Block
    <2>4. b.slot * 12000 <= b.at + MaxSkew
      BY <1>1, <1>2, <1>3, <1>5
    <2>5. tip.head = relay.head => BlockOK(b)
      BY <1>1, <1>4, <1>5, <1>7, <2>1, <2>4 DEF BlockOK
    <2>6. QED
      BY <1>1, <1>5, <2>2, <2>3, <2>5 DEF tip
  <1>8. b.slot <= tip.head.slot \/ b.slot > tip.head.slot
    BY <1>3, <1>4, <1>5
  <1>9. QED
    BY <1>6, <1>7, <1>8

LEMMA ProposeTimeInv ==
    ASSUME TimeInv, NEW c \in Collators, Propose(c)
    PROVE  TimeInv'
  <1> DEFINE b == [slot |-> SlotNow(c),
                   now |-> create_inherent(Clock(c), job[c].head.now),
                   relay_number |-> job[c].number, relay_slot |-> job[c].slot,
                   at |-> time]
  <1>1. /\ UNCHANGED <<time, skew, relay, asked>>
        /\ job[c] # NoJob /\ job' = [job EXCEPT ![c] = NoJob]
    BY DEF Propose
  <1>2. /\ outcome' = Execute(b, job[c].head) \/ outcome' = "Not claimed"
        /\ \/ pending' = pending
           \/ /\ pending' = pending \cup {b}
              /\ Execute(b, job[c].head) = "Built" /\ job[c].head = relay.head
    BY DEF Propose
  <1> HIDE DEF b
  <1>4. /\ Execute(b, job[c].head) \in {"Slot must increase", "Built"}
        /\ Execute(b, job[c].head) = "Built" /\ job[c].head = relay.head =>
              b \in Block /\ b.relay_number <= relay.number /\ BlockOK(b)
    BY <1>1, ProposedBlock DEF b
  <1>5. outcome' \in {"Slot must increase", "Built", "Not claimed"}
    BY <1>2, <1>4
  <1>6. \A x \in pending' : x \in pending \/
           (x \in Block /\ x.relay_number <= relay.number /\ BlockOK(x))
    BY <1>2, <1>4
  <1>7. TypeOK'
    <2>1. /\ job' \in [Collators -> Tip \cup {NoJob}]
          /\ \A d \in Collators : job'[d] # NoJob => job'[d].number <= relay'.number
      BY <1>1 DEF TimeInv, TypeOK
    <2>2. pending' \subseteq Block /\ \A x \in pending' : x.relay_number <= relay'.number
      BY <1>1, <1>6 DEF TimeInv, TypeOK
    <2>3. outcome' \in Outcomes
      BY <1>5 DEF Outcomes
    <2>4. QED
      BY <1>1, <2>1, <2>2, <2>3 DEF TimeInv, TypeOK
  <1>8. \A x \in pending' : BlockOK(x)'
    BY <1>1, <1>6 DEF TimeInv, BlockOK
  <1>9. TipOK(relay') /\ \A d \in Collators : job'[d] # NoJob => TipOK(job'[d])
    BY <1>1 DEF TimeInv, TypeOK
  <1>10. FailsOnlyInOldSlots'
    BY <1>5 DEF FailsOnlyInOldSlots
  <1>11. QED
    BY <1>7, <1>8, <1>9, <1>10 DEF TimeInv, TipOK

-----------------------------------------------------------------------------
(* The relay chain's step, with a head that is in order. *)
LEMMA RelayTimeInv ==
    ASSUME TimeInv, NEW head \in Head, RelayBlock(head),
           head.now \div 12000 = head.slot, head.relay_number <= relay.number
    PROVE  TimeInv'
  <1>1. PICK s \in Skews :
           relay' = [number |-> relay.number + 1, slot |-> (time + s) \div 6000, head |-> head]
    BY DEF RelayBlock
  <1>2. /\ UNCHANGED <<time, skew, job>>
        /\ pending' = {} /\ asked' = {} /\ outcome' = "None"
    BY DEF RelayBlock
  <1>3. time \in Nat /\ s \in Nat /\ relay.number \in Nat /\ head.relay_number \in Nat
    BY TimeAssumption DEF TimeInv, TypeOK, Tip, Head
  <1>4. (time + s) \div 6000 \in Nat
    BY <1>3
  <1>5. /\ relay' \in Tip /\ relay'.number = relay.number + 1 /\ relay'.head = head
    BY <1>1, <1>3, <1>4 DEF Tip
  <1>6. TypeOK'
    <2>1. \A c \in Collators : job'[c] # NoJob => job'[c].number <= relay'.number
      <3>1. ASSUME NEW c \in Collators, job[c] # NoJob
            PROVE  job[c].number <= relay'.number
        <4>1. job[c].number \in Nat /\ job[c].number <= relay.number
          BY <3>1 DEF TimeInv, TypeOK, Tip
        <4>2. QED
          BY <1>3, <1>5, <4>1
      <3>2. QED
        BY <1>2, <3>1
    <2>2. outcome' \in Outcomes
      BY <1>2 DEF Outcomes
    <2>3. QED
      BY <1>2, <1>5, <2>1, <2>2 DEF TimeInv, TypeOK
  <1>7. TipOK(relay')
    BY <1>3, <1>5 DEF TipOK
  <1>8. /\ \A c \in Collators : job'[c] # NoJob => TipOK(job'[c])
        /\ \A b \in pending' : BlockOK(b)'
    BY <1>2 DEF TimeInv
  <1>9. FailsOnlyInOldSlots'
    BY <1>2 DEF FailsOnlyInOldSlots
  <1>10. QED
    BY <1>6, <1>7, <1>8, <1>9 DEF TimeInv, TipOK

LEMMA NextTimeInv == TimeInv /\ [Next]_vars => TimeInv'
  <1> SUFFICES ASSUME TimeInv, [Next]_vars PROVE TimeInv'
    OBVIOUS
  <1>1. CASE Pass
    <2>1. /\ time' \in StartTime..MaxTime /\ time <= time'
          /\ outcome' = "None" /\ UNCHANGED <<skew, relay, asked, job, pending>>
      BY <1>1, TimeAssumption DEF Pass, TimeInv, TypeOK
    <2>2. TypeOK'
      BY <2>1 DEF TimeInv, TypeOK, Outcomes
    <2>3. \A b \in pending' : BlockOK(b)'
      BY <2>1, TimeAssumption DEF TimeInv, TypeOK, BlockOK, Block
    <2>4. /\ TipOK(relay') /\ \A c \in Collators : job'[c] # NoJob => TipOK(job'[c])
          /\ FailsOnlyInOldSlots'
      BY <2>1 DEF TimeInv, FailsOnlyInOldSlots
    <2>5. QED
      BY <2>2, <2>3, <2>4 DEF TimeInv, TipOK
  <1>2. ASSUME NEW c \in Collators, StartProposal(c) PROVE TimeInv'
    <2>1. /\ job' = [job EXCEPT ![c] = relay] /\ asked' = asked \cup {c}
          /\ outcome' = "None" /\ UNCHANGED <<time, skew, relay, pending>>
      BY <1>2 DEF StartProposal
    <2>2. relay \in Tip /\ relay.number <= relay.number
      BY DEF TimeInv, TypeOK, Tip
    <2>3. TypeOK'
      BY <2>1, <2>2 DEF TimeInv, TypeOK, Outcomes
    <2>4. \A d \in Collators : job'[d] # NoJob => TipOK(job'[d])
      BY <2>1 DEF TimeInv, TypeOK
    <2>5. TipOK(relay') /\ (\A b \in pending' : BlockOK(b)') /\ FailsOnlyInOldSlots'
      <3>1. FailsOnlyInOldSlots'
        BY <2>1 DEF FailsOnlyInOldSlots
      <3>2. TipOK(relay')
        BY <2>1 DEF TimeInv
      <3>3. \A b \in pending' : BlockOK(b)'
        <4>1. time' = time /\ relay' = relay /\ pending' = pending
          BY <2>1
        <4>2. QED
          BY <4>1 DEF TimeInv, BlockOK
      <3>4. QED
        BY <3>1, <3>2, <3>3
    <2>6. QED
      BY <2>3, <2>4, <2>5 DEF TimeInv, TipOK
  <1>3. ASSUME NEW c \in Collators, NoInherent(c) PROVE TimeInv'
    <2>1. /\ job' = [job EXCEPT ![c] = NoJob]
          /\ outcome' = "Failed to create parachain inherent"
          /\ UNCHANGED <<time, skew, relay, asked, pending>>
      BY <1>3 DEF NoInherent
    <2>2. TypeOK'
      BY <2>1 DEF TimeInv, TypeOK, Outcomes
    <2>3. \A d \in Collators : job'[d] # NoJob => TipOK(job'[d])
      BY <2>1 DEF TimeInv, TypeOK
    <2>4. TipOK(relay') /\ (\A b \in pending' : BlockOK(b)') /\ FailsOnlyInOldSlots'
      <3>1. FailsOnlyInOldSlots'
        <4>1. outcome' = "Failed to create parachain inherent"
          BY <2>1
        <4>2. QED
          BY <4>1 DEF FailsOnlyInOldSlots
      <3>2. TipOK(relay')
        BY <2>1 DEF TimeInv
      <3>3. \A b \in pending' : BlockOK(b)'
        <4>1. time' = time /\ relay' = relay /\ pending' = pending
          BY <2>1
        <4>2. QED
          BY <4>1 DEF TimeInv, BlockOK
      <3>4. QED
        BY <3>1, <3>2, <3>3
    <2>5. QED
      BY <2>2, <2>3, <2>4 DEF TimeInv, TipOK
  <1>4. ASSUME NEW c \in Collators, Propose(c) PROVE TimeInv'
    BY <1>4, ProposeTimeInv
  <1>5. CASE RelayBlock(relay.head)
    <2>1. relay.head \in Head /\ relay.number \in Nat /\ relay.head.relay_number \in Nat
      BY DEF TimeInv, TypeOK, Tip, Head
    <2>2. relay.head.now \div 12000 = relay.head.slot
          /\ relay.head.relay_number <= relay.number
      BY <2>1 DEF TimeInv, TipOK
    <2>3. QED
      BY <1>5, <2>1, <2>2, RelayTimeInv
  <1>6. ASSUME NEW b \in pending, RelayBlock(HeadOf(b)) PROVE TimeInv'
    <2>1. b \in Block /\ BlockOK(b) /\ b.relay_number <= relay.number
      BY DEF TimeInv, TypeOK
    <2>2. /\ HeadOf(b) \in Head /\ HeadOf(b).now = b.now /\ HeadOf(b).slot = b.slot
          /\ HeadOf(b).relay_number = b.relay_number
      BY <2>1 DEF HeadOf, Head, Block
    <2>3. HeadOf(b).now \div 12000 = HeadOf(b).slot
          /\ HeadOf(b).relay_number <= relay.number
      BY <2>1, <2>2 DEF BlockOK
    <2>4. QED
      BY <1>6, <2>2, <2>3, RelayTimeInv
  <1>7. CASE UNCHANGED vars
    <2>1. TypeOK' /\ FailsOnlyInOldSlots'
      BY <1>7 DEF vars, TimeInv, TypeOK, FailsOnlyInOldSlots
    <2>2. /\ TipOK(relay') /\ \A c \in Collators : job'[c] # NoJob => TipOK(job'[c])
          /\ \A b \in pending' : BlockOK(b)'
      BY <1>7 DEF vars, TimeInv, BlockOK
    <2>3. QED
      BY <2>1, <2>2 DEF TimeInv, TipOK
  <1>8. QED
    BY <1>1, <1>2, <1>3, <1>4, <1>5, <1>6, <1>7 DEF Next

-----------------------------------------------------------------------------
(* The variables keep their types, and every relay parent used exists. *)
THEOREM BlockTimeTypeCorrect == Spec => []TypeOK
  <1>1. TimeInv => TypeOK
    BY DEF TimeInv
  <1>2. QED
    BY <1>1, InitTimeInv, NextTimeInv, PTL DEF Spec

(* However clocks differ within a slot, and however long a collator awaits *)
(* the parachain inherent, Aura's assertion on the timestamp's slot and    *)
(* ParachainSystem's on the relay parent never fail.                       *)
THEOREM ProposalsFailOnlyInOldSlots == Spec => []FailsOnlyInOldSlots
  <1>1. TimeInv => FailsOnlyInOldSlots
    BY DEF TimeInv
  <1>2. QED
    BY <1>1, InitTimeInv, NextTimeInv, PTL DEF Spec

(* No honest node refuses a block for its time, and no validator does if   *)
(* the relay parent was recent.                                            *)
THEOREM NoHonestBlockRefused == Spec => []HonestBlocksAccepted
  <1>1. TimeInv => HonestBlocksAccepted
    <2> SUFFICES ASSUME TimeInv, NEW b \in pending
                 PROVE  /\ \A c \in Collators : Verifies(c, b, relay.head)
                        /\ Fresh(b) => check_inherents(b, relay.head)
      BY DEF HonestBlocksAccepted
    <2>1. /\ b.slot \in Nat /\ b.now \in Nat /\ b.relay_slot \in Nat /\ b.at \in Nat
          /\ time \in Nat /\ MaxSkew \in Nat /\ MaxSkew <= 12000
      BY TimeAssumption DEF TimeInv, TypeOK, Block
    <2>2. /\ b.now \div 12000 = b.slot /\ b.now >= relay.head.now + MinimumPeriod
          /\ b.slot * 12000 <= b.at + MaxSkew /\ b.at <= time
      BY Durations DEF TimeInv, BlockOK
    <2>3. b.now < b.slot * 12000 + 12000
      BY <2>1, <2>2, SlotInterval
    <2>4. ASSUME NEW c \in Collators PROVE Verifies(c, b, relay.head)
      <3> DEFINE clock == Clock(c)
                 slot == clock \div 12000
      <3>1. clock \in Nat /\ time <= clock /\ SlotNow(c) = slot
        BY ClockType, Durations DEF TimeInv, SlotNow, from_timestamp_and_slot_duration
      <3>2. slot \in Nat /\ clock < slot * 12000 + 12000
        BY <3>1, SlotInterval
      <3> HIDE DEF clock, slot
      <3>3. b.slot <= slot + 1
        BY <2>1, <2>2, <3>1, <3>2
      <3>4. b.now <= clock + 30000
        BY <2>1, <2>2, <2>3, <3>1
      <3>5. QED
        BY <2>2, <3>1, <3>3, <3>4 DEF Verifies, TimestampFits, MaxDrift, clock
    <2>5. Fresh(b) => check_inherents(b, relay.head)
      <3>1. Fresh(b) => b.now <= b.relay_slot * 6000 + 30000
        BY <2>1, <2>2, <2>3 DEF Fresh, MaxDrift, MILLISECS_PER_BLOCK
      <3>2. QED
        BY <2>2, <3>1, Durations DEF check_inherents, TimestampFits, MaxDrift
    <2>6. QED
      BY <2>4, <2>5
  <1>2. QED
    BY <1>1, InitTimeInv, NextTimeInv, PTL DEF Spec

(* Slots, relay parents and times of the heads that the relay chain takes  *)
(* strictly increase.                                                      *)
THEOREM HeadsAlwaysAdvance == Spec => HeadsAdvance
  <1>1. TimeInv /\ [Next]_vars =>
           [relay'.head # relay.head =>
              /\ relay'.head.slot > relay.head.slot
              /\ relay'.head.relay_number > relay.head.relay_number
              /\ relay'.head.now >= relay.head.now + MinimumPeriod]_vars
    <2> SUFFICES ASSUME TimeInv, [Next]_vars, relay'.head # relay.head
                 PROVE  /\ relay'.head.slot > relay.head.slot
                        /\ relay'.head.relay_number > relay.head.relay_number
                        /\ relay'.head.now >= relay.head.now + MinimumPeriod
      OBVIOUS
    <2>1. \/ relay' = relay
          \/ RelayBlock(relay.head)
          \/ \E b \in pending : RelayBlock(HeadOf(b))
      BY DEF Next, vars, Pass, StartProposal, NoInherent, Propose
    <2>2. ~(relay' = relay) /\ ~RelayBlock(relay.head)
      BY DEF RelayBlock
    <2>3. PICK b \in pending : RelayBlock(HeadOf(b))
      BY <2>1, <2>2
    <2>4. relay'.head = HeadOf(b)
      BY <2>3 DEF RelayBlock
    <2>5. BlockOK(b)
      BY DEF TimeInv
    <2>6. QED
      BY <2>4, <2>5, Durations DEF HeadOf, BlockOK
  <1>2. QED
    BY <1>1, InitTimeInv, NextTimeInv, PTL DEF Spec, HeadsAdvance
=============================================================================
