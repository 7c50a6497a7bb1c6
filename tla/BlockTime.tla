----------------------------- MODULE BlockTime -----------------------------
(***************************************************************************)
(* Time, slots and relay parents in block production.  Collators with      *)
(* clocks that differ by up to MaxSkew make the inherents of their blocks  *)
(* (build_consensus); the runtime executes them under its Timestamp, Aura  *)
(* and ParachainSystem configuration; other nodes import the blocks        *)
(* (build_import_queue) and the relay chain's validators check them        *)
(* (CheckInherents).  Times are in milliseconds, and the time of the model *)
(* is that of the slowest clock.                                           *)
(***************************************************************************)
EXTENDS Integers, FiniteSets

CONSTANTS
    N,          \* collators, 0..N-1: their indices in Aura::authorities()
    Skews,      \* how far a clock may be ahead of the slowest
    MaxSkew,
    Tick,       \* step of the time
    StartTime, MaxTime,   \* bounds of the time
    MaxLag,     \* bound: relay blocks that may pass while a collator awaits
    NoJob

Collators == 0..(N - 1)

(* A head of the parachain, by what its state keeps: CurrentSlot, Now and  *)
(* the relay parent's number; the tip of the relay chain, with the head it *)
(* has; and a block of the parachain, with the time it was made.           *)
Head == [slot : Nat, now : Nat, relay_number : Nat]
Tip == [number : Nat, slot : Nat, head : Head]
Block == [slot : Nat, now : Nat, relay_number : Nat, relay_slot : Nat, at : Nat]

ASSUME TimeAssumption ==
    /\ N \in Nat \ {0} /\ MaxSkew \in Nat
    /\ Skews \subseteq 0..MaxSkew
    /\ MaxSkew <= 12000     \* clocks agree to within a slot
    /\ Tick \in Nat /\ StartTime \in Nat /\ MaxTime \in Nat /\ MaxLag \in Nat
    /\ StartTime <= MaxTime
    /\ NoJob \notin Tip

VARIABLES
    time,     \* the time of the slowest clock
    skew,     \* collator -> how far its clock is ahead
    relay,    \* tip of the relay chain
    asked,    \* collators asked for a block on that tip
    job,      \* collator -> what it builds on, while it awaits the
              \* parachain inherent
    pending,  \* blocks on the head that the next relay block may include
    outcome   \* of a proposal just made

vars == <<time, skew, relay, asked, job, pending, outcome>>

-----------------------------------------------------------------------------
(* Constants of the runtime, and pallet_aura's slot duration, external:    *)
(* twice the minimum period.                                               *)
MILLISECS_PER_BLOCK == 12000
SLOT_DURATION == MILLISECS_PER_BLOCK
MinimumPeriod == SLOT_DURATION \div 2
AuraSlotDuration == 2 * MinimumPeriod

(* The runtime API that the node asks for the slot duration. *)
PeriodAsDuration == MinimumPeriod                                \* mutant
slot_duration == AuraSlotDuration

(* A node's system time, and the slot the inherent data providers of       *)
(* build_consensus and build_import_queue make of it.                      *)
Clock(c) == time + skew[c]
from_timestamp_and_slot_duration(timestamp) == timestamp \div slot_duration
SlotNow(c) == from_timestamp_and_slot_duration(Clock(c))

Genesis == [slot |-> 0, now |-> 0, relay_number |-> 0]

Init ==
    /\ time = StartTime
    /\ skew \in [Collators -> Skews]
    /\ relay = [number |-> 1, slot |-> StartTime \div 6000, head |-> Genesis]
    /\ asked = {}
    /\ job = [c \in Collators |-> NoJob]
    /\ pending = {}
    /\ outcome = "None"

-----------------------------------------------------------------------------
Pass ==
    /\ time + Tick <= MaxTime
    /\ time' = time + Tick
    /\ outcome' = "None"
    /\ UNCHANGED <<skew, relay, asked, job, pending>>

(* A collation on the relay chain's tip, asked for once (the relay chain   *)
(* node, external) and one at a time: the parachain inherent is made for   *)
(* that relay parent, and awaited, before the clock is read.               *)
NextParent(c) ==                                                 \* mutant
    /\ c \notin asked /\ job[c] = NoJob
    /\ asked' = asked \cup {c}
    /\ job' = [job EXCEPT ![c] = [relay EXCEPT !.number = @ + 1]]
    /\ outcome' = "None"
    /\ UNCHANGED <<time, skew, relay, pending>>
StartProposal(c) ==
    /\ c \notin asked /\ job[c] = NoJob
    /\ asked' = asked \cup {c}
    /\ job' = [job EXCEPT ![c] = relay]
    /\ outcome' = "None"
    /\ UNCHANGED <<time, skew, relay, pending>>

(* The parachain inherent could not be made. *)
NoInherent(c) ==
    /\ job[c] # NoJob
    /\ job' = [job EXCEPT ![c] = NoJob]
    /\ outcome' = "Failed to create parachain inherent"
    /\ UNCHANGED <<time, skew, relay, asked, pending>>

(* pallet_timestamp's create_inherent, external. *)
create_inherent(timestamp, now) ==
    IF timestamp >= now + MinimumPeriod THEN timestamp ELSE now + MinimumPeriod

(* The runtime's verdict on the block: the assertions of pallet_aura when  *)
(* the block is initialized, of ParachainSystem, of pallet_timestamp (the  *)
(* first block is free) and of pallet_aura when the inherents are          *)
(* executed.                                                               *)
AnySlot(b, head) ==                                              \* mutant
    IF b.relay_number <= head.relay_number THEN "Relay number must increase"
    ELSE IF head.now # 0 /\ b.now < head.now + MinimumPeriod THEN "Timestamp must increment"
    ELSE IF b.now \div AuraSlotDuration # b.slot THEN "Slot must match"
    ELSE "Built"
Execute(b, head) ==
    IF b.slot <= head.slot THEN "Slot must increase"
    ELSE IF b.relay_number <= head.relay_number THEN "Relay number must increase"
    ELSE IF head.now # 0 /\ b.now < head.now + MinimumPeriod THEN "Timestamp must increment"
    ELSE IF b.now \div AuraSlotDuration # b.slot THEN "Slot must match"
    ELSE "Built"

(* The rest of create_inherent_data_providers and the proposal, for the    *)
(* collator whose turn the slot is.                                        *)
Propose(c) ==
    /\ job[c] # NoJob
    /\ job' = [job EXCEPT ![c] = NoJob]
    /\ LET b == [slot |-> SlotNow(c),
                 now |-> create_inherent(Clock(c), job[c].head.now),
                 relay_number |-> job[c].number,
                 relay_slot |-> job[c].slot,
                 at |-> time]
       IN  IF b.slot % N = c
           THEN /\ outcome' = Execute(b, job[c].head)
                /\ pending' = IF outcome' = "Built" /\ job[c].head = relay.head
                              THEN pending \cup {b} ELSE pending
           ELSE outcome' = "Not claimed" /\ UNCHANGED pending
    /\ UNCHANGED <<time, skew, relay, asked>>

-----------------------------------------------------------------------------
(* pallet_timestamp's check_inherent, external, of a block on `now' for    *)
(* the inherent data of whoever checks.                                    *)
MaxDrift == 30000
TimestampFits(b, now, data) == b.now <= data + MaxDrift /\ b.now >= now + MinimumPeriod

(* CheckInherents: the data is the time of the relay parent's slot. *)
HalfDuration == 3000                                             \* mutant
RelaySlotDuration == 6000
check_inherents(b, head) == TimestampFits(b, head.now, b.relay_slot * RelaySlotDuration)

(* The import queue of a node: the header may be one slot ahead of its own *)
(* clock's, and the data is its own time.                                  *)
Verifies(c, b, head) == b.slot <= SlotNow(c) + 1 /\ TimestampFits(b, head.now, Clock(c))

(* The relay chain, external: a block in a later slot, by an author whose  *)
(* clock is off like anyone's, that includes a valid parachain block or    *)
(* none.                                                                   *)
HeadOf(b) == [slot |-> b.slot, now |-> b.now, relay_number |-> b.relay_number]
RelayBlock(head) ==
    \E s \in Skews :
        /\ (time + s) \div 6000 > relay.slot
        /\ \A c \in Collators : job[c] # NoJob => relay.number < job[c].number + MaxLag
        /\ relay' = [number |-> relay.number + 1, slot |-> (time + s) \div 6000, head |-> head]
        /\ pending' = {} /\ asked' = {} /\ outcome' = "None"
        /\ UNCHANGED <<time, skew, job>>

Next ==
    \/ Pass
    \/ \E c \in Collators : StartProposal(c) \/ NoInherent(c) \/ Propose(c)
    \/ RelayBlock(relay.head)
    \/ \E b \in pending : check_inherents(b, relay.head) /\ RelayBlock(HeadOf(b))

Spec == Init /\ [][Next]_vars

-----------------------------------------------------------------------------
Outcomes == {"None", "Failed to create parachain inherent", "Not claimed", "Built",
             "Slot must increase", "Relay number must increase", "Timestamp must increment",
             "Slot must match"}

(* The variables have their types, and blocks and proposals have relay     *)
(* parents that the relay chain has.                                       *)
TypeOK ==
    /\ time \in StartTime..MaxTime
    /\ skew \in [Collators -> Skews]
    /\ relay \in Tip
    /\ asked \subseteq Collators
    /\ job \in [Collators -> Tip \cup {NoJob}]
    /\ \A c \in Collators : job[c] # NoJob => job[c].number <= relay.number
    /\ pending \subseteq Block
    /\ \A b \in pending : b.relay_number <= relay.number
    /\ outcome \in Outcomes

(* A proposal fails only because its slot is not newer than its parent's,  *)
(* however clocks differ and however long the parachain inherent was       *)
(* awaited: raising the timestamp to the minimum period never takes it out *)
(* of the slot that the collator claimed from its clock, and is enough for *)
(* the timestamp, and the relay parent is newer than the parent block's.   *)
FailsOnlyInOldSlots ==
    outcome \notin {"Relay number must increase", "Timestamp must increment", "Slot must match"}

(* A block made soon enough after its relay parent. *)
Fresh(b) == b.at <= b.relay_slot * 6000 + MaxDrift - MaxSkew - MILLISECS_PER_BLOCK

(* No block is refused by an honest node for its time: every import queue  *)
(* takes it as soon as it is made and, if its relay parent is not too old, *)
(* so do the relay chain's validators.                                     *)
HonestBlocksAccepted ==
    \A b \in pending :
        /\ \A c \in Collators : Verifies(c, b, relay.head)
        /\ Fresh(b) => check_inherents(b, relay.head)

(* The parachain's time never stands still: a head that the relay chain    *)
(* takes is of a later slot, a later relay parent and, by the minimum      *)
(* period at least, a later time than the head before it, though the block *)
(* may have been made for a tip that was old by then, by another clock.    *)
HeadsAdvance ==
    [][relay'.head # relay.head =>
          /\ relay'.head.slot > relay.head.slot
          /\ relay'.head.relay_number > relay.head.relay_number
          /\ relay'.head.now >= relay.head.now + MinimumPeriod]_vars
=============================================================================
