------------------------------ MODULE Delivery ------------------------------
(***************************************************************************)
(* What generate_xcmp_proof and the collectors promise about the messages  *)
(* of the sender, with no maps, locks or tasks.  Messages are known by     *)
(* their root, and blocks that are siblings announce the same one.  A root *)
(* is held at most once at a time, taken one at a time and only when the   *)
(* relay chain has included it, and then handed over or lost; only the     *)
(* collection of another block can bring it back.                          *)
(***************************************************************************)
EXTENDS Naturals, Sequences

CONSTANT Roots

VARIABLES
    announced,   \* roots of the blocks, in the order they became best
    collected,   \* how many of them the collector has read
    included,    \* roots of the blocks the relay chain included
    held,        \* roots whose proof is being put together
    taken,       \* the root whose proof is complete, if any
    handed       \* roots submitted, whatever the chain says to the proof

vars == <<announced, collected, included, held, taken, handed>>

Init ==
    /\ announced \in Seq(Roots) /\ collected \in 0..Len(announced)
    /\ included \subseteq Roots
    /\ held = {} /\ taken = {} /\ handed = <<>>

(* The sender has a new best block, the relay chain includes one. *)
Announce(r) ==
    /\ announced' = Append(announced, r)
    /\ UNCHANGED <<collected, included, held, taken, handed>>
Include(r) ==
    /\ included' = included \cup {r}
    /\ UNCHANGED <<announced, collected, held, taken, handed>>

(* The next block's root is held, or missed. *)
Collect ==
    /\ collected < Len(announced) /\ collected' = collected + 1
    /\ held' \in {held, held \cup {announced[collected + 1]}}
    /\ UNCHANGED <<announced, included, taken, handed>>

(* The proof for an included root is complete. *)
Take(r) ==
    /\ r \in held \cap included /\ taken = {}
    /\ held' = held \ {r} /\ taken' = {r}
    /\ UNCHANGED <<announced, collected, included, handed>>

(* It is submitted, or lost on the way. *)
HandOver(r) ==
    /\ r \in taken /\ taken' = {}
    /\ handed' \in {handed, Append(handed, r)}
    /\ UNCHANGED <<announced, collected, included, held>>

Next ==
    \/ Collect
    \/ \E r \in Roots : Announce(r) \/ Include(r) \/ Take(r) \/ HandOver(r)

Spec == Init /\ [][Next]_vars
=============================================================================
