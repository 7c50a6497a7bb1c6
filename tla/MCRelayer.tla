----------------------------- MODULE MCRelayer ------------------------------
(***************************************************************************)
(* Relayer for TLC: a root may come before or after the roots of older     *)
(* blocks in a BTreeMap.  Two roots at most are collected in a run within  *)
(* the bounds, so that these two orders are all there are.                 *)
(***************************************************************************)
EXTENDS Relayer

OldFirst == [p \in 0..MaxPara |-> p]
OldLast == [p \in 0..MaxPara |-> MaxPara - p]
BothOrders == {OldFirst, OldLast}
=============================================================================
