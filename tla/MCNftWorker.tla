---------------------------- MODULE MCNftWorker ----------------------------
(***************************************************************************)
(* Small instances of NftWorker for TLC: a parent and one child.           *)
(***************************************************************************)
EXTENDS NftWorker

CONSTANTS parent, child, first, second

OneChild == {child}
OneSlot == {first}
TwoSlots == {first, second}

=============================================================================
