---------------------------- MODULE MCNestedBlocks ----------------------------
(* Up to three slots, every kind of block, and two simulations loaded in    *)
(* exchange for the one in the second slot.                                *)
EXTENDS NestedBlocks

AllKinds == {"nested", "statemachine", "caseswitch", "forloop", "noreset"}
=============================================================================
