---------------------------- MODULE MCRouterRing -----------------------------
(* Small rings for TLC: four slots, blocks below, at and above what they    *)
(* hold.                                                                    *)
EXTENDS RouterRing

MixedInBlocks == {1, 3, 4}
MixedOutBlocks == {1, 2}
EqualBlocks == {2}
=============================================================================
