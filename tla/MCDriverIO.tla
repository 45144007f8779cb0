----------------------------- MODULE MCDriverIO ------------------------------
(* A player that only writes and one or two routers that record.            *)
EXTENDS DriverIO

CONSTANTS player, router, another

OneRouter  == {router}
TwoRouters == {router, another}
NoReader   == {}
OneSample == {1}
SmallBlocks == {1, 2}
=============================================================================
