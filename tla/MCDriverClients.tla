--------------------------- MODULE MCDriverClients ---------------------------
(* Three clients: of three processes, or two of them of one.  Two slots are *)
(* enough for the table to be full.                                         *)
EXTENDS DriverClients, TLC

CONSTANTS c1, c2, c3

OwnPids    == (c1 :> "p1") @@ (c2 :> "p2") @@ (c3 :> "p3")
SharedPids == (c1 :> "p1") @@ (c2 :> "p1") @@ (c3 :> "p3")
=============================================================================
